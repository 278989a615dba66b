----------------------------- MODULE NoticeRules -----------------------------
(***************************************************************************)
(* Where the announcement of an issue goes: the routing of logic.py, the   *)
(* working hours and the do-not-disturb of preferences.py, and the record  *)
(* of a user that load_config.py makes of the rows it has read.            *)
(* Pure operators: Directory applies them to what the bot has loaded.      *)
(* Hours are those of the bot's time zone; the zone a row names is read by *)
(* nothing (preferences.py).                                               *)
(***************************************************************************)
EXTENDS Integers, FiniteSets

CONSTANTS
  Users, Groups, Rooms,
  Keys,         \* keys of version routes
  Names,        \* names of versions in Redmine
  Contains,     \* pairs <<key, name>>: the name contains the key
  Fallback,     \* the key of the route taken when an issue has no version
  Moments,      \* moments of a week
  WorkingTime,  \* Monday to Friday, 9 to 18: the hours of who has set none
  None,         \* no group, no room, no hours, no version, no row yet
  Gone          \* a row that has been deleted

ASSUME NoticeRulesAssumption ==
  /\ Users \cap Groups = {}
  /\ Contains \subseteq Keys \X Names /\ Fallback \in Keys
  /\ WorkingTime \subseteq Moments
  /\ None \notin Users \cup Groups \cup Rooms \cup Keys \cup Names

Live(row) == row # None /\ row # Gone

\* An issue, as far as its announcement depends on it.
Issue == [version : Names \cup {None}, status : {"New", "RV"}, urgent : BOOLEAN]

\* The rows that are set, of a table of routes.
SetRoutes(routes) == {<<k, routes[k]>> : k \in {k \in Keys : routes[k] # None}}

UserCfgMutant(s, u) ==
  LET row == s.user[u] IN
  [id |-> u, room |-> row.room, notify |-> row.notify, hours |-> row.hours, dnd |-> row.dnd,
   group |-> row.group,
   delivery |-> IF row.group # None /\ Live(s.group[row.group]) THEN s.group[row.group] ELSE None,
   routes |-> SetRoutes(s.userRoute[u])]
\* user_orm_to_cfg: a user's row with the settings of the group's room and the
\* routes of both.
UserCfg(s, u) ==
  LET row == s.user[u] IN
  [id |-> u, room |-> row.room, notify |-> row.notify, hours |-> row.hours, dnd |-> row.dnd,
   group |-> row.group,
   delivery |-> IF row.group # None /\ Live(s.group[row.group]) THEN s.group[row.group] ELSE None,
   routes |-> SetRoutes(s.userRoute[u])
                \cup (IF row.group = None THEN {} ELSE SetRoutes(s.groupRoute[row.group]))]

Cfgs(s) == {UserCfg(s, u) : u \in {u \in Users : Live(s.user[u])}}

\* should_notify.
ShouldNotify(notify, kind) == "all" \in notify \/ kind \in notify

\* get_work_hours and get_work_days, is_working_time, is_dnd, can_notify.
CanNotify(c, urgent, moment) ==
  \/ urgent
  \/ ~c.dnd /\ moment \in (IF c.hours = None THEN WorkingTime ELSE c.hours)

GroupRoom(c) == IF c.delivery = None THEN None ELSE c.delivery.room

\* _cfg_for_room: in the group's room the group's settings hold.
CfgForRoom(c, room) ==
  IF GroupRoom(c) # None /\ room = GroupRoom(c)
    THEN [c EXCEPT !.notify = c.delivery.notify, !.hours = c.delivery.hours, !.dnd = c.delivery.dnd]
    ELSE c

MemberRooms(c, cfgs) == IF c.group = None THEN {} ELSE {d.room : d \in {d \in cfgs : d.group = c.group}}

\* _extra_rooms_for_issue_version.
VersionRooms(c, versionRoute, version) ==
  (IF version = None
     THEN {versionRoute[Fallback]}
     ELSE {rt[2] : rt \in {rt \in c.routes : <<rt[1], version>> \in Contains}}
            \cup {versionRoute[k] : k \in {k \in Keys : <<k, version>> \in Contains}}) \ {None}

\* get_extra_rooms_for_new, get_extra_rooms_for_rv.
ExtraRooms(c, s, issue) ==
  VersionRooms(c, s.versionRoute, issue.version)
    \cup (IF issue.status = "RV" THEN {s.statusRoute} \ {None} ELSE {})

Once(asked) == IF asked THEN 1 ELSE 0

AnnouncedMutant(c, s, issue) ==
  [room \in Rooms |->
     IF ShouldNotify(c.notify, "new")
       THEN Once(room = c.room) + Once(room \in MemberRooms(c, Cfgs(s)))
              + Once(room = GroupRoom(c) /\ ShouldNotify(CfgForRoom(c, room).notify, "new"))
              + Once(room \in ExtraRooms(c, s, issue))
       ELSE 0]
\* Blocks 2 and 3 of check_user_issues: how often send_safe is called with a room, for
\* the personal rooms, then the group's, then the extra ones.
Announced(c, s, issue) ==
  [room \in Rooms |->
     IF ShouldNotify(c.notify, "new")
       THEN Once(room \in {c.room} \cup MemberRooms(c, Cfgs(s)))
              + Once(room = GroupRoom(c) /\ ShouldNotify(CfgForRoom(c, room).notify, "new"))
              + Once(room \in ExtraRooms(c, s, issue))
       ELSE 0]

\* How often a room gets the announcement: send_safe may hold it back.
Delivered(s, u, issue, moment) ==
  [room \in Rooms |->
     IF Live(s.user[u]) /\ CanNotify(CfgForRoom(UserCfg(s, u), room), issue.urgent, moment)
       THEN Announced(UserCfg(s, u), s, issue)[room] ELSE 0]

-----------------------------------------------------------------------------
(* What the rows, and the forms they come from, promise of an issue of u.  *)

Wants(set) == {"all", "new"} \cap set.notify # {}
MayDisturb(set, issue, moment) ==
  \/ issue.urgent
  \/ ~set.dnd /\ \/ set.hours = None /\ moment \in WorkingTime
                 \/ set.hours # None /\ moment \in set.hours

Grouped(db, u) == db.user[u].group # None
GroupOf(db, u) == db.group[db.user[u].group]
\* Whose settings hold in a room: the group's in its own.
Settings(db, u, room) ==
  IF Grouped(db, u) /\ GroupOf(db, u).room = room THEN GroupOf(db, u) ELSE db.user[u]

\* The parts a room can play: somebody's own room, the group's, that of a route.
OwnRoom(db, u, v, room) ==
  /\ Live(db.user[v]) /\ db.user[v].room = room
  /\ v = u \/ (Grouped(db, u) /\ db.user[v].group = db.user[u].group)
OfGroup(db, u, room) == Grouped(db, u) /\ GroupOf(db, u).room = room /\ Wants(GroupOf(db, u))
Carries(routes, room, version) ==
  \E k \in Keys : routes[k] = room /\ <<k, version>> \in Contains
Routed(db, u, issue, room) ==
  \/ issue.version = None /\ db.versionRoute[Fallback] = room
  \/ issue.version # None /\ \/ Carries(db.userRoute[u], room, issue.version)
                             \/ Grouped(db, u) /\ Carries(db.groupRoute[db.user[u].group], room, issue.version)
                             \/ Carries(db.versionRoute, room, issue.version)
  \/ issue.status = "RV" /\ db.statusRoute = room

\* Somebody who is to have it in a room: the group, a route, and whoever of the user and
\* his colleagues would have it and may be disturbed.
Expects(db, u, issue, moment, room) ==
  \/ OfGroup(db, u, room)
  \/ Routed(db, u, issue, room)
  \/ \E v \in Users : /\ OwnRoom(db, u, v, room)
                      /\ Wants(db.user[v]) /\ MayDisturb(db.user[v], issue, moment)

\* Whether copies, by room, are what the rows promise.  Nobody is disturbed whose settings
\* hold, the user and in its room the group; nobody is missed meanwhile; and a room gets
\* a copy for each part it plays: one for all its routes, one for all whose own it is.
\* Of a colleague who has switched his notices off nothing is said.
AsPromised(db, u, issue, moment, copies) ==
  \A room \in Rooms :
    IF Live(db.user[u]) /\ Wants(db.user[u]) /\ MayDisturb(Settings(db, u, room), issue, moment)
      THEN /\ Expects(db, u, issue, moment, room) => copies[room] > 0
           /\ copies[room] <= Once(\E v \in Users : OwnRoom(db, u, v, room))
                                + Once(OfGroup(db, u, room)) + Once(Routed(db, u, issue, room))
      ELSE copies[room] = 0
=============================================================================
