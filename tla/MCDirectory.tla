----------------------------- MODULE MCDirectory -----------------------------
EXTENDS Directory, TLC

\* The key "k" is contained in the name of the version; "legacy" is the route of
\* issues without a version.
OneKeyContained == {<<"k", "version">>}

Day == [notify |-> {"all"}, hours |-> None, dnd |-> FALSE]
Night == [notify |-> {"new"}, hours |-> {"night"}, dnd |-> FALSE]
Away == [notify |-> {"all"}, hours |-> None, dnd |-> TRUE]
Deaf == [notify |-> {}, hours |-> None, dnd |-> FALSE]

InGroup(g, room, s) == [group |-> g, room |-> room] @@ s
Room(room, s) == [room |-> room] @@ s

SomeUserForms == {InGroup("g", "a", Night), InGroup(None, "b", Day), InGroup("g", "b", Away)}
SomeGroupForms == {Room("c", Night), Room("b", Away), Room(None, Deaf)}

\* One user in a group or, when the group is still to come, in none; a second one to
\* come; no routes.
OneUser ==
  {[Nothing EXCEPT !.user["u1"] = InGroup("g", "a", Day), !.group["g"] = Room("c", s)] :
     s \in {Day, Deaf}}
    \cup {[Nothing EXCEPT !.user["u1"] = InGroup(None, "a", Day)]}
==============================================================================
