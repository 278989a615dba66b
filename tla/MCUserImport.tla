---------------------------- MODULE MCUserImport ----------------------------
\* Two people with one surname, a service and a group; the account of the first, and one
\* whose localpart has the surname twice.
EXTENDS UserImport, TLC

Names == "ivan" :> {"ivanov", "ivan"} @@ "petr" :> {"ivanov", "petr"} @@ "robot" :> {"support"}
         @@ "devs" :> {"devs"}
Profiles ==
     "i.ivanov" :> [display |-> {"ivanov", "ivan"}, parts |-> <<"ivanov">>, within |-> {"ivanov"}]
  @@ "ivanov.ivanova" :> [display |-> {"petr_lat"}, parts |-> <<"ivanov", "ivanova">>,
                          within |-> {"ivanov"}]
Sounds == {<<"ivanov", "ivanov">>, <<"ivanova", "ivanov">>}
Latin == {<<"petr_lat", "petr">>}

\* The service is entered before the people, or the group between them.
Before == <<"ivan", "petr">>
Lists == {Before, <<"robot", "ivan", "petr">>, <<"ivan", "devs", "petr">>}

NotFound(p) == [person |-> p, status |-> "not_found", account |-> None]
EarlierPage == {<<NotFound("petr"), NotFound("ivan")>>}
=============================================================================
