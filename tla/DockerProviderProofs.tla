------------------------ MODULE DockerProviderProofs ------------------------
(***************************************************************************)
(* Theorems about DockerProvider, for any number of calls.  What holds of  *)
(* overlapping calls is proved from the types and one small invariant;     *)
(* what holds of calls that come one at a time needs SequentialInv, which  *)
(* says what each step of a call may rely on.                              *)
(***************************************************************************)
EXTENDS DockerProvider, TLAPS

(* A call that is about to act on a container has one to act on.           *)
ActsOnBox ==
    \A c \in Calls : at[c] \in {"remove", "start", "stop"} => found[c] # NoBox

(* Types need that much: without it, a start could run a missing box.      *)
TypeInv == TypeOK /\ ActsOnBox

(* The initial state has the right types. *)
LEMMA InitTypes == Init => TypeInv
BY DEF Init, TypeInv, TypeOK, ActsOnBox, Steps, Results

(* What findManaged and the removal of the container lead to is a step. *)
LEMMA NextRequests ==
    ASSUME TypeOK, NEW c \in Calls
    PROVE  /\ \A f \in Calls \cup {NoBox} :
                 /\ AfterFind(c, f) \in Steps
                 /\ AfterFind(c, f) \in {"remove", "start", "stop"} => f # NoBox
           /\ AfterRemove(c) \in Steps \ {"remove", "start", "stop"}
<1>1. op[c] \in {"provision", "reconnect", "stop", "destroy"}
      BY ProviderAssumption DEF TypeOK, Operations
<1>2. ASSUME NEW f \in Calls \cup {NoBox}
      PROVE  /\ AfterFind(c, f) \in {"inspect", "checkHome", "done", "start", "stop"}
             /\ AfterFind(c, f) \in {"start", "stop"} => f # NoBox
  <2>1. CASE op[c] \in {"provision", "destroy"}
        BY <2>1 DEF AfterFind
  <2>2. CASE op[c] = "reconnect"
        BY <2>2 DEF AfterFind
  <2>3. CASE op[c] = "stop"
        BY <2>3 DEF AfterFind
  <2>4. QED BY <1>1, <2>1, <2>2, <2>3
<1>3. AfterRemove(c) \in {"create", "removeHome", "done"}
      BY DEF AfterRemove
<1>4. QED BY <1>2, <1>3 DEF Steps

(* Every step keeps the types. *)
LEMMA StepTypes == TypeInv /\ [Next]_vars => TypeInv'
<1> SUFFICES ASSUME TypeInv, [Next]_vars PROVE TypeInv'
    OBVIOUS
<1>. USE ProviderAssumption
<1>1. ASSUME NEW c \in Calls, Begin(c) PROVE TypeInv'
      BY <1>1 DEF TypeInv, TypeOK, ActsOnBox, Begin, GoTo, Steps, daemonVars, Rivals
<1>2. ASSUME NEW c \in Calls, ListByLabel(c) PROVE TypeInv'
  <2>1. CASE Managed
    <3>1. /\ AfterFind(c, box) \in Steps
          /\ AfterFind(c, box) \in {"remove", "start", "stop"} => box # NoBox
          BY <2>1, NextRequests DEF TypeInv, Managed
    <3>2. TypeOK'
          BY <1>2, <2>1, <3>1 DEF TypeInv, TypeOK, ListByLabel, GoTo, Managed, daemonVars
    <3>3. ActsOnBox'
          BY <1>2, <2>1, <3>1 DEF TypeInv, TypeOK, ActsOnBox, ListByLabel, GoTo, Managed
    <3>4. QED BY <3>2, <3>3 DEF TypeInv
  <2>2. CASE ~Managed
        BY <1>2, <2>2 DEF TypeInv, TypeOK, ActsOnBox, ListByLabel, GoTo, Steps, daemonVars
  <2>3. QED BY <2>1, <2>2
<1>3. ASSUME NEW c \in Calls, ListByName(c) PROVE TypeInv'
  <2>1. AfterFind(c, NoBox) \in Steps \ {"remove", "start", "stop"}
        BY NextRequests DEF TypeInv
  <2>2. at' \in [Calls -> Steps] /\ result' \in [Calls -> Results]
        BY <1>3, <2>1 DEF TypeInv, TypeOK, ListByName, GoTo, Return, Proceed, Steps, Results
  <2>3. TypeOK'
        BY <1>3, <2>2 DEF TypeInv, TypeOK, ListByName, daemonVars
  <2>4. ActsOnBox'
        BY <1>3, <2>1 DEF TypeInv, TypeOK, ActsOnBox, ListByName, GoTo, Return, Proceed
  <2>5. QED BY <2>3, <2>4 DEF TypeInv
<1>4. ASSUME NEW c \in Calls, InspectHome(c) PROVE TypeInv'
  <2>1. TypeOK'
        BY <1>4 DEF TypeInv, TypeOK, InspectHome, HomeRefused, GoTo, Return, Steps, Results, daemonVars
  <2>2. ActsOnBox'
        BY <1>4 DEF TypeInv, TypeOK, ActsOnBox, InspectHome, HomeRefused, GoTo, Return
  <2>3. QED BY <2>1, <2>2 DEF TypeInv
<1>5. ASSUME NEW c \in Calls, CreateHome(c) PROVE TypeInv'
      BY <1>5 DEF TypeInv, TypeOK, ActsOnBox, CreateHome, GoTo, Touch, Steps
<1>6. ASSUME NEW c \in Calls, CheckHome(c) PROVE TypeInv'
  <2>1. sawHome' \in [Calls -> BOOLEAN]
        BY <1>6 DEF TypeInv, TypeOK, CheckHome
  <2>2. at' \in [Calls -> Steps] /\ result' \in [Calls -> Results]
        BY <1>6 DEF TypeInv, TypeOK, CheckHome, HomeRefused, GoTo, Return, Proceed, Steps, Results
  <2>3. TypeOK'
        BY <1>6, <2>1, <2>2 DEF TypeInv, TypeOK, CheckHome, HomeRefused, daemonVars
  <2>4. ActsOnBox'
        BY <1>6 DEF TypeInv, TypeOK, ActsOnBox, CheckHome, HomeRefused, GoTo, Return, Proceed
  <2>5. QED BY <2>3, <2>4 DEF TypeInv
<1>7. ASSUME NEW c \in Calls, RemoveBox(c) PROVE TypeInv'
  <2>1. AfterRemove(c) \in Steps \ {"remove", "start", "stop"}
        BY NextRequests DEF TypeInv
  <2>2. at' \in [Calls -> Steps] /\ result' \in [Calls -> Results]
        BY <1>7, <2>1 DEF TypeInv, TypeOK, RemoveBox, GoTo, Return, Proceed, Steps, Results
  <2>3. touched' \in [Calls -> BOOLEAN]
        BY <1>7 DEF TypeInv, TypeOK, RemoveBox, Touch
  <2>4. box' \in Calls \cup {NoBox, Foreign} /\ up' \in BOOLEAN /\ (up' => box' # NoBox)
        BY <1>7, Zenon DEF TypeInv, TypeOK, RemoveBox
  <2>5. TypeOK'
        BY <1>7, <2>2, <2>3, <2>4 DEF TypeInv, TypeOK, RemoveBox
  <2>6. ActsOnBox'
        BY <1>7, <2>1 DEF TypeInv, TypeOK, ActsOnBox, RemoveBox, GoTo, Return, Proceed
  <2>7. QED BY <2>5, <2>6 DEF TypeInv
<1>8. ASSUME NEW c \in Calls, CreateBox(c) PROVE TypeInv'
  <2>1. at' \in [Calls -> Steps] /\ result' \in [Calls -> Results]
        BY <1>8 DEF TypeInv, TypeOK, CreateBox, GoTo, Return, Steps, Results
  <2>2. touched' \in [Calls -> BOOLEAN]
        BY <1>8 DEF TypeInv, TypeOK, CreateBox, Touch
  <2>3. box' \in Calls \cup {NoBox, Foreign} /\ home' \in {"none", "ours", "unlabelled", "taken"}
        BY <1>8 DEF TypeInv, TypeOK, CreateBox, daemonVars
  <2>4. up' \in BOOLEAN /\ (up' => box' # NoBox)
    <3>1. CASE box' = c /\ up' = FALSE
          BY <3>1, Zenon
    <3>2. CASE box' = box /\ up' = up
          BY <3>2, Zenon DEF TypeInv, TypeOK
    <3>3. QED BY <1>8, <3>1, <3>2, Zenon DEF CreateBox, daemonVars
  <2>5. found' \in [Calls -> Calls \cup {NoBox}]
        BY <1>8 DEF TypeInv, TypeOK, CreateBox
  <2>6. TypeOK'
        BY <1>8, <2>1, <2>2, <2>3, <2>4, <2>5 DEF TypeInv, TypeOK, CreateBox
  <2>7. ActsOnBox'
        BY <1>8 DEF TypeInv, TypeOK, ActsOnBox, CreateBox, GoTo, Return
  <2>8. QED BY <2>6, <2>7 DEF TypeInv
<1>9. ASSUME NEW c \in Calls, StartBox(c) \/ StopBox(c) PROVE TypeInv'
  <2>1. at' \in [Calls -> Steps] /\ result' \in [Calls -> Results]
        BY <1>9 DEF TypeInv, TypeOK, StartBox, StopBox, GoTo, Return, Steps, Results
  <2>2. touched' \in [Calls -> BOOLEAN]
        BY <1>9 DEF TypeInv, TypeOK, StartBox, StopBox, Touch
  <2>3. found[c] # NoBox
        BY <1>9 DEF TypeInv, ActsOnBox, StartBox, StopBox
  <2>4. up' \in BOOLEAN /\ (up' => box' # NoBox)
        BY <1>9, <2>3, Zenon DEF TypeInv, TypeOK, StartBox, StopBox
  <2>5. TypeOK'
        BY <1>9, <2>1, <2>2, <2>4 DEF TypeInv, TypeOK, StartBox, StopBox
  <2>6. ActsOnBox'
        BY <1>9 DEF TypeInv, TypeOK, ActsOnBox, StartBox, StopBox, GoTo, Return
  <2>7. QED BY <2>5, <2>6 DEF TypeInv
<1>10. ASSUME NEW c \in Calls, RemoveHome(c) \/ Outage(c) PROVE TypeInv'
  <2>1. at' \in [Calls -> Steps] /\ result' \in [Calls -> Results]
        BY <1>10 DEF TypeInv, TypeOK, RemoveHome, Outage, GoTo, Return, Steps, Results
  <2>2. touched' \in [Calls -> BOOLEAN]
        BY <1>10 DEF TypeInv, TypeOK, RemoveHome, Outage, Touch
  <2>3. box' = box /\ up' = up /\ home' \in {"none", "ours", "unlabelled", "taken"}
        BY <1>10 DEF TypeInv, TypeOK, RemoveHome, Outage, daemonVars
  <2>4. UNCHANGED <<op, crossed, found, sawHome>>
        BY <1>10 DEF RemoveHome, Outage
  <2>5. TypeOK'
        BY <2>1, <2>2, <2>3, <2>4 DEF TypeInv, TypeOK
  <2>6. ActsOnBox'
        BY <1>10 DEF TypeInv, TypeOK, ActsOnBox, RemoveHome, Outage, GoTo, Return
  <2>7. QED BY <2>5, <2>6 DEF TypeInv
<1>11. CASE BoxDies \/ OutsiderBox \/ OutsiderHome
  <2>1. up' \in BOOLEAN /\ (up' => box' # NoBox)
    <3>1. CASE BoxDies
          BY <3>1, Zenon DEF BoxDies
    <3>2. CASE OutsiderBox
      <4>1. up' \in BOOLEAN /\ (up' => box' = Foreign)
            BY <3>2 DEF OutsiderBox
      <4>2. QED BY <4>1, Zenon
    <3>3. CASE OutsiderHome
          BY <3>3, Zenon DEF OutsiderHome, TypeInv, TypeOK
    <3>4. QED BY <1>11, <3>1, <3>2, <3>3
  <2>2. box' \in Calls \cup {NoBox, Foreign} /\ home' \in {"none", "ours", "unlabelled", "taken"}
        BY <1>11 DEF BoxDies, OutsiderBox, OutsiderHome, TypeInv, TypeOK
  <2>3. UNCHANGED <<op, at, found, sawHome, result, touched, crossed>>
        BY <1>11 DEF BoxDies, OutsiderBox, OutsiderHome
  <2>4. QED BY <2>1, <2>2, <2>3 DEF TypeInv, TypeOK, ActsOnBox
<1>12. CASE UNCHANGED vars
      BY <1>12 DEF TypeInv, TypeOK, ActsOnBox, vars, daemonVars
<1>13. QED
      BY <1>1, <1>2, <1>3, <1>4, <1>5, <1>6, <1>7, <1>8, <1>9, <1>10, <1>11, <1>12
      DEF Next, CallStep

(* Every variable keeps its type. *)
THEOREM ProviderTypes == Spec => []TypeOK
<1>1. TypeInv => TypeOK
      BY DEF TypeInv
<1>2. QED BY <1>1, InitTypes, StepTypes, PTL DEF Spec

-----------------------------------------------------------------------------
(* No step of any call touches a container that is not labelled as this    *)
(* bot's, however calls overlap: what a call acts on by id was labelled.   *)
THEOREM ForeignBoxIsSafe == Spec => ForeignBoxLeftAlone
<1> DEFINE Safe == \A c \in Calls : CallStep(c) /\ box = Foreign => box' = box /\ up' = up
<1>1. TypeOK => Safe
  <2> SUFFICES ASSUME TypeOK, NEW c \in Calls, CallStep(c), box = Foreign
               PROVE  box' = box /\ up' = up
      OBVIOUS
  <2>1. found[c] # Foreign /\ box # NoBox
        BY ProviderAssumption DEF TypeOK
  <2>2. CASE RemoveBox(c) \/ StartBox(c) \/ StopBox(c)
        BY <2>1, <2>2 DEF RemoveBox, StartBox, StopBox
  <2>3. CASE CreateBox(c)
        BY <2>1, <2>3 DEF CreateBox, daemonVars
  <2>4. CASE Begin(c) \/ ListByLabel(c) \/ ListByName(c) \/ InspectHome(c) \/ CreateHome(c)
        BY <2>4 DEF Begin, ListByLabel, ListByName, InspectHome, CreateHome, daemonVars
  <2>5. CASE CheckHome(c) \/ RemoveHome(c) \/ Outage(c)
        BY <2>5 DEF CheckHome, RemoveHome, Outage, daemonVars
  <2>6. QED BY <2>2, <2>3, <2>4, <2>5 DEF CallStep
<1>2. QED BY <1>1, ProviderTypes, PTL DEF Spec, ForeignBoxLeftAlone

(* A call has changed nothing while it is still looking around. *)
LookingInv ==
    \A c \in Calls :
        /\ at[c] \in {"idle", "list", "listName", "inspect", "checkHome"} => ~touched[c]
        /\ result[c] = "not-managed" => ~touched[c] /\ at[c] = "done"

(* A call that refuses has changed nothing before, however calls overlap.  *)
THEOREM RefusalsAreHarmless == Spec => []RefusalsTouchNothing
<1>1. Init => LookingInv
      BY DEF Init, LookingInv
<1>2. TypeOK /\ LookingInv /\ [Next]_vars => LookingInv'
  <2> SUFFICES ASSUME TypeOK, LookingInv, [Next]_vars PROVE LookingInv'
      OBVIOUS
  <2>1. ASSUME NEW c \in Calls, Begin(c) \/ ListByLabel(c) \/ ListByName(c) \/ InspectHome(c)
        PROVE  LookingInv'
        BY <2>1 DEF LookingInv, TypeOK, Begin, ListByLabel, ListByName, InspectHome, GoTo,
                    Return, Proceed
  <2>2. ASSUME NEW c \in Calls, CreateHome(c) \/ CheckHome(c)
        PROVE  LookingInv'
        BY <2>2 DEF LookingInv, TypeOK, CreateHome, CheckHome, GoTo, Return, Proceed, Touch
  <2>3. ASSUME NEW c \in Calls, RemoveBox(c) \/ CreateBox(c)
        PROVE  LookingInv'
        BY <2>3 DEF LookingInv, TypeOK, RemoveBox, CreateBox, AfterRemove, GoTo, Return,
                    Proceed, Touch
  <2>4. ASSUME NEW c \in Calls, StartBox(c) \/ StopBox(c) \/ RemoveHome(c) \/ Outage(c)
        PROVE  LookingInv'
        BY <2>4 DEF LookingInv, TypeOK, StartBox, StopBox, RemoveHome, Outage, GoTo, Return,
                    Touch
  <2>5. CASE BoxDies \/ OutsiderBox \/ OutsiderHome \/ UNCHANGED vars
        BY <2>5 DEF LookingInv, BoxDies, OutsiderBox, OutsiderHome, vars
  <2>6. QED BY <2>1, <2>2, <2>3, <2>4, <2>5 DEF Next, CallStep
<1>3. LookingInv => RefusalsTouchNothing
      BY DEF LookingInv, RefusalsTouchNothing
<1>4. QED BY <1>1, <1>2, <1>3, ProviderTypes, PTL DEF Spec

-----------------------------------------------------------------------------
(* A step of one call leaves the others where they are. *)
LEMMA OthersRest ==
    ASSUME TypeInv, NEW c \in Calls, CallStep(c)
    PROVE  /\ op' = op
           /\ \A d \in Calls \ {c} : /\ at'[d] = at[d] /\ found'[d] = found[d]
                                     /\ result'[d] = result[d] /\ sawHome'[d] = sawHome[d]
<1>1. CASE Begin(c) \/ ListByLabel(c) \/ ListByName(c)
      BY <1>1 DEF TypeInv, TypeOK, Begin, ListByLabel, ListByName, GoTo, Return, Proceed
<1>2. CASE InspectHome(c) \/ CreateHome(c) \/ CheckHome(c)
      BY <1>2 DEF TypeInv, TypeOK, InspectHome, HomeRefused, CreateHome, CheckHome, GoTo, Return, Proceed
<1>3. CASE RemoveBox(c) \/ CreateBox(c)
      BY <1>3 DEF TypeInv, TypeOK, RemoveBox, CreateBox, GoTo, Return, Proceed
<1>4. CASE StartBox(c) \/ StopBox(c) \/ RemoveHome(c) \/ Outage(c)
      BY <1>4 DEF TypeInv, TypeOK, StartBox, StopBox, RemoveHome, Outage, GoTo, Return
<1>5. QED BY <1>1, <1>2, <1>3, <1>4 DEF CallStep

(* A call makes the requests of its own operation.                         *)
OnPath(c) ==
    /\ at[c] \in {"inspect", "createHome", "create"} => op[c] = "provision"
    /\ at[c] = "remove" => op[c] \in {"provision", "destroy"}
    /\ at[c] \in {"checkHome", "removeHome"} => op[c] = "destroy"

PathInv == TypeInv /\ \A c \in Calls : OnPath(c)

(* No call leaves its path, and none but a destroy removes the home.       *)
LEMMA StepStaysOnPath ==
    ASSUME PathInv, NEW c \in Calls, CallStep(c)
    PROVE  /\ OnPath(c)'
           /\ op[c] # "destroy" => home' = home \/ home = "none"
<1> DEFINE Goal == OnPath(c)' /\ (op[c] # "destroy" => home' = home \/ home = "none")
<1>1. /\ op[c] \in {"provision", "reconnect", "stop", "destroy"} /\ at \in [Calls -> Steps]
      /\ OnPath(c) /\ op' = op
      BY OthersRest, ProviderAssumption DEF PathInv, TypeInv, TypeOK, Operations
<1>2. ASSUME NEW f PROVE /\ AfterFind(c, f) = "inspect" => op[c] = "provision"
                         /\ AfterFind(c, f) = "checkHome" => op[c] = "destroy"
                         /\ AfterFind(c, f) \in {"inspect", "checkHome", "done", "start", "stop"}
  <2>1. CASE op[c] = "provision"
        BY <2>1 DEF AfterFind
  <2>2. CASE op[c] = "destroy"
        BY <2>2 DEF AfterFind
  <2>3. CASE op[c] = "reconnect"
        BY <2>3 DEF AfterFind
  <2>4. CASE op[c] = "stop"
        BY <2>4 DEF AfterFind
  <2>5. QED BY <1>1, <2>1, <2>2, <2>3, <2>4
<1>3. CASE Begin(c)
      BY <1>1, <1>3 DEF OnPath, Begin, GoTo, daemonVars
<1>4. CASE ListByLabel(c)
  <2>1. at'[c] = "listName" \/ at'[c] = AfterFind(c, box)
        BY <1>1, <1>4 DEF ListByLabel, GoTo
  <2>2. home' = home
        BY <1>4 DEF ListByLabel, daemonVars
  <2>3. QED BY <1>1, <1>2, <2>1, <2>2 DEF OnPath
<1>5. CASE ListByName(c)
  <2>1. at'[c] = "done" \/ at'[c] = AfterFind(c, NoBox)
        BY <1>1, <1>5 DEF ListByName, GoTo, Return, Proceed
  <2>2. home' = home
        BY <1>5 DEF ListByName, daemonVars
  <2>3. QED BY <1>1, <1>2, <2>1, <2>2 DEF OnPath
<1>6. CASE InspectHome(c) \/ CreateHome(c)
      BY <1>1, <1>6 DEF OnPath, InspectHome, CreateHome, GoTo, Return, daemonVars
<1>7. CASE CheckHome(c)
      BY <1>1, <1>7 DEF OnPath, CheckHome, GoTo, Return, Proceed, daemonVars
<1>8. CASE RemoveBox(c) \/ CreateBox(c)
      BY <1>1, <1>8 DEF OnPath, RemoveBox, CreateBox, AfterRemove, GoTo, Return, Proceed,
                        daemonVars
<1>9. CASE StartBox(c) \/ StopBox(c) \/ RemoveHome(c) \/ Outage(c)
      BY <1>1, <1>9 DEF OnPath, StartBox, StopBox, RemoveHome, Outage, GoTo, Return, daemonVars
<1>10. QED
      BY <1>3, <1>4, <1>5, <1>6, <1>7, <1>8, <1>9 DEF CallStep

(* Nobody but the calls moves a call, and nobody else removes a home.      *)
LEMMA EnvironmentRests ==
    ASSUME BoxDies \/ OutsiderBox \/ OutsiderHome \/ UNCHANGED vars
    PROVE  /\ UNCHANGED <<op, at, found, sawHome, result, touched, crossed>>
           /\ home' = home \/ (home = "none" /\ home' = "taken")
BY DEF BoxDies, OutsiderBox, OutsiderHome, vars, daemonVars

LEMMA InitPath == Init => PathInv
BY InitTypes DEF Init, PathInv, OnPath

LEMMA StepPath == PathInv /\ [Next]_vars => PathInv' /\ op' = op
<1> SUFFICES ASSUME PathInv, [Next]_vars PROVE PathInv' /\ op' = op
    OBVIOUS
<1>1. TypeInv'
      BY StepTypes DEF PathInv
<1>2. ASSUME NEW c \in Calls, CallStep(c) PROVE (\A d \in Calls : OnPath(d)') /\ op' = op
  <2>1. OnPath(c)'
        BY <1>2, StepStaysOnPath
  <2>2. op' = op /\ \A d \in Calls \ {c} : at'[d] = at[d]
        BY <1>2, OthersRest DEF PathInv
  <2>3. \A d \in Calls \ {c} : OnPath(d)'
        BY <2>2 DEF PathInv, OnPath
  <2>4. QED BY <2>1, <2>2, <2>3
<1>3. CASE BoxDies \/ OutsiderBox \/ OutsiderHome \/ UNCHANGED vars
      BY <1>1, <1>3, EnvironmentRests DEF PathInv, OnPath
<1>4. QED
      BY <1>1, <1>2, <1>3 DEF PathInv, Next

(* Before its box is created or replaced, a provision's home is there,     *)
(* and in the absence of destroys it stays.                                *)
HomesStay ==
    (\A c \in Calls : op[c] # "destroy") =>
        /\ home # "unlabelled"
        /\ \A c \in Calls : at[c] \in {"remove", "create"} => home # "none"

(* However provisions, reconnects and stops overlap, and whatever names    *)
(* outsiders take, the daemon never has to create an unlabelled home.      *)
THEOREM HomesKeepTheirLabels == Spec => []OnlyDestroyUnlabels
<1>1. Init => HomesStay
      BY DEF Init, HomesStay
<1>2. PathInv /\ HomesStay /\ [Next]_vars => HomesStay'
  <2> SUFFICES ASSUME PathInv, HomesStay, [Next]_vars,
                      \A c \in Calls : op'[c] # "destroy"
               PROVE  /\ home' # "unlabelled"
                      /\ \A c \in Calls : at'[c] \in {"remove", "create"} => home' # "none"
      BY DEF HomesStay
  <2>1. /\ op' = op /\ PathInv /\ at \in [Calls -> Steps]
        /\ \A c \in Calls : op[c] # "destroy"
        /\ home # "unlabelled"
        /\ \A c \in Calls : at[c] \in {"remove", "create"} => home # "none"
        BY StepPath DEF PathInv, TypeInv, TypeOK, HomesStay
  <2>2. ASSUME NEW c \in Calls, CallStep(c)
        PROVE  /\ home' # "unlabelled"
               /\ \A d \in Calls : at'[d] \in {"remove", "create"} => home' # "none"
    <3>1. home' = home \/ home = "none"
          BY <2>1, <2>2, StepStaysOnPath
    <3>2. /\ home' # "unlabelled"
          /\ home' = "none" => home = "none"
          /\ at'[c] \in {"remove", "create"} => home' # "none"
      <4>0. OnPath(c) /\ op[c] # "destroy" /\ home \in {"none", "ours", "unlabelled", "taken"}
            BY <2>1 DEF PathInv, TypeInv, TypeOK
      <4>1. CASE Begin(c) \/ ListByLabel(c) \/ ListByName(c) \/ CheckHome(c) \/ RemoveHome(c)
        <5>1. home' = home
              BY <2>1, <4>0, <4>1 DEF Begin, ListByLabel, ListByName, CheckHome, RemoveHome,
                                 OnPath, daemonVars
        <5>2. at'[c] \notin {"remove", "create"}
          <6>1. CASE Begin(c)
                BY <2>1, <6>1 DEF Begin, GoTo
          <6>2. CASE ListByLabel(c) \/ ListByName(c)
            <7>1. op[c] \in {"provision", "reconnect", "stop"}
                  BY <4>0, ProviderAssumption DEF PathInv, TypeInv, TypeOK, Operations
            <7>2. ASSUME NEW f PROVE AfterFind(c, f) \notin {"remove", "create"}
              <8>1. CASE op[c] = "provision"
                    BY <8>1 DEF AfterFind
              <8>2. CASE op[c] = "reconnect"
                    BY <8>2 DEF AfterFind
              <8>3. CASE op[c] = "stop"
                    BY <8>3 DEF AfterFind
              <8>4. QED BY <7>1, <8>1, <8>2, <8>3
            <7>3. QED BY <2>1, <6>2, <7>2 DEF ListByLabel, ListByName, GoTo, Return, Proceed
          <6>3. CASE CheckHome(c) \/ RemoveHome(c)
                BY <4>0, <6>3 DEF CheckHome, RemoveHome, OnPath
          <6>4. QED BY <4>1, <6>1, <6>2, <6>3
        <5>3. QED BY <2>1, <5>1, <5>2
      <4>2. CASE InspectHome(c) \/ CreateHome(c)
            BY <2>1, <4>0, <4>2 DEF InspectHome, CreateHome, GoTo, Return, HomeRefused, daemonVars
      <4>3. CASE RemoveBox(c) \/ CreateBox(c)
            BY <2>1, <4>0, <4>3 DEF RemoveBox, CreateBox, daemonVars
      <4>4. CASE StartBox(c) \/ StopBox(c) \/ Outage(c)
            BY <2>1, <4>4 DEF StartBox, StopBox, Outage, GoTo, Return, daemonVars
      <4>5. QED BY <2>2, <4>1, <4>2, <4>3, <4>4 DEF CallStep
    <3>3. \A d \in Calls \ {c} : at'[d] = at[d]
          BY <2>1, <2>2, OthersRest DEF PathInv
    <3>4. QED BY <2>1, <3>2, <3>3
  <2>3. CASE BoxDies \/ OutsiderBox \/ OutsiderHome \/ UNCHANGED vars
        BY <2>1, <2>3, EnvironmentRests
  <2>4. QED BY <2>2, <2>3 DEF Next
<1>3. HomesStay => OnlyDestroyUnlabels
      BY DEF HomesStay, OnlyDestroyUnlabels
<1>4. PathInv /\ [Next]_vars => PathInv'
      BY StepPath
<1>5. QED BY <1>1, <1>2, <1>3, <1>4, InitPath, PTL DEF Spec

(* Destroys that are under way together have crossed.                      *)
CrossedInv ==
    \A c, d \in Calls : c # d /\ op[c] = "destroy" /\ op[d] = "destroy" /\ UnderWay(c) /\ UnderWay(d)
                          => c \in crossed

(* What a destroy nobody crossed is about to remove is the labelled home   *)
(* it looked at.                                                           *)
AboutToRemove(c) ==
    at[c] = "removeHome" \/ (at[c] = "remove" /\ op[c] = "destroy" /\ sawHome[c])

CheckedHomes == \A c \in Calls \ crossed : AboutToRemove(c) => home \notin {"none", "taken"}

(* A call begins at rest; every later step of it is made under way.        *)
LEMMA OnlyBeginCrosses ==
    ASSUME NEW c \in Calls, CallStep(c), ~Begin(c)
    PROVE  UnderWay(c) /\ crossed' = crossed
<1>1. CASE ListByLabel(c) \/ ListByName(c) \/ InspectHome(c) \/ CreateHome(c)
      BY <1>1 DEF ListByLabel, ListByName, InspectHome, CreateHome, UnderWay
<1>2. CASE CheckHome(c) \/ RemoveBox(c) \/ CreateBox(c) \/ StartBox(c)
      BY <1>2 DEF CheckHome, RemoveBox, CreateBox, StartBox, UnderWay
<1>3. CASE StopBox(c) \/ RemoveHome(c) \/ Outage(c)
      BY <1>3 DEF StopBox, RemoveHome, Outage, UnderWay
<1>4. QED BY <1>1, <1>2, <1>3 DEF CallStep

(* No other request than the volume's removal takes a home away.           *)
LEMMA OnlyRemovalTakesHomes ==
    ASSUME NEW c \in Calls, CallStep(c), ~RemoveHome(c)
    PROVE  home' = home \/ home = "none"
<1>1. CASE Begin(c) \/ ListByLabel(c) \/ ListByName(c) \/ InspectHome(c) \/ CreateHome(c)
      BY <1>1 DEF Begin, ListByLabel, ListByName, InspectHome, CreateHome, daemonVars
<1>2. CASE CheckHome(c) \/ RemoveBox(c) \/ CreateBox(c)
      BY <1>2 DEF CheckHome, RemoveBox, CreateBox, daemonVars
<1>3. CASE StartBox(c) \/ StopBox(c) \/ Outage(c)
      BY <1>3 DEF StartBox, StopBox, Outage, daemonVars
<1>4. QED BY <1>1, <1>2, <1>3 DEF CallStep

LEMMA StepCrossed == PathInv /\ CrossedInv /\ [Next]_vars => CrossedInv' /\ crossed \subseteq crossed'
<1> SUFFICES ASSUME PathInv, CrossedInv, [Next]_vars
             PROVE  CrossedInv' /\ crossed \subseteq crossed'
    OBVIOUS
<1>1. op' = op /\ at \in [Calls -> Steps]
      BY StepPath DEF PathInv, TypeInv, TypeOK
<1>2. ASSUME NEW c \in Calls, Begin(c) PROVE CrossedInv' /\ crossed \subseteq crossed'
  <2>1. crossed' = IF Rivals(c) = {} THEN crossed ELSE crossed \cup {c} \cup Rivals(c)
        BY <1>2 DEF Begin
  <2>2. \A d \in Calls \ {c} : UnderWay(d)' = UnderWay(d)
        BY <1>1, <1>2 DEF Begin, GoTo, UnderWay
  <2>3. ASSUME NEW d \in Calls \ {c}, op[c] = "destroy", op[d] = "destroy", UnderWay(d)
        PROVE  c \in crossed' /\ d \in crossed'
        BY <2>1, <2>3 DEF Rivals
  <2>4. QED BY <1>1, <2>1, <2>2, <2>3 DEF CrossedInv
<1>3. ASSUME NEW c \in Calls, CallStep(c), ~Begin(c) PROVE CrossedInv' /\ crossed \subseteq crossed'
  <2>1. crossed' = crossed /\ UnderWay(c)
        BY <1>3, OnlyBeginCrosses
  <2>2. \A d \in Calls : UnderWay(d)' => UnderWay(d)
        BY <1>3, <2>1, OthersRest DEF PathInv, UnderWay
  <2>3. QED BY <1>1, <2>1, <2>2 DEF CrossedInv
<1>4. CASE BoxDies \/ OutsiderBox \/ OutsiderHome \/ UNCHANGED vars
      BY <1>4, EnvironmentRests DEF CrossedInv, UnderWay
<1>5. QED BY <1>2, <1>3, <1>4 DEF Next, CallStep

(* A destroy that overlaps no other destroy removes no volume somebody     *)
(* else made, whatever other calls overlap with it and however many        *)
(* destroys, cut short or not, come before and after it.                   *)
THEOREM ForeignHomeIsSafe == Spec => ForeignHomeLeftAlone
<1> DEFINE Safe == \A c \in Calls \ crossed : CallStep(c) /\ home = "taken" => home' = "taken"
<1>1. Init => CrossedInv /\ CheckedHomes
      BY DEF Init, CrossedInv, CheckedHomes, UnderWay, AboutToRemove
<1>2. PathInv /\ CheckedHomes => Safe
  <2> SUFFICES ASSUME PathInv, CheckedHomes, NEW c \in Calls \ crossed, CallStep(c), home = "taken"
               PROVE  home' = "taken"
      OBVIOUS
  <2>1. RemoveHome(c) => AboutToRemove(c)
        BY DEF RemoveHome, AboutToRemove
  <2>2. QED BY <2>1, OnlyRemovalTakesHomes DEF CheckedHomes
<1>3. PathInv /\ CrossedInv /\ CheckedHomes /\ [Next]_vars => CheckedHomes'
  <2> SUFFICES ASSUME PathInv, CrossedInv, CheckedHomes, [Next]_vars,
                      NEW c \in Calls \ crossed', AboutToRemove(c)'
               PROVE  home' \notin {"none", "taken"}
      BY DEF CheckedHomes
  <2>1. /\ op' = op /\ at \in [Calls -> Steps] /\ sawHome \in [Calls -> BOOLEAN]
        /\ home \in {"none", "ours", "unlabelled", "taken"} /\ c \notin crossed /\ OnPath(c)
        BY StepPath, StepCrossed DEF PathInv, TypeInv, TypeOK
  <2>2. AboutToRemove(c) => home \notin {"none", "taken"} /\ op[c] = "destroy" /\ UnderWay(c)
        BY <2>1 DEF CheckedHomes, AboutToRemove, OnPath, UnderWay
  <2>3. ASSUME NEW d \in Calls, d # c, CallStep(d) PROVE home' \notin {"none", "taken"}
    <3>1. AboutToRemove(c)
          BY <2>1, <2>3, OthersRest DEF PathInv, AboutToRemove
    <3>2. ~RemoveHome(d)
      <4>1. RemoveHome(d) => op[d] = "destroy" /\ UnderWay(d)
            BY DEF RemoveHome, PathInv, OnPath, UnderWay
      <4>2. QED BY <2>1, <2>2, <2>3, <3>1, <4>1 DEF CrossedInv
    <3>3. QED BY <2>2, <2>3, <3>1, <3>2, OnlyRemovalTakesHomes
  <2>4. ASSUME CallStep(c) PROVE home' \notin {"none", "taken"}
    <3>1. OnPath(c)' /\ op[c] = "destroy"
      <4>1. OnPath(c)'
            BY <2>4, StepStaysOnPath
      <4>2. QED BY <2>1, <4>1 DEF OnPath, AboutToRemove
    <3>2. CASE Begin(c) \/ ListByLabel(c) \/ ListByName(c)
          BY <2>1, <3>1, <3>2 DEF Begin, ListByLabel, ListByName, AfterFind, GoTo, Return, Proceed,
                                  AboutToRemove
    <3>3. CASE InspectHome(c) \/ CreateHome(c) \/ CreateBox(c)
          BY <2>1, <3>1, <3>3 DEF InspectHome, CreateHome, CreateBox, OnPath
    <3>4. CASE CheckHome(c)
          BY <2>1, <3>4 DEF CheckHome, GoTo, Return, Proceed, HomeRefused, daemonVars, AboutToRemove
    <3>5. CASE RemoveBox(c)
      <4>1. home' = home /\ sawHome' = sawHome
            BY <3>5 DEF RemoveBox
      <4>2. at'[c] = "removeHome" => AboutToRemove(c)
            BY <2>1, <3>1, <3>5 DEF RemoveBox, AfterRemove, GoTo, Return, Proceed, AboutToRemove
      <4>3. at'[c] # "remove"
            BY <2>1, <3>1, <3>5 DEF RemoveBox, AfterRemove, GoTo, Return, Proceed
      <4>4. QED BY <2>2, <4>1, <4>2, <4>3 DEF AboutToRemove
    <3>6. CASE StartBox(c) \/ StopBox(c) \/ RemoveHome(c) \/ Outage(c)
          BY <2>1, <3>6 DEF StartBox, StopBox, RemoveHome, Outage, GoTo, Return, AboutToRemove
    <3>7. QED BY <2>4, <3>2, <3>3, <3>4, <3>5, <3>6 DEF CallStep
  <2>5. CASE BoxDies \/ OutsiderBox \/ OutsiderHome \/ UNCHANGED vars
    <3>1. AboutToRemove(c)
          BY <2>5, EnvironmentRests DEF AboutToRemove
    <3>2. QED BY <2>2, <2>5, <3>1, EnvironmentRests
  <2>6. QED BY <2>3, <2>4, <2>5 DEF Next
<1>4. PathInv /\ [Next]_vars => PathInv'
      BY StepPath
<1>5. PathInv /\ CrossedInv /\ [Next]_vars => CrossedInv'
      BY StepCrossed
<1>6. QED BY <1>1, <1>2, <1>3, <1>4, <1>5, InitPath, PTL DEF Spec, ForeignHomeLeftAlone

-----------------------------------------------------------------------------
(* Calls that come one at a time, on a host nobody else takes names on.    *)
Alone == ~Overlap /\ ~Outsiders

OneAtATime == \A c, d \in Calls : UnderWay(c) /\ UnderWay(d) => c = d

(* The daemon between any two requests: nothing foreign, and a box of ours *)
(* has its home.                                                           *)
DaemonInv == /\ box # Foreign
             /\ home \in {"none", "ours"}
             /\ Managed => home = "ours"

(* What a call may rely on before each of its requests.                    *)
RelyOn(c) ==
    /\ at[c] = "listName"   => box = NoBox
    /\ at[c] = "inspect"    => op[c] = "provision" /\ found[c] = box
    /\ at[c] = "createHome" => op[c] = "provision" /\ found[c] = box /\ box = NoBox
    /\ at[c] = "remove"     => /\ op[c] \in {"provision", "destroy"}
                               /\ found[c] = box /\ home = "ours"
                               /\ op[c] = "destroy" => sawHome[c]
    /\ at[c] = "create"     => op[c] = "provision" /\ box = NoBox /\ home = "ours"
    /\ at[c] = "start"      => /\ op[c] \in {"provision", "reconnect"}
                               /\ found[c] = box /\ Managed
                               /\ op[c] = "provision" => box = c
    /\ at[c] = "stop"       => op[c] = "stop" /\ found[c] = box /\ Managed
    /\ at[c] = "checkHome"  => op[c] = "destroy" /\ found[c] = box
    /\ at[c] = "removeHome" => op[c] = "destroy" /\ box = NoBox

(* A call that has not listed yet has found nothing. *)
FreshCalls == \A c \in Calls : at[c] \in {"idle", "list", "listName"} => found[c] = NoBox

SequentialInv == /\ TypeInv
                 /\ OneAtATime
                 /\ DaemonInv
                 /\ FreshCalls
                 /\ \A c \in Calls : RelyOn(c)
                 /\ NothingIsWedged

(* A call that takes a step is the only one under way.                     *)
LEMMA OnlyOneSteps ==
    ASSUME TypeInv, OneAtATime, ~Overlap, NEW c \in Calls, CallStep(c)
    PROVE  \A d \in Calls \ {c} : ~UnderWay(d)
<1>1. CASE Begin(c)
      BY <1>1 DEF Begin, UnderWay
<1>2. CASE ~Begin(c)
  <2>1. UnderWay(c)
        BY <1>2 DEF CallStep, ListByLabel, ListByName, InspectHome, CreateHome, CheckHome,
                    RemoveBox, CreateBox, StartBox, StopBox, RemoveHome, Outage, UnderWay
  <2>2. QED BY <2>1 DEF OneAtATime
<1>3. QED BY <1>1, <1>2

(* What a call's own step does to the daemon, to what the call relies on   *)
(* next and to how it ends, when the call is alone.                        *)
OwnStep(c) == /\ DaemonInv'
              /\ RelyOn(c)'
              /\ at'[c] \in {"idle", "list", "listName"} => found'[c] = NoBox
              /\ result'[c] \in {"none", "ok", "absent", "image-not-found", "outage"}

LEMMA StepAlone ==
    ASSUME SequentialInv, Alone, NEW c \in Calls, CallStep(c)
    PROVE  OwnStep(c)
<1>. USE ProviderAssumption DEF OwnStep
<1>0. /\ at \in [Calls -> Steps] /\ result \in [Calls -> Results]
      /\ found \in [Calls -> Calls \cup {NoBox}] /\ sawHome \in [Calls -> BOOLEAN]
      /\ op[c] \in Operations
      /\ box \in Calls \cup {NoBox, Foreign}
      /\ DaemonInv /\ RelyOn(c)
      /\ at[c] \in {"idle", "list", "listName"} => found[c] = NoBox
      /\ result[c] \in {"none", "ok", "absent", "image-not-found", "outage"}
      /\ at[c] \in {"remove", "start", "stop"} => found[c] # NoBox
      BY DEF SequentialInv, TypeInv, ActsOnBox, TypeOK, NothingIsWedged, FreshCalls
<1>1. CASE Begin(c)
      BY <1>0, <1>1 DEF Begin, GoTo, RelyOn, DaemonInv, Managed, daemonVars
<1>2. CASE ListByLabel(c)
      BY <1>0, <1>2 DEF ListByLabel, AfterFind, Operations, GoTo, RelyOn, DaemonInv, Managed,
                        daemonVars
<1>3. CASE ListByName(c)
      BY <1>0, <1>3 DEF ListByName, AfterFind, Operations, GoTo, Return, Proceed, RelyOn,
                        DaemonInv, Managed, daemonVars
<1>4. CASE InspectHome(c)
      BY <1>0, <1>4 DEF InspectHome, HomeRefused, GoTo, Return, RelyOn, DaemonInv, Managed, daemonVars
<1>5. CASE CreateHome(c)
      BY <1>0, <1>5 DEF CreateHome, GoTo, RelyOn, DaemonInv, Managed
<1>6. CASE CheckHome(c)
      BY <1>0, <1>6 DEF CheckHome, HomeRefused, GoTo, Return, Proceed, RelyOn, DaemonInv, Managed, daemonVars
<1>7. CASE RemoveBox(c)
      BY <1>0, <1>7 DEF RemoveBox, AfterRemove, GoTo, Return, Proceed, RelyOn, DaemonInv, Managed
<1>8. CASE CreateBox(c)
      BY <1>0, <1>8 DEF CreateBox, GoTo, Return, RelyOn, DaemonInv, Managed, daemonVars
<1>9. CASE StartBox(c) \/ StopBox(c)
      BY <1>0, <1>9 DEF StartBox, StopBox, GoTo, Return, RelyOn, DaemonInv, Managed
<1>10. CASE RemoveHome(c) \/ Outage(c)
      BY <1>0, <1>10 DEF RemoveHome, Outage, GoTo, Return, RelyOn, DaemonInv, Managed, daemonVars
<1>11. QED
      BY <1>1, <1>2, <1>3, <1>4, <1>5, <1>6, <1>7, <1>8, <1>9, <1>10 DEF CallStep

LEMMA InitSequential == Init => SequentialInv
<1>1. Init => TypeInv
      BY InitTypes
<1>2. QED BY <1>1, ProviderAssumption
          DEF Init, SequentialInv, OneAtATime, UnderWay, DaemonInv, Managed, FreshCalls, RelyOn,
              NothingIsWedged

LEMMA StepSequential == Alone /\ SequentialInv /\ [Next]_vars => SequentialInv'
<1> SUFFICES ASSUME Alone, SequentialInv, [Next]_vars PROVE SequentialInv'
    OBVIOUS
<1>0. TypeInv'
      BY StepTypes DEF SequentialInv
<1>1. ASSUME NEW c \in Calls, CallStep(c) PROVE SequentialInv'
  <2>1. OwnStep(c)
        BY <1>1, StepAlone
  <2>2. \A d \in Calls \ {c} : ~UnderWay(d)
        BY <1>1, OnlyOneSteps DEF SequentialInv, Alone
  <2>3. /\ op' = op
        /\ \A d \in Calls \ {c} : /\ at'[d] = at[d] /\ found'[d] = found[d]
                                  /\ result'[d] = result[d] /\ sawHome'[d] = sawHome[d]
        BY <1>1, OthersRest DEF SequentialInv
  <2>4. OneAtATime'
        BY <2>2, <2>3 DEF OneAtATime, UnderWay
  <2>5. \A d \in Calls : RelyOn(d)'
        BY <2>1, <2>2, <2>3 DEF OwnStep, RelyOn, UnderWay
  <2>6. FreshCalls' /\ NothingIsWedged'
        BY <2>1, <2>2, <2>3 DEF OwnStep, SequentialInv, FreshCalls, NothingIsWedged, UnderWay
  <2>7. QED BY <1>0, <2>1, <2>4, <2>5, <2>6 DEF OwnStep, SequentialInv
<1>2. CASE BoxDies \/ UNCHANGED vars
      BY <1>0, <1>2 DEF BoxDies, vars, daemonVars, SequentialInv, OneAtATime, UnderWay, DaemonInv,
                        Managed, FreshCalls, RelyOn, NothingIsWedged
<1>3. CASE OutsiderBox \/ OutsiderHome
      BY <1>3 DEF OutsiderBox, OutsiderHome, Alone
<1>4. QED BY <1>1, <1>2, <1>3 DEF Next

LEMMA AlwaysSequential ==
    ASSUME Alone PROVE Spec => []SequentialInv
<1>1. SequentialInv /\ [Next]_vars => SequentialInv'
      BY StepSequential
<1>2. QED BY <1>1, InitSequential, PTL DEF Spec

(* Whatever was left half done, the next call is not refused for it.       *)
THEOREM RetriesSucceed == ASSUME Alone PROVE Spec => []NothingIsWedged
<1>1. SequentialInv => NothingIsWedged
      BY DEF SequentialInv
<1>2. QED BY <1>1, AlwaysSequential, PTL

(* Our box has our labelled home. *)
THEOREM BoxesHaveHomes == ASSUME Alone PROVE Spec => []OurBoxHasOurHome
<1>1. SequentialInv => OurBoxHasOurHome
      BY DEF SequentialInv, DaemonInv, OurBoxHasOurHome
<1>2. QED BY <1>1, AlwaysSequential, PTL

(* A call that returns has brought about what the port promises of it.     *)
THEOREM ReturnsKeepPromises == ASSUME Alone PROVE Spec => ReturnMeansDone
<1> DEFINE Keeps == \A c \in Calls :
              at[c] # "done" /\ at'[c] = "done" /\ result'[c] \in {"ok", "absent"} => Promised(c)'
<1>1. SequentialInv /\ [Next]_vars => [Keeps]_vars
  <2> SUFFICES ASSUME SequentialInv, [Next]_vars, NEW c \in Calls,
                      at[c] # "done", at'[c] = "done", result'[c] \in {"ok", "absent"}
               PROVE  Promised(c)'
      OBVIOUS
  <2>1. CallStep(c)
    <3>1. ASSUME NEW d \in Calls, CallStep(d) PROVE d = c
          BY <3>1, OthersRest DEF SequentialInv
    <3>2. CASE BoxDies \/ UNCHANGED vars
          BY <3>2 DEF BoxDies, vars
    <3>3. CASE OutsiderBox \/ OutsiderHome
          BY <3>3 DEF OutsiderBox, OutsiderHome
    <3>4. QED BY <3>1, <3>2, <3>3 DEF Next
  <2>2. /\ at \in [Calls -> Steps] /\ result \in [Calls -> Results]
        /\ op[c] \in Operations
        /\ box \in Calls \cup {NoBox, Foreign}
        /\ up => box # NoBox
        /\ DaemonInv /\ RelyOn(c)
        /\ at[c] \in {"remove", "start", "stop"} => found[c] # NoBox
        BY ProviderAssumption DEF SequentialInv, TypeInv, ActsOnBox, TypeOK
  <2>. USE ProviderAssumption
  <2>3. CASE Begin(c) \/ Outage(c) \/ InspectHome(c) \/ CreateHome(c) \/ CreateBox(c)
        BY <2>2, <2>3 DEF Begin, Outage, InspectHome, CreateHome, CreateBox, GoTo, Return
  <2>4. CASE ListByLabel(c)
        BY <2>2, <2>4 DEF ListByLabel, AfterFind, Operations, GoTo, Managed
  <2>5. CASE ListByName(c)
        BY <2>2, <2>5 DEF ListByName, AfterFind, Operations, GoTo, Return, Proceed, Promised,
                          RelyOn, Managed, daemonVars
  <2>6. CASE CheckHome(c)
        BY <2>2, <2>6 DEF CheckHome, HomeRefused, GoTo, Return, Proceed, Promised, RelyOn, DaemonInv, Managed,
                          daemonVars
  <2>7. CASE RemoveBox(c)
        BY <2>2, <2>7 DEF RemoveBox, AfterRemove, GoTo, Return, Proceed, Promised, RelyOn
  <2>8. CASE StartBox(c) \/ StopBox(c)
        BY <2>2, <2>8 DEF StartBox, StopBox, GoTo, Return, Promised, RelyOn, DaemonInv, Managed
  <2>9. CASE RemoveHome(c)
        BY <2>2, <2>9 DEF RemoveHome, GoTo, Return, Promised, RelyOn
  <2>10. QED BY <2>1, <2>3, <2>4, <2>5, <2>6, <2>7, <2>8, <2>9 DEF CallStep
<1>2. QED BY <1>1, AlwaysSequential, PTL DEF Spec, ReturnMeansDone
=============================================================================
