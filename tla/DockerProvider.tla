--------------------------- MODULE DockerProvider ---------------------------
(***************************************************************************)
(* The lifecycle of one bot's box: provision, reconnect, stop and destroy  *)
(* of packages/computer-docker/src/provider.ts over the Docker daemon.     *)
(* Names and labels are derived from the bot id (names.ts), so calls for   *)
(* two bots never meet and one bot is enough.                              *)
(*                                                                         *)
(* Every request to the daemon is a step of its own; the provider holds no *)
(* lock across them, so calls overlap as their callers let them (Overlap). *)
(* A request may fail, and the app may die between two of them: either way *)
(* the call is over and what it did stays done (Outage).  On a shared host *)
(* an outsider may take the bot's names, with labels that are not ours     *)
(* (Outsiders).                                                            *)
(*                                                                         *)
(* Of the daemon (external): a name belongs to at most one container, an   *)
(* id to one container for ever; a volume some container mounts is not     *)
(* removed; creating a volume that exists gives back the one there is;     *)
(* creating a container whose home volume is missing creates that volume,  *)
(* without labels.                                                         *)
(***************************************************************************)
CONSTANTS Calls,      \* calls on the provider; each makes at most one container
          NoBox,      \* no container carries the bot's container name
          Foreign,    \* the container that does is not labelled as this bot's
          Ops,        \* the operations that are called
          Overlap,    \* a call may begin while another is under way
          Outsiders   \* the bot's names may be taken by somebody else

Operations == {"provision", "reconnect", "stop", "destroy"}

ASSUME ProviderAssumption ==
    /\ Ops \subseteq Operations
    /\ {Overlap, Outsiders} \subseteq BOOLEAN
    /\ NoBox # Foreign /\ NoBox \notin Calls /\ Foreign \notin Calls

VARIABLES
    box,        \* the container under the bot's name: the call that made it
    up,         \* that container is running
    home,       \* the volume under the bot's name: "none", "ours" (labelled as this
                \* bot's), "unlabelled" (made by the daemon) or "taken" (by an outsider)
    op,         \* what each call was asked to do
    at,         \* the request each call makes next ("idle", "done": none)
    found,      \* the container each call acts on
    sawHome,    \* destroy: the volume was there
    result,     \* how a call that is done ended
    touched,    \* history: the call changed something on the daemon
    crossed     \* history: the destroys that were under way together with another one

daemonVars == <<box, up, home>>
vars == <<daemonVars, op, at, found, sawHome, result, touched, crossed>>

Steps == {"idle", "list", "listName", "inspect", "createHome", "remove", "create",
          "start", "stop", "checkHome", "removeHome", "done"}

Results == {"none", "ok", "absent", "not-managed", "not-found", "conflict",
            "image-not-found", "outage"}

Init == /\ box = NoBox /\ up = FALSE /\ home = "none"
        /\ op \in [Calls -> Ops]
        /\ at = [c \in Calls |-> "idle"]
        /\ found = [c \in Calls |-> NoBox]
        /\ sawHome = [c \in Calls |-> FALSE]
        /\ result = [c \in Calls |-> "none"]
        /\ touched = [c \in Calls |-> FALSE]
        /\ crossed = {}

(* The container is there and labelled as this bot's. *)
Managed == box \in Calls

(* The volume is there and not labelled as this bot's. *)
HomeRefused == home \in {"unlabelled", "taken"}

(* Which request follows findManaged.                                      *)
AfterFind(c, f) == CASE op[c] = "provision" -> "inspect"
                     [] op[c] = "destroy"   -> "checkHome"
                     [] op[c] = "reconnect" -> IF f = NoBox THEN "done" ELSE "start"
                     [] op[c] = "stop"      -> IF f = NoBox THEN "done" ELSE "stop"

(* Mutant: a destroy that removed the box is done. *)
AfterRemoveForgetsHome(c) == IF op[c] = "provision" THEN "create" ELSE "done"

(* Which request follows the removal of the container.                     *)
AfterRemove(c) == IF op[c] = "provision" THEN "create"
                  ELSE IF sawHome[c] THEN "removeHome" ELSE "done"

GoTo(c, step) == at' = [at EXCEPT ![c] = step]

(* The call is over. *)
Return(c, how) == GoTo(c, "done") /\ result' = [result EXCEPT ![c] = how]

(* The call goes on to `step`, or is over and done when there is none.     *)
Proceed(c, step, how) ==
    /\ GoTo(c, step)
    /\ result' = IF step = "done" THEN [result EXCEPT ![c] = how] ELSE result

Touch(c) == touched' = [touched EXCEPT ![c] = TRUE]

UnderWay(c) == at[c] \notin {"idle", "done"}

(* The destroys a destroy overlaps with from its beginning.                *)
Rivals(c) == {d \in Calls : op[c] = "destroy" /\ op[d] = "destroy" /\ UnderWay(d)}

-----------------------------------------------------------------------------
Begin(c) ==
    /\ at[c] = "idle"
    /\ Overlap \/ \A d \in Calls : ~UnderWay(d)
    /\ GoTo(c, "list")
    /\ crossed' = IF Rivals(c) = {} THEN crossed ELSE crossed \cup {c} \cup Rivals(c)
    /\ UNCHANGED <<daemonVars, op, found, sawHome, result, touched>>

(* findManaged: the listing by label ...                                   *)
ListByLabel(c) ==
    /\ at[c] = "list"
    /\ IF Managed
       THEN /\ found' = [found EXCEPT ![c] = box]
            /\ GoTo(c, AfterFind(c, box))
       ELSE GoTo(c, "listName") /\ UNCHANGED found
    /\ UNCHANGED <<daemonVars, op, crossed, sawHome, result, touched>>

(* ... and, when that finds none, the listing by name.                     *)
ListByName(c) ==
    /\ at[c] = "listName"
    /\ IF box # NoBox THEN Return(c, "not-managed")
                      ELSE Proceed(c, AfterFind(c, NoBox), "absent")
    /\ UNCHANGED <<daemonVars, op, crossed, found, sawHome, touched>>

(* ensureVolume: look at the home volume ...                               *)
InspectHome(c) ==
    /\ at[c] = "inspect"
    /\ \/ home = "none" /\ GoTo(c, "createHome") /\ UNCHANGED result
       \/ /\ home = "ours"
          /\ GoTo(c, IF found[c] = NoBox THEN "create" ELSE "remove")
          /\ UNCHANGED result
       \/ HomeRefused /\ Return(c, "not-managed")
    /\ UNCHANGED <<daemonVars, op, crossed, found, sawHome, touched>>

(* ... and create it, unless somebody has in the meantime.                 *)
CreateHome(c) ==
    /\ at[c] = "createHome"
    /\ GoTo(c, IF found[c] = NoBox THEN "create" ELSE "remove")
    /\ home' = IF home = "none" THEN "ours" ELSE home
    /\ Touch(c)
    /\ UNCHANGED <<box, up, op, crossed, found, sawHome, result>>

(* Mutant: the volume is removed before the container. *)
CheckHomeVolumeFirst(c) ==
    /\ at[c] = "checkHome"
    /\ sawHome' = [sawHome EXCEPT ![c] = home # "none"]
    /\ IF HomeRefused
       THEN Return(c, "not-managed")
       ELSE Proceed(c, IF home # "none" THEN "removeHome"
                       ELSE IF found[c] # NoBox THEN "remove" ELSE "done", "absent")
    /\ UNCHANGED <<daemonVars, op, crossed, found, touched>>

(* Mutant: the volume is removed whether it was there or not. *)
CheckHomeRemovesAnyway(c) ==
    /\ at[c] = "checkHome"
    /\ sawHome' = [sawHome EXCEPT ![c] = TRUE]
    /\ IF HomeRefused
       THEN Return(c, "not-managed")
       ELSE GoTo(c, IF found[c] # NoBox THEN "remove" ELSE "removeHome") /\ UNCHANGED result
    /\ UNCHANGED <<daemonVars, op, crossed, found, touched>>

(* destroy looks at the volume before anything is removed.                 *)
CheckHome(c) ==
    /\ at[c] = "checkHome"
    /\ sawHome' = [sawHome EXCEPT ![c] = home # "none"]
    /\ IF HomeRefused
       THEN Return(c, "not-managed")
       ELSE Proceed(c, IF found[c] # NoBox THEN "remove"
                       ELSE IF home # "none" THEN "removeHome" ELSE "done", "absent")
    /\ UNCHANGED <<daemonVars, op, crossed, found, touched>>

(* Mutant: the container is removed by its name. *)
RemoveBoxByName(c) ==
    /\ at[c] = "remove"
    /\ box' = NoBox /\ up' = FALSE
    /\ Proceed(c, AfterRemove(c), "ok")
    /\ Touch(c)
    /\ UNCHANGED <<home, op, crossed, found, sawHome>>

(* removeContainer(found.id); an id that is gone is a not-found.           *)
RemoveBox(c) ==
    /\ at[c] = "remove"
    /\ IF box = found[c]
       THEN /\ box' = NoBox /\ up' = FALSE
            /\ Proceed(c, AfterRemove(c), "ok")
            /\ Touch(c)
       ELSE Return(c, "not-found") /\ UNCHANGED <<box, up, touched>>
    /\ UNCHANGED <<home, op, crossed, found, sawHome>>

(* createContainer: the name is free, or taken (409); or no such image.    *)
CreateBox(c) ==
    /\ at[c] = "create"
    /\ \/ /\ box = NoBox
          /\ box' = c /\ up' = FALSE
          /\ home' = IF home = "none" THEN "unlabelled" ELSE home
          /\ found' = [found EXCEPT ![c] = c]
          /\ GoTo(c, "start") /\ Touch(c)
          /\ UNCHANGED result
       \/ /\ box # NoBox
          /\ Return(c, "conflict")
          /\ UNCHANGED <<daemonVars, found, touched>>
       \/ /\ Return(c, "image-not-found")
          /\ UNCHANGED <<daemonVars, found, touched>>
    /\ UNCHANGED <<op, crossed, sawHome>>

(* startContainer(id), which is a no-op for a container already running.   *)
StartBox(c) ==
    /\ at[c] = "start"
    /\ IF box = found[c]
       THEN up' = TRUE /\ Return(c, "ok") /\ Touch(c)
       ELSE Return(c, "not-found") /\ UNCHANGED <<up, touched>>
    /\ UNCHANGED <<box, home, op, crossed, found, sawHome>>

(* stopContainer(id), which is a no-op for a container already stopped.    *)
StopBox(c) ==
    /\ at[c] = "stop"
    /\ IF box = found[c]
       THEN up' = FALSE /\ Return(c, "ok") /\ Touch(c)
       ELSE Return(c, "not-found") /\ UNCHANGED <<up, touched>>
    /\ UNCHANGED <<box, home, op, crossed, found, sawHome>>

(* Mutant: the volume's labels are looked at just before its removal. *)
RemoveHomeChecksLate(c) ==
    /\ at[c] = "removeHome"
    /\ CASE HomeRefused -> Return(c, "not-managed") /\ UNCHANGED <<home, touched>>
         [] Managed /\ home = "ours" -> Return(c, "conflict") /\ UNCHANGED <<home, touched>>
         [] OTHER -> home' = "none" /\ Return(c, "ok") /\ Touch(c)
    /\ UNCHANGED <<box, up, op, crossed, found, sawHome>>

(* removeVolume(name): refused (409) while our container mounts it, and    *)
(* nothing to do when it is gone.                                          *)
RemoveHome(c) ==
    /\ at[c] = "removeHome"
    /\ IF Managed /\ home # "none"
       THEN Return(c, "conflict") /\ UNCHANGED <<home, touched>>
       ELSE home' = "none" /\ Return(c, "ok") /\ Touch(c)
    /\ UNCHANGED <<box, up, op, crossed, found, sawHome>>

(* A request fails, or the app dies with the call under way.               *)
Outage(c) ==
    /\ UnderWay(c)
    /\ Return(c, "outage")
    /\ UNCHANGED <<daemonVars, op, crossed, found, sawHome, touched>>

-----------------------------------------------------------------------------
(* The box's own end: its first process dies, or the daemon restarts.      *)
BoxDies ==
    /\ up
    /\ up' = FALSE
    /\ UNCHANGED <<box, home, op, crossed, at, found, sawHome, result, touched>>

(* Somebody takes the container name, or gives it back.                    *)
OutsiderBox ==
    /\ Outsiders
    /\ \/ box = NoBox /\ box' = Foreign
       \/ box = Foreign /\ box' = NoBox
    /\ up' \in {FALSE, box' = Foreign}
    /\ UNCHANGED <<home, op, crossed, at, found, sawHome, result, touched>>

(* Somebody takes the volume name.                                         *)
OutsiderHome ==
    /\ Outsiders
    /\ home = "none"
    /\ home' = "taken"
    /\ UNCHANGED <<box, up, op, crossed, at, found, sawHome, result, touched>>

CallStep(c) == \/ Begin(c) \/ ListByLabel(c) \/ ListByName(c) \/ InspectHome(c)
               \/ CreateHome(c) \/ CheckHome(c) \/ RemoveBox(c) \/ CreateBox(c)
               \/ StartBox(c) \/ StopBox(c) \/ RemoveHome(c) \/ Outage(c)

Next == (\E c \in Calls : CallStep(c)) \/ BoxDies \/ OutsiderBox \/ OutsiderHome

Spec == Init /\ [][Next]_vars

-----------------------------------------------------------------------------
TypeOK == /\ box \in Calls \cup {NoBox, Foreign}
          /\ up \in BOOLEAN /\ (up => box # NoBox)
          /\ home \in {"none", "ours", "unlabelled", "taken"}
          /\ op \in [Calls -> Ops]
          /\ at \in [Calls -> Steps]
          /\ found \in [Calls -> Calls \cup {NoBox}]
          /\ sawHome \in [Calls -> BOOLEAN]
          /\ result \in [Calls -> Results]
          /\ touched \in [Calls -> BOOLEAN]
          /\ crossed \subseteq Calls

(* A container that is not labelled as this bot's is never started,        *)
(* stopped or removed, even if it took the name after the labels were      *)
(* checked (provider.ts:33-36, names.ts:7-11).                             *)
ForeignBoxLeftAlone ==
    [][\A c \in Calls : CallStep(c) /\ box = Foreign => box' = box /\ up' = up]_vars

(* A destroy removes a volume somebody else made only if another destroy   *)
(* was under way together with it.  Provisions, reconnects and stops may   *)
(* overlap with it, and any number of destroys come before or after it,    *)
(* cut short or not: nobody but a destroy frees the name between its check *)
(* of the labels and its removal (provider.ts:161-170).                    *)
ForeignHomeLeftAlone ==
    [][\A c \in Calls \ crossed : CallStep(c) /\ home = "taken" => home' = "taken"]_vars

(* Without a destroy, no provision makes the daemon create an unlabelled   *)
(* home: every box is created after its labelled volume, and nothing else  *)
(* removes that (provider.ts:99-108, 131).                                 *)
OnlyDestroyUnlabels ==
    (\A c \in Calls : op[c] # "destroy") => home # "unlabelled"

(* A call that refuses because something is not ours has changed nothing   *)
(* before it refused: "a hard delete must not take half of something that  *)
(* is not ours" (provider.ts:161-163), and a provision removes no box      *)
(* whose home it will not use.                                             *)
RefusalsTouchNothing ==
    \A c \in Calls : result[c] = "not-managed" => ~touched[c]

(* Our box has our labelled home, running or not: no box lives on a volume *)
(* the app would refuse to recognise (names.ts:33).                        *)
OurBoxHasOurHome == Managed => home = "ours"

(* Whatever earlier calls left half done, a call that has the bot to       *)
(* itself does not fail for it: a provision, a stop or a destroy cut short *)
(* can be followed by any other call, itself included.                     *)
NothingIsWedged ==
    \A c \in Calls : result[c] \in {"none", "ok", "absent", "image-not-found", "outage"}

(* What a call that returns has brought about (core/computer.ts:95-102):   *)
(* provision a running box made by that very call, reconnect a running box *)
(* or none at all, stop no running box, destroy neither box nor home.      *)
Promised(c) ==
    CASE op[c] = "provision" -> box = c /\ up /\ home = "ours"
      [] op[c] = "reconnect" -> IF result[c] = "ok" THEN Managed /\ up ELSE box = NoBox
      [] op[c] = "stop"      -> ~up
      [] op[c] = "destroy"   -> box = NoBox /\ home = "none"

ReturnMeansDone ==
    [][\A c \in Calls :
          at[c] # "done" /\ at'[c] = "done" /\ result'[c] \in {"ok", "absent"} => Promised(c)']_vars
=============================================================================
