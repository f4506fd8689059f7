------------------------------ MODULE MCParts -------------------------------
(* The parts that share no state with one another or with the runtime,     *)
(* each explored by itself in one run of TLC: a behaviour picks a part at  *)
(* the start and only that part moves; the variables of the others rest at *)
(* a fixed value.  What each part is checked for is in its own module.     *)
EXTENDS Database, SecretStore, Redaction, BotFolder, ModelPin, EventTranslation,
        SpikeLog, StreamFrames, TLC

VARIABLE part

CONSTANTS n1, k1, k2, k3, b1, v1, v2, c1, c2, mcp_a, Read

suiteVars == <<part, rows, secretVars, redactVars, folderVars, pinState,
               translationVars, logVars, frameVars>>

DatabaseRests == rows = [i \in {} |-> NoRow]
SecretsRest ==
    /\ kek = k1 /\ seals = 0 /\ inHand = {} /\ stored = {} /\ faults = 0
    /\ fetched = {} /\ result = "none" /\ put = <<>> /\ history = {}
RedactionRests == text = <<>> /\ out = <<>> /\ left = {}
FolderRests ==
    /\ disk = <<>> /\ blocked = {} /\ edits = 0 /\ step = "root" /\ listed = {}
    /\ read = <<>> /\ issues = {} /\ loaded = {}
PinRests ==
    /\ pinning = "idle" /\ current = {} /\ pinned = "none" /\ pins = 0
    /\ fileText = "missing" /\ settings = {}
    /\ added = {} /\ crossed = {} /\ torn = FALSE

InitOf(p) ==
    /\ part = p
    /\ IF p = "database" THEN Init ELSE DatabaseRests
    /\ IF p = "secrets" THEN StoreInit ELSE SecretsRest
    /\ IF p = "redaction" THEN RedactInit ELSE RedactionRests
    /\ IF p = "folder" THEN FolderInit ELSE FolderRests
    /\ IF p = "pin" THEN PinInit ELSE PinRests
    /\ TranslationInit /\ LogInit /\ FramesInit

SuiteInit ==
    \E p \in {"database", "secrets", "redaction", "folder", "pin",
             "translation", "log", "frames"} : InitOf(p)

DatabaseMoves ==
    /\ part = "database" /\ Next
    /\ UNCHANGED <<part, secretVars, redactVars, folderVars, pinState,
                   translationVars, logVars, frameVars>>
SecretsMove ==
    /\ part = "secrets" /\ StoreNext
    /\ UNCHANGED <<part, rows, redactVars, folderVars, pinState,
                   translationVars, logVars, frameVars>>
RedactionMoves ==
    /\ part = "redaction" /\ RedactText
    /\ UNCHANGED <<part, rows, secretVars, folderVars, pinState,
                   translationVars, logVars, frameVars>>
FolderMoves ==
    /\ part = "folder" /\ FolderNext
    /\ UNCHANGED <<part, rows, secretVars, redactVars, pinState,
                   translationVars, logVars, frameVars>>
PinMoves ==
    /\ part = "pin" /\ PinNext
    /\ UNCHANGED <<part, rows, secretVars, redactVars, folderVars,
                   translationVars, logVars, frameVars>>
TranslationMoves ==
    /\ part = "translation" /\ ToRuntimeEvents
    /\ UNCHANGED <<part, rows, secretVars, redactVars, folderVars,
                   pinState, logVars, frameVars>>
LogMoves ==
    /\ part = "log" /\ LogNext
    /\ UNCHANGED <<part, rows, secretVars, redactVars, folderVars,
                   pinState, translationVars, frameVars>>
FramesMove ==
    /\ part = "frames" /\ FramesNext
    /\ UNCHANGED <<part, rows, secretVars, redactVars, folderVars,
                   pinState, translationVars, logVars>>

SuiteNext ==
    \/ DatabaseMoves \/ SecretsMove \/ RedactionMoves \/ FolderMoves \/ PinMoves
    \/ TranslationMoves \/ LogMoves \/ FramesMove

SuiteSpec == SuiteInit /\ [][SuiteNext]_suiteVars
-----------------------------------------------------------------------------
\* One row of most tables, two of those whose rows interfere.
MCMaxOf == [t \in Tables |->
    IF t \in {"routines", "attempts", "usage_records"} THEN 0
    ELSE IF t \in {"threads", "secrets"} THEN 2 ELSE 1]

\* One name, for the workspace and for a bot; two keys share a key id.
MCScopes == {[workspace |-> "w1", bot |-> b, name |-> "n1"] : b \in {NoBot, b1}}
MCKeyIdOf == k1 :> "id1" @@ k2 :> "id2" @@ k3 :> "id1"

\* Two values that begin alike, and one that overlaps both.
MCPatterns ==
    {[form |-> <<"a", "b">>, name |-> "A"], [form |-> <<"a", "b", "b">>, name |-> "B"],
     [form |-> <<"b", "a">>, name |-> "C"]}

MCPrefixed == "mcp*" :> {mcp_a}
MCInputs ==
    LET a(call, tool, images) ==
            [type |-> "tool_call", call |-> call, tool |-> tool, status |-> Unknown,
             images |-> images]
        r(call, status, images) ==
            [type |-> "tool_call_update", call |-> call, tool |-> Unknown,
             status |-> status, images |-> images]
    IN {a(c1, mcp_a, 0), a(c1, Unknown, 0), a(c2, Read, 0), r(c1, "failed", 0),
        r(c1, "completed", 2), r(c1, Unknown, 1), r(c2, "completed", 0)}
=============================================================================
