----------------------------- MODULE BotFolder -----------------------------
(* bot-format/load.ts loadBot: a bot folder is read file by file, every    *)
(* file is parsed and scanned for secrets, and the folder is loaded or     *)
(* refused with every issue found; or loadBot throws, when a path is there *)
(* but cannot be read, or the YAML parser throws.  Someone may edit the    *)
(* folder while it is being read.                                          *)
(* A text is what is wrong with it (its faults); the parsers are modelled  *)
(* by which faults they report: a broken fence hides the rest, broken YAML *)
(* hides the schema's.                                                     *)
EXTENDS Naturals, Maps

CONSTANTS
    Skills,    \* folders under skills/, by name
    BadSlugs,  \* those of them that are no slugs
    Faults,    \* faults texts may have
    Blockable, \* paths that may turn unreadable
    MaxEdits   \* bound: edits while the folder is read

VARIABLES
    disk,     \* file -> the faults of its text, for the files that are there
    blocked,  \* paths that stat, readdir or readFile fails on, with something
              \* else than ENOENT: no permission, a directory for a file, ...
    edits,
    step,     \* what loadBot does next, or how it ended
    listed,   \* skill folders still to be read
    read,     \* file -> the text loadBot read
    issues,   \* <<file, issue>> found so far
    loaded    \* files whose content goes into the LoadedBot

folderVars == <<disk, blocked, edits, step, listed, read, issues, loaded>>

(* "alias": an alias without an anchor, which the YAML parser throws on.   *)
AllFaults == {"secret", "fence", "yaml", "alias", "schema", "empty_body", "duplicate_name",
              "wrong_name", "unknown_catalog_id"}

Files == {"BOT.md", "bot.yaml"} \cup Skills
Folders == {"root", "skills", "memory"}

ASSUME FolderAssumption ==
    /\ Faults \subseteq AllFaults
    /\ Blockable \subseteq Files \cup Folders
    /\ Files \cap Folders = {}

(* The faults a kind of file can have.                                     *)
FaultsOf(file) == Faults \cap
    IF file = "BOT.md" THEN {"secret", "fence", "yaml", "alias", "schema", "empty_body"}
    ELSE IF file = "bot.yaml"
         THEN {"secret", "yaml", "alias", "schema", "duplicate_name", "unknown_catalog_id"}
    ELSE {"secret", "fence", "yaml", "alias", "schema", "wrong_name"}

Text(file) == SUBSET FaultsOf(file)
-----------------------------------------------------------------------------
(* What each parser reports of a text: parseBotMd, parseManifest (the      *)
(* schemas with their uniqueness rules) and parseSkill.                    *)
ParseIssues(faults) ==
    IF "fence" \in faults THEN {"fence"}
    ELSE IF "yaml" \in faults THEN {"yaml"}
    ELSE faults \cap {"schema", "empty_body", "duplicate_name"}

(* parseYaml: toJS() throws, before the syntax errors are looked at.       *)
ParserThrows(faults) == "alias" \in faults /\ "fence" \notin faults

SecretIssues(faults) == faults \cap {"secret"}

(* A skill's name is compared with its folder only once it has parsed.     *)
NameIssues(file, faults) ==
    IF file \in Skills /\ ParseIssues(faults) = {} THEN faults \cap {"wrong_name"} ELSE {}

\* Mutant: a text that does not parse is not scanned for secrets.
IssuesOfParsed(file, faults) ==
    IF ParseIssues(faults) # {} THEN ParseIssues(faults)
    ELSE SecretIssues(faults) \cup NameIssues(file, faults)

IssuesOf(file, faults) ==
    SecretIssues(faults) \cup ParseIssues(faults) \cup NameIssues(file, faults)

(* resolveMcp: catalog ids are looked up once nothing else is wrong.       *)
McpIssues(faults) == faults \cap {"unknown_catalog_id"}

SlugIssues(file) == IF file \in BadSlugs THEN {"slug"} ELSE {}
-----------------------------------------------------------------------------
FolderInit ==
    /\ edits = 0 /\ step = "root" /\ listed = {} /\ loaded = {}
    /\ issues = {} /\ read = <<>>
    /\ blocked \in SUBSET Blockable
    /\ \E present \in SUBSET Files :
        disk \in {f \in [present -> SUBSET Faults] : \A x \in present : f[x] \in Text(x)}

(* One file is written, replaced or removed, or one path is blocked or     *)
(* freed.                                                                  *)
Edit ==
    /\ edits < MaxEdits /\ edits' = edits + 1
    /\ \/ \E file \in Files : /\ \/ \E t \in Text(file) : disk' = MapSet(disk, file, t)
                                 \/ file \in DOMAIN disk /\ disk' = MapDelete(disk, file)
                              /\ UNCHANGED blocked
       \/ \E path \in Blockable : /\ blocked' \in {blocked \cup {path}, blocked \ {path}}
                                  /\ UNCHANGED disk
    /\ UNCHANGED <<step, listed, read, issues, loaded>>

Report(file, found) == issues' = issues \cup {<<file, i>> : i \in found}

(* loadBot throws: its caller gets the error, and none of the issues.      *)
Throw == step' = "threw"

(* readText throws on a file that is there and cannot be read.             *)
ReadThrows(file) ==
    /\ file \in blocked
    /\ Throw /\ Report(file, SlugIssues(file))
    /\ UNCHANGED <<read, loaded>>

ReadMissing(file, next) ==
    /\ file \notin blocked /\ file \notin DOMAIN disk
    /\ step' = next /\ Report(file, SlugIssues(file) \cup {"missing"})
    /\ UNCHANGED <<read, loaded>>

(* The text is scanned for secrets, and then parsed.                       *)
ReadText(file, next) ==
    LET faults == disk[file]
        refused == ParseIssues(faults) \cup NameIssues(file, faults) # {}
    IN /\ file \in DOMAIN disk \ blocked
       /\ read' = MapSet(read, file, faults)
       /\ \/ /\ ParserThrows(faults)
             /\ Throw /\ Report(file, SlugIssues(file) \cup SecretIssues(faults))
             /\ UNCHANGED loaded
          \/ /\ ~ParserThrows(faults)
             /\ step' = next /\ Report(file, SlugIssues(file) \cup IssuesOf(file, faults))
             /\ loaded' = IF refused THEN loaded ELSE loaded \cup {file}

(* readText and what loadBot does with the text, in one turn.              *)
ReadFile(file, next) == ReadThrows(file) \/ ReadMissing(file, next) \/ ReadText(file, next)

(* The folder is looked for; its own name is checked.                      *)
CheckRoot ==
    /\ step = "root"
    /\ \/ "root" \in blocked /\ Throw /\ UNCHANGED issues
       \/ /\ "root" \notin blocked /\ DOMAIN disk = {}
          /\ step' = "refused" /\ issues' = {<<"folder", "not_a_directory">>}
       \/ /\ "root" \notin blocked
          /\ step' = "BOT.md" /\ issues' \in {{}, {<<"folder", "slug">>}}
    /\ UNCHANGED <<disk, blocked, edits, listed, read, loaded>>

ReadBotMd ==
    /\ step = "BOT.md" /\ ReadFile("BOT.md", "bot.yaml")
    /\ UNCHANGED <<disk, blocked, edits, listed>>

ReadManifest ==
    /\ step = "bot.yaml" /\ ReadFile("bot.yaml", "list")
    /\ UNCHANGED <<disk, blocked, edits, listed>>

(* The folders that are there; a folder may hold no SKILL.md.              *)
ListSkills ==
    /\ step = "list"
    /\ \/ "skills" \in blocked /\ Throw /\ UNCHANGED listed
       \/ /\ "skills" \notin blocked /\ step' = "skills"
          /\ \E folders \in SUBSET Skills :
                Skills \cap DOMAIN disk \subseteq folders /\ listed' = folders
    /\ UNCHANGED <<disk, blocked, edits, read, issues, loaded>>

ReadSkill(name) ==
    /\ step = "skills" /\ name \in listed
    /\ listed' = listed \ {name}
    /\ ReadFile(name, "skills")
    /\ UNCHANGED <<disk, blocked, edits>>

(* memory/ is looked for; then the folder is refused with the issues, or   *)
(* the manifest's catalog references are resolved.                         *)
Finish ==
    /\ step = "skills" /\ listed = {}
    /\ \/ "memory" \in blocked /\ Throw /\ UNCHANGED issues
       \/ "memory" \notin blocked /\ issues # {} /\ step' = "refused" /\ UNCHANGED issues
       \/ /\ "memory" \notin blocked /\ issues = {}
          /\ Report("bot.yaml", McpIssues(read["bot.yaml"]))
          /\ step' = IF issues' = {} THEN "loaded" ELSE "refused"
    /\ UNCHANGED <<disk, blocked, edits, listed, read, loaded>>

FolderNext ==
    \/ Edit \/ CheckRoot \/ ReadBotMd \/ ReadManifest \/ ListSkills \/ Finish
    \/ \E name \in Skills : ReadSkill(name)

FolderSpec == FolderInit /\ [][FolderNext]_folderVars
-----------------------------------------------------------------------------
(* A bot is loaded only from texts without any fault, both required files  *)
(* among them, though the folder was being edited (load.ts:159-161).       *)
LoadedIsSound ==
    /\ {"BOT.md", "bot.yaml"} \subseteq loaded
    /\ DOMAIN read = loaded
    /\ \A f \in loaded : read[f] = {} /\ f \notin BadSlugs

(* A refusal names, for each file that was read, a fault its parser can    *)
(* see, every secret though the text does not parse, and a missing         *)
(* required file (load.ts:159-160).                                        *)
RefusalIsComplete ==
    /\ issues # {}
    /\ \A f \in {"BOT.md", "bot.yaml"} : f \notin DOMAIN read => <<f, "missing">> \in issues
    /\ \A f \in DOMAIN read :
        /\ "secret" \in read[f] => <<f, "secret">> \in issues
        /\ (read[f] \cap {"fence", "yaml", "schema", "empty_body", "duplicate_name"} # {})
            => \E i \in read[f] \ {"secret"} : <<f, i>> \in issues

(* A verdict on a folder, when loadBot comes to one: loaded soundly, or    *)
(* refused with every reason.  It says nothing of a loadBot that throws.   *)
VerdictIsSound ==
    /\ step = "loaded" => LoadedIsSound
    /\ (step = "refused" /\ issues # {<<"folder", "not_a_directory">>}) => RefusalIsComplete

(* "Every issue found is returned together" (load.ts:89-90): when loadBot  *)
(* throws there is no issue it had found.                                  *)
IssuesAreReturned == step = "threw" => issues = {}
=============================================================================
