\* A folder nobody edits, with texts the YAML parser throws on.
SPECIFICATION FolderSpec
CONSTANTS
    Skills = {"s1"}
    BadSlugs = {}
    Faults = {"secret", "alias", "schema"}
    Blockable = {"BOT.md", "skills", "memory"}
    MaxEdits = 0
INVARIANT IssuesAreReturned
\* loadBot returns or throws, and the edits are bounded.
CHECK_DEADLOCK FALSE
