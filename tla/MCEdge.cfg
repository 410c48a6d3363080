SPECIFICATION MCSpec
CONSTANTS
    Scenes = {"accounts", "sessions", "applies", "flows", "migration", "resolve", "exchange", "tag",
              "references", "archives", "sources", "names", "files", "quota", "table", "trie", "ip",
              "overlay", "waf", "operations", "retries", "records", "overlap"}
    None = None
CHECK_DEADLOCK FALSE
INVARIANT Types
 
INVARIANT AnswersSound
INVARIANT TransfersSound
 
 
