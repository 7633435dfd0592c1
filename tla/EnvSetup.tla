------------------------------- MODULE EnvSetup -------------------------------
(***************************************************************************)
(* The .env file: `assembly setup` selects one LLM backend and rewrites    *)
(* the lines it manages, people edit the file, and the other commands read *)
(* it and let the environment of the process override it.  Nobody locks    *)
(* it.  A line is an assignment; comments and blank lines are left out.    *)
(***************************************************************************)
EXTENDS Integers, Sequences, SequencesExt

CONSTANTS
    Setups,      \* processes of `assembly setup`
    Requests,    \* what setup is asked for: see Request
    FirstFiles,  \* contents of .env, sequences of lines
    OtherKeys,   \* keys that setup does not manage
    Environs,    \* environments of the reading command, functions from keys to values
    Required,    \* required_env_keys of the profile
    Selected,    \* optional keys that a selected optional bundle needs a value of
    MaxEdits     \* bound: edits by hand

ApiKey  == "MINIMAX_API_KEY"
ApiBase == "MINIMAX_API_BASE"
Codex   == "REASONER_RUNTIME_ENABLE_CODEX_OAUTH"
Claude  == "REASONER_RUNTIME_ENABLE_CLAUDE_CODE_CLI"

\* _MANAGED_KEYS, in the order in which missing ones are appended.
Managed  == <<ApiKey, ApiBase, Codex, Claude>>
IsManaged(line) == line.key \in ToSet(Managed)

Backends == {"minimax", "codex", "claude-code"}
Broken   == "two\nlines"
Values   == {"", "1", "key", "other key", Broken}
Line     == [key : ToSet(Managed) \cup OtherKeys, value : Values \ {Broken}]

\* The options: backend, or "ask"; key, where "" stands for none; base, where "none" does.
NoBase  == "none"
Request == [backend : Backends \cup {"ask"}, key : {"", "other key", Broken}, base : Values \cup {NoBase}]

ASSUME SetupParts ==
    /\ Requests \subseteq Request
    /\ FirstFiles \subseteq Seq(Line)
    /\ MaxEdits \in Nat
    /\ OtherKeys \cap ToSet(Managed) = {}
    /\ Required \subseteq OtherKeys

VARIABLES
    file,    \* the lines of .env
    setup,   \* per process: step, request, values read first, backend, updates, lines to write
    edits,   \* edits so far
    loaded,  \* the command that has read the file: see Load
    due,     \* history: the lines that are not managed, as people have left them
    spoilt   \* history: a setup wrote what it had read before a change, or was killed in its write

vars == <<file, setup, edits, loaded, due, spoilt>>

\* The elements of a list at some positions, in their order.  A function with which one can
\* reason, as one cannot with SelectSeq.
Pick(lines, at) ==
    LET f[n \in 0..Len(lines)] == IF n = 0 THEN <<>>
                                  ELSE IF n \in at THEN Append(f[n - 1], lines[n])
                                  ELSE f[n - 1]
    IN  f[Len(lines)]

Others(lines) == Pick(lines, {i \in DOMAIN lines : ~IsManaged(lines[i])})

\* _read_env_values: the last assignment of a key counts.
Value(lines, key) ==
    LET at == {i \in DOMAIN lines : lines[i].key = key}
    IN  IF at = {} THEN "" ELSE lines[CHOOSE i \in at : \A j \in at : j <= i].value

HasKey(lines, key) == \E i \in DOMAIN lines : lines[i].key = key

\* _detect_backend
Detected(lines) ==
    CASE Value(lines, Codex) = "1"   -> "codex"
      [] Value(lines, Claude) = "1"  -> "claude-code"
      [] Value(lines, ApiKey) # ""   -> "minimax"
      [] OTHER                       -> "none"

Idle == [step |-> "idle", request |-> [backend |-> "ask", key |-> "", base |-> NoBase], first |-> <<>>,
         backend |-> "none", updates |-> <<>>, lines |-> <<>>, output |-> <<>>]

At(p, step) == setup[p].step = step

\* Every value has its type; what is about to be written holds each managed key.
EnvTypeOK ==
    /\ file \in Seq(Line)
    /\ \A p \in Setups :
          /\ setup[p].step \in {"idle", "prompt", "reread", "truncate", "write", "done", "failed", "dead"}
          /\ setup[p].backend \in Backends \cup {"none"}
          /\ setup[p].lines \in Seq(Line) /\ setup[p].output \in Seq(Line)
          /\ At(p, "write") => Len(setup[p].output) >= Len(Managed)
    /\ edits \in 0..MaxEdits
    /\ due \in Seq(Line) /\ spoilt \in BOOLEAN

Init ==
    /\ file \in FirstFiles
    /\ setup = [p \in Setups |-> Idle]
    /\ edits = 0
    /\ loaded = [done |-> FALSE]
    /\ due = Others(file) /\ spoilt = FALSE

-----------------------------------------------------------------------------
End(p, how) == setup' = [setup EXCEPT ![p] = [Idle EXCEPT !.step = how]]

ReadValues(p) ==
    /\ At(p, "idle")
    /\ \E request \in Requests :
          setup' = [setup EXCEPT ![p].step = "prompt", ![p].request = request, ![p].first = file]
    /\ UNCHANGED <<file, edits, loaded, due, spoilt>>

\* _backend_updates: the key is wanted when it is not empty, the base when it is given.
Updates(backend, key, base, lines) ==
    [k \in ToSet(Managed) |->
        CASE k = ApiKey  /\ backend = "minimax"     -> key
          [] k = ApiBase /\ backend = "minimax"     -> IF base = NoBase THEN Value(lines, ApiBase)
                                                        ELSE base
          [] k = Codex   /\ backend = "codex"       -> "1"
          [] k = Claude  /\ backend = "claude-code" -> "1"
          [] OTHER                                  -> ""]

\* _prompt_backend and the prompt for a key, which wait for somebody to answer.  The key is the
\* one of the option, of the file, or the answer.
ChooseBackend(p) ==
    /\ At(p, "prompt")
    /\ LET asked == setup[p].request
           known == IF asked.key # "" THEN asked.key ELSE Value(setup[p].first, ApiKey)
       IN  \E backend \in IF asked.backend = "ask" THEN Backends ELSE {asked.backend} :
              setup' = [setup EXCEPT
                  ![p].step = "reread", ![p].backend = backend, ![p].request = Idle.request,
                  ![p].updates = Updates(backend, IF known = "" THEN "key" ELSE known, asked.base,
                                         setup[p].first)]
    /\ UNCHANGED <<file, edits, loaded, due, spoilt>>

\* No login of codex, no claude executable, a file that cannot be read or opened for writing, a
\* disk that is full once it is open.
Refuse(p) ==
    /\ setup[p].step \notin {"done", "failed", "dead"}
    /\ End(p, "failed") /\ spoilt' = (spoilt \/ At(p, "write"))
    /\ UNCHANGED <<file, edits, loaded, due>>

\* The first line of each managed key is rewritten, further ones are dropped.
FirstOfKey(lines, i) == \A j \in 1..(i - 1) : lines[j].key # lines[i].key

KeptLines(lines) ==
    Pick(lines, {i \in DOMAIN lines : ~IsManaged(lines[i]) \/ FirstOfKey(lines, i)})

\* Managed keys without a line.
Missing(lines) == Pick(Managed, {m \in DOMAIN Managed : ~HasKey(lines, Managed[m])})

\* Variant of Rewritten: every line of a managed key is kept, and only the first is rewritten.
RewrittenFirst(lines, updates) ==
    [i \in DOMAIN lines |-> IF IsManaged(lines[i]) /\ FirstOfKey(lines, i)
                            THEN [key |-> lines[i].key, value |-> updates[lines[i].key]]
                            ELSE lines[i]]
    \o LET missing == Missing(lines)
       IN  [i \in DOMAIN missing |-> [key |-> missing[i], value |-> updates[missing[i]]]]

\* Variant of Rewritten: a missing key gets a line only when it has a value.
RewrittenSparse(lines, updates) ==
    LET kept    == KeptLines(lines)
        missing == SelectSeq(Missing(lines), LAMBDA k : updates[k] # "")
    IN  [i \in DOMAIN kept |-> IF IsManaged(kept[i])
                               THEN [key |-> kept[i].key, value |-> updates[kept[i].key]]
                               ELSE kept[i]]
        \o [i \in DOMAIN missing |-> [key |-> missing[i], value |-> updates[missing[i]]]]

\* _write_env_values: the lines in their order, then the managed keys that had none.
Rewritten(lines, updates) ==
    LET kept    == KeptLines(lines)
        missing == Missing(lines)
    IN  [i \in DOMAIN kept |-> IF IsManaged(kept[i])
                               THEN [key |-> kept[i].key, value |-> updates[kept[i].key]]
                               ELSE kept[i]]
        \o [i \in DOMAIN missing |-> [key |-> missing[i], value |-> updates[missing[i]]]]

\* Variant of Reread: the lines of the first reading are written back.
RereadNothing(p) ==
    /\ At(p, "reread")
    /\ IF \E k \in ToSet(Managed) : setup[p].updates[k] = Broken THEN End(p, "failed")
       ELSE setup' = [setup EXCEPT ![p].step = "truncate", ![p].lines = file,
                          ![p].output = Rewritten(setup[p].first, setup[p].updates)]
    /\ UNCHANGED <<file, edits, loaded, due, spoilt>>

\* The second reading; a value with a line break raises before anything is written.
Reread(p) ==
    /\ At(p, "reread")
    /\ IF \E k \in ToSet(Managed) : setup[p].updates[k] = Broken THEN End(p, "failed")
       ELSE setup' = [setup EXCEPT ![p].step = "truncate", ![p].lines = file,
                          ![p].output = Rewritten(file, setup[p].updates)]
    /\ UNCHANGED <<file, edits, loaded, due, spoilt>>

\* write_text
Truncate(p) ==
    /\ At(p, "truncate")
    /\ file' = <<>>
    /\ spoilt' = (spoilt \/ file # setup[p].lines \/ \E q \in Setups : At(q, "write"))
    /\ setup' = [setup EXCEPT ![p].step = "write", ![p].lines = <<>>]
    /\ UNCHANGED <<edits, loaded, due>>

Write(p) ==
    /\ At(p, "write")
    /\ file' = setup[p].output
    /\ End(p, "done")
    /\ UNCHANGED <<edits, loaded, due, spoilt>>

Kill(p) ==
    /\ setup[p].step \notin {"idle", "done", "failed", "dead"}
    /\ End(p, "dead") /\ spoilt' = (spoilt \/ At(p, "write"))
    /\ UNCHANGED <<file, edits, loaded, due>>

\* Somebody adds a line for a required key, or for a backend, in an editor that has just read
\* the file.
Edit ==
    /\ edits < MaxEdits
    /\ \E line \in [key : Required \cup {Codex}, value : {"1"}] :
          /\ file' = Append(file, line)
          /\ due' = IF IsManaged(line) THEN due ELSE Append(due, line)
    /\ edits' = edits + 1
    /\ spoilt' = (spoilt \/ \E p \in Setups : At(p, "write"))
    /\ UNCHANGED <<setup, loaded>>

-----------------------------------------------------------------------------
\* The commands that take --env-file.

\* Variant of Combined: the file overrides the environment of the process.
CombinedFileFirst(lines, environ, key) ==
    IF HasKey(lines, key) \/ key \notin DOMAIN environ THEN Value(lines, key) ELSE environ[key]

\* _combined_env
Combined(lines, environ, key) ==
    IF key \in DOMAIN environ THEN environ[key] ELSE Value(lines, key)

\* The keys that resolve demands: present, and non-empty where a selected bundle needs one.
Resolves(lines, environ) ==
    /\ \A k \in Required : k \in DOMAIN environ \/ HasKey(lines, k)
    /\ \A k \in Selected : Combined(lines, environ, k) # ""

Load ==
    /\ ~loaded.done
    /\ \E environ \in Environs :
          loaded' = [done |-> TRUE, resolved |-> Resolves(file, environ), environ |-> environ,
                     whole |-> \A p \in Setups : ~At(p, "write"), due |-> due, spoilt |-> spoilt,
                     values |-> [k \in Required \cup Selected |-> Combined(file, environ, k)]]
    /\ UNCHANGED <<file, setup, edits, due, spoilt>>

\* Everything has ended: the file stays.
Over ==
    /\ loaded.done /\ edits = MaxEdits
    /\ \A p \in Setups : setup[p].step \in {"done", "failed", "dead"}
    /\ UNCHANGED vars

SetupStep(p) ==
    \/ ReadValues(p)
    \/ ChooseBackend(p)
    \/ Refuse(p)
    \/ Reread(p)
    \/ Truncate(p)
    \/ Write(p)
    \/ Kill(p)

Next ==
    \/ \E p \in Setups : SetupStep(p)
    \/ Edit
    \/ Load
    \/ Over

Spec == Init /\ [][Next]_vars

-----------------------------------------------------------------------------
\* The backends that a file turns on, whatever the reader prefers among them.
On(lines) == {b \in Backends : Value(lines, CASE b = "codex" -> Codex
                                               [] b = "claude-code" -> Claude
                                               [] OTHER -> ApiKey) # ""}

\* When a setup ends, the file turns on the backend it was asked for and no other, each managed
\* key stands in it once, and a second setup would offer this backend: whatever the file held
\* when it was read first, whatever was edited before it was read again, and whichever of several
\* lines of a key comes first (_write_env_values keeps the first, readers take the last).
BackendAsChosen ==
    [][\A p \in Setups : At(p, "write") /\ At(p, "done")' =>
          /\ On(file') = {setup[p].backend} /\ Detected(file') = setup[p].backend
          /\ \A k \in ToSet(Managed) :
                \E i \in DOMAIN file' : \A j \in DOMAIN file' : file'[j].key = k <=> j = i]_vars

\* The lines that are not setup's own are still those that people left, in their order, unless
\* a setup wrote what it had read before a change or was stopped between opening the file and
\* writing it.  Edits while somebody answers the prompts of setup are not lost: it reads again.
NothingLost == (~spoilt /\ \A p \in Setups : ~At(p, "write")) => Others(file) = due

\* A command that resolved its profile has a value for every key it demands: the one of its own
\* environment or else the one people last gave the key, although setup has rewritten the file in
\* between.  One that read the file while setup had it open for writing resolves only if its
\* environment supplies every required key.
SnapshotIsSound ==
    (loaded.done /\ loaded.resolved) =>
        /\ \A k \in Selected : loaded.values[k] # ""
        /\ \A k \in Required : k \in DOMAIN loaded.environ
              \/ /\ loaded.whole /\ ~loaded.spoilt => loaded.values[k] = Value(loaded.due, k)
                 /\ loaded.whole \/ loaded.spoilt
        /\ \A k \in DOMAIN loaded.environ \cap (Required \cup Selected) :
              loaded.values[k] = loaded.environ[k]
=============================================================================
