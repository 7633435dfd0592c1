----------------------------- MODULE MCEnvSetup ------------------------------
(***************************************************************************)
(* Two setups of one .env, an edit by hand and a command that reads it.    *)
(***************************************************************************)
EXTENDS EnvSetup, TLC

CONSTANTS first, second

Is(key, value) == [key |-> key, value |-> value]

\* What setup is asked for: with options, with the prompts, with a value that no line can hold.
TheRequests == {
    [backend |-> "ask", key |-> "", base |-> NoBase],
    [backend |-> "minimax", key |-> "other key", base |-> "1"],
    [backend |-> "minimax", key |-> "", base |-> Broken],
    [backend |-> "minimax", key |-> Broken, base |-> ""]}

\* No file, one with a backend, and one with a key twice and the lines of others around it.
TheFirstFiles == {
    <<>>,
    <<Is("PG", "key"), Is(ApiKey, "key")>>,
    <<Is(Codex, ""), Is("PG", "key"), Is(Claude, "1"), Is("MINIO", "key"), Is(Codex, "1")>>}

\* An empty environment, one that sets the required key, and one that blanks an optional one.
TheEnvirons == {<<>>, "PG" :> "other key", "MINIO" :> "" @@ "PG" :> "1"}

SetupSymmetry == Permutations(Setups)
=============================================================================
