---------------------------- MODULE MCGeneration ----------------------------
EXTENDS Generation, TLC

CONSTANTS p1, p2, halluc, d1, d2, o1, n1, n2, n3, s1, s2

\* Two DOIs with one tail, a sentence on the gain and one with two numbers.
MCTail8 == (d1 :> "tail" @@ d2 :> "tail")
MCNumbersOf == (s1 :> <<n1>> @@ s2 :> <<n2, n3>>)

\* A model as the pipeline asks it, alone, and chains as ModelRouter takes them:
\* "typo" names no provider.
MCStyleOf == [s \in Specs |-> CASE s = "claude" -> "anthropic" [] s = "gpt" -> "openai"
                               [] s = "gem" -> "gemini" [] OTHER -> "unknown"]
MCChains == {<<"claude">>, <<"gpt">>, <<"typo">>, <<"gem", "gpt">>, <<"typo", "claude">>}

\* Linux, macOS, a resource module without RLIMIT_AS, Windows, and docker.
Host(backend, windows, memory) ==
    [backend |-> backend, windows |-> windows,
     limit |-> [l \in Limits |-> IF l = "memory" THEN memory ELSE "granted"]]
MCHosts == {Host("local", FALSE, m) : m \in {"granted", "refused", "unknown"}}
           \union {Host("local", TRUE, "granted"), Host("container", FALSE, "granted")}
=============================================================================
