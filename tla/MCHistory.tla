------------------------------- MODULE MCHistory -------------------------------
(* Two agents take turns in one thread; one document, in the thread's own  *)
(* directory and in a lane; two threads that answer one issue.             *)
EXTENDS History

CONSTANTS claude, codex, first, second

MCAgents   == {claude, codex}
MCThreads  == {first, second}
MCPlaces   == {<<first, claude>>, <<first, codex>>, <<second, claude>>}
===============================================================================
