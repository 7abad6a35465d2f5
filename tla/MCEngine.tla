---- MODULE MCEngine ----
EXTENDS EngineSession

EngineFails == {"reset", "audio", "finish", "host"}
Everything  == EngineFails \cup {"late"}

\* A user who waits for each answer, whose engine fails to finish or dies; the same
\* user with late pages and every failure of a live host; one who clicks in any
\* order, with every failure of the engine; and the same with late chunks only.
MCWorlds == {
    [careful |-> TRUE, mayFail |-> {"finish", "host"}, recordings |-> 3, chunks |-> 2],
    [careful |-> TRUE, mayFail |-> Everything \ {"host"}, recordings |-> 2, chunks |-> 1],
    [careful |-> FALSE, mayFail |-> EngineFails, recordings |-> 2, chunks |-> 1],
    [careful |-> FALSE, mayFail |-> Everything, recordings |-> 2, chunks |-> 0]}

\* Nothing fails.
MCSound == {[careful |-> FALSE, mayFail |-> {}, recordings |-> 2, chunks |-> 1]}

\* Only the host process dies.
MCDying == {[careful |-> TRUE, mayFail |-> {"host"}, recordings |-> 2, chunks |-> 1]}
====
