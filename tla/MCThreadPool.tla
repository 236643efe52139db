---------------------------- MODULE MCThreadPool ----------------------------
(* Two threads, one of which leaves the pool by itself.                    *)
EXTENDS ThreadPool

CONSTANTS plain, remover, manager

MCThreads == {plain, remover}
MCRemovers == {remover}
MCCallers == {manager}

=============================================================================
