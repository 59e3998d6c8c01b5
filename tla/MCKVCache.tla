------------------------------ MODULE MCKVCache ------------------------------
(* Small instances of KVCache.                                              *)
EXTENDS KVCache

Conf(unified, size, n_ctx, n_ubatch, max_batch, options) ==
    [unified |-> unified, size |-> size, n_ctx |-> n_ctx, n_ubatch |-> n_ubatch,
     max_batch |-> max_batch, n_swa |-> 0, size_base |-> 0,
     shift |-> "shift" \in options, families |-> "families" \in options, fails |-> "fails" \in options]

Window(n_swa, size_base, size, n_ctx, n_ubatch, max_batch, options) ==
    [Conf(TRUE, size, n_ctx, n_ubatch, max_batch, options) EXCEPT
        !.n_swa = n_swa, !.size_base = size_base]

\* one stream with shared prompts, and with shifts; a stream for each sequence; a window
CacheConfs ==
    {Conf(TRUE, 3, 3, 2, 2, {"families", "fails"}),
     Conf(TRUE, 4, 3, 2, 2, {"shift"}),
     Conf(FALSE, 2, 3, 2, 2, {"shift", "families"}),
     Window(3, 5, 5, 4, 1, 1, {"fails"})}
=============================================================================
