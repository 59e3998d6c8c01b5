---------------------------- MODULE MCSlotBatch ----------------------------
(* Small instances of SlotBatch: which requests are posted.                 *)
EXTENDS SlotBatch

none == 0

Request(type, tokens, parent, first, shared, limit, adapters) ==
    [type |-> type, tokens |-> tokens, parent |-> parent, pos_first |-> first,
     n_tokens_shared |-> shared, limit |-> limit, lora |-> adapters, alone |-> FALSE]

Completion(tokens, limit)  == Request("COMPLETION", tokens, none, 0, 0, limit, "default")
Embedding(tokens)          == Request("EMBEDDING", tokens, none, 0, 0, 1, "default")
Decision(tokens, first)    == Request("DECISION", tokens, none, first, 0, 1, "default")
With(request, adapters)    == [request EXCEPT !.lora = adapters]
ChildOf(request, parent)   == [request EXCEPT !.parent = parent]
Alone(request)             == [request EXCEPT !.alone = TRUE]
Sharing(request, shared)   == [request EXCEPT !.n_tokens_shared = shared]

\* two prompts with a common prefix and different adapters, one prompt longer
\* than a batch, and embeddings that do not fit in a batch together
MixedTasks ==
    <<With(Completion(<<1, 2>>, 2), "a"), With(Completion(<<1, 2, 3, 1>>, 2), "b"),
      With(Embedding(<<1, 2>>), "a"), With(Embedding(<<1, 3>>), "a")>>

\* a completion with n_cmpl = 2, and decisions that share a prefix
FamiliesTasks ==
    <<Completion(<<1, 2>>, 2), ChildOf(Completion(<<1, 2>>, 2), 1),
      Sharing(Decision(<<1, 2, 3, 4>>, 1), 1), ChildOf(Decision(<<1, 4, 3>>, 1), 3)>>

\* generations that fill the context, an empty prompt, an embedding larger than a batch
LongTasks ==
    <<Completion(<<1>>, 6), Completion(<<1, 2>>, 5), ChildOf(Completion(<<1, 2>>, 5), 2), Completion(<<>>, 1),
      Embedding(<<1, 2, 3>>)>>

\* decisions that may and may not share a batch
DecisionTasks ==
    <<Decision(<<1, 2>>, 1), Alone(Decision(<<1, 3, 2, 4>>, 2)), Decision(<<1, 3>>, 0)>>

FamilyTasks ==
    <<Completion(<<1, 2>>, 2), ChildOf(Completion(<<1, 2>>, 2), 1), Completion(<<1, 3, 4>>, 2)>>

Conf(tasks, slots, size, context, adapters, options) ==
    [task |-> tasks, n_slots |-> slots, n_batch |-> size, n_ctx |-> context, n_keep |-> 1,
     loras |-> adapters,
     cont_batching |-> "cont_batching" \in options, ctx_shift |-> "ctx_shift" \in options,
     kv_unified |-> "kv_unified" \in options, cache_idle_slots |-> "cache_idle_slots" \in options,
     refills |-> "refills" \in options, fails |-> "fails" \in options,
     throws |-> "throws" \in options, cancels |-> "cancels" \in options]

\* every kind of task with two adapters; families among errors and exceptions;
\* contexts that fill up; decisions that are decoded alone
BatchConfs ==
    {Conf(MixedTasks, 2, 3, 6, {"a", "b"}, {"cont_batching", "kv_unified", "refills", "fails"}),
     Conf(FamiliesTasks, 3, 3, 5, {"a"},
          {"cont_batching", "kv_unified", "cache_idle_slots", "fails", "throws", "cancels"}),
     Conf(LongTasks, 2, 2, 5, {"a"}, {"ctx_shift"}),
     Conf(DecisionTasks, 2, 3, 5, {"a"}, {"cont_batching", "kv_unified", "cancels"})}

\* a family whose parent's prompt a full memory may cut in two
FamilyConfs == {Conf(FamilyTasks, 2, 2, 6, {"a"}, {"cont_batching", "kv_unified", "refills"})}
=============================================================================
