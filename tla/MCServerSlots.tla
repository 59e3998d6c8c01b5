---------------------------- MODULE MCServerSlots ----------------------------
(* Small instances of ServerSlots: which requests are posted.               *)
EXTENDS ServerSlots

anySlot == 0
none    == 0

Request(type, tokens) ==
    [type |-> type, tokens |-> tokens, id_slot |-> anySlot, lora |-> "any", parent |-> none,
     children |-> <<>>, target |-> 0, invalid |-> FALSE]

Completion(tokens)     == Request("COMPLETION", tokens)
Embedding(tokens)      == Request("EMBEDDING", tokens)
On(request, s)         == [request EXCEPT !.id_slot = s]
With(request, adapter) == [request EXCEPT !.lora = adapter]
Bad(request)           == [request EXCEPT !.invalid = TRUE]
Parent(request, kids)  == [request EXCEPT !.children = kids]
Child(request, r)      == [request EXCEPT !.parent = r]
Action(type, target)   == [Request(type, <<>>) EXCEPT !.target = target]

\* prompts that contain each other, or share four tokens, two, one or none
ReuseTasks ==
    <<Completion(<<1, 2, 3, 4>>), Completion(<<1, 2, 5>>), Completion(<<6, 7, 8>>),
      On(Completion(<<1, 2, 3, 4, 5>>), 2), Completion(<<1, 9>>)>>

\* two families, one pinned and one free task, for two slots
FamilyTasks ==
    <<Parent(Completion(<<1, 2>>), <<2>>), Child(Completion(<<1, 2>>), 1),
      Parent(Completion(<<3, 4>>), <<4>>), Child(Completion(<<3, 4>>), 3),
      On(Completion(<<1, 5>>), 2), Embedding(<<3>>)>>

\* a refused family, a cancelled task, adapters, a slot saved and restored
MixedTasks ==
    <<Parent(Bad(With(Completion(<<1, 2>>), "b")), <<2>>), Child(Completion(<<1, 2>>), 1),
      Completion(<<1, 2, 3>>), Action("CANCEL", 3),
      Action("SLOT_SAVE", 1), Action("SLOT_RESTORE", 2), Action("SLOT_ERASE", 1),
      With(Request("SET_LORA", <<>>), "b")>>

Conf(tasks, slots, similarity, limit, generated, options) ==
    [task |-> tasks, n_slots |-> slots, similarity |-> similarity, limit |-> limit, n_gen |-> generated,
     loras |-> {"a"},
     kv_unified |-> "kv_unified" \in options, cache_idle_slots |-> "cache_idle_slots" \in options,
     fails |-> "fails" \in options, oom |-> "oom" \in options,
     steady |-> "steady" \in options]

SlotConfs ==
    {Conf(ReuseTasks, 2, 50, 8, 1, {"oom"}),
     Conf(ReuseTasks, 2, 10, 9, 0, {"cache_idle_slots", "kv_unified"}),
     Conf(ReuseTasks, 1, 0, 6, 1, {"cache_idle_slots"}),
     Conf(FamilyTasks, 2, 50, 4, 1, {"steady"}),
     Conf(MixedTasks, 2, 50, 6, 0, {"fails"})}

\* every request names its adapters
LoraTasks ==
    <<With(Completion(<<1, 2>>), "a"), With(Completion(<<3>>), "b"), With(Completion(<<1, 2>>), "b")>>

LoraConfs == {Conf(LoraTasks, 1, 10, 6, 0, {})}
=============================================================================
