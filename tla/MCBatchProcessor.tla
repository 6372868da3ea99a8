-------------------------- MODULE MCBatchProcessor --------------------------
(***************************************************************************)
(* Instance of BatchProcessor for TLC.  Accounts are independent, so there *)
(* is one; two calls race for it.  A batch is any block of two items out   *)
(* of a plain, a tracked, two unhandled, an unsubscribed and an unknown    *)
(* event and a call, and then a block with a tracked event; three batches  *)
(* allow one to be rolled back between two that are committed.  The log    *)
(* limit is below the number of unhandled names.  The squid runs without a *)
(* bound, over two blocks, or without indexInBlock, or refuses to start.   *)
(***************************************************************************)
EXTENDS BatchProcessor, TLC

CONSTANTS i1, c1, c2, o1, o2, o3, vote

MCWord == {vote}
MCId == {i1}
MCCall == {c1, c2}
MCObject == {o1, o2, o3}

Event(name, versions, extrinsic) ==
  [kind |-> "event", name |-> name, isV |-> versions, extrinsic |-> extrinsic]
Fill == Event("fill", {3, 30}, 0)
Items == {Fill, Event("summary", {3}, None), Event("summary", {}, 0), Event("noisy", {3}, 0),
          Event("quiet", {}, None), Event("drift", {}, 0),
          [kind |-> "call", name |-> "fill", isV |-> {}, extrinsic |-> 1]}
MCSuffix == [fill |-> <<vote>>, summary |-> <<>>]

Config(from, to, indexed) ==
  [from |-> from, to |-> to, events |-> Subscribed, calls |-> {"fill"}, indexed |-> indexed]
MCConfigs == {Config(0, None, TRUE), Config(5, 6, TRUE), Config(1, 3, FALSE), Config(2, 1, TRUE),
              [Config(0, None, TRUE) EXCEPT !.events = {}, !.calls = {}]}

MCBatches == {<< <<a, b>>, <<Fill>> >> : a \in Items, b \in Items} \cup {<<>>, << <<>> >>}

Interchangeable == Permutations(MCObject) \cup Permutations(MCCall)
=============================================================================
