---------------------------- MODULE MCAsyncQueue ----------------------------
(***************************************************************************)
(* The queues AsyncController declares, by sort: imageCacheQueue and       *)
(* soundCacheQueue; loadImageQueue and playSoundQueue; imageAssetQueue;    *)
(* the packet and frame queues; eventQueueQueue.                           *)
(***************************************************************************)
EXTENDS AsyncQueue

Cache == [quitOnEmpty |-> TRUE, hasQueue |-> TRUE, waits |-> "drain", prioritised |-> FALSE]
Sound == [quitOnEmpty |-> FALSE, hasQueue |-> TRUE, waits |-> "result", prioritised |-> FALSE]
Asset == [quitOnEmpty |-> FALSE, hasQueue |-> TRUE, waits |-> "never", prioritised |-> TRUE]
Media == [quitOnEmpty |-> FALSE, hasQueue |-> TRUE, waits |-> "never", prioritised |-> FALSE]
Event == [quitOnEmpty |-> FALSE, hasQueue |-> FALSE, waits |-> "never", prioritised |-> FALSE]

AllKinds == {Cache, Sound, Asset, Media, Event}
CacheOnly == {Cache}
=============================================================================
