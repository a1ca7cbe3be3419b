----------------------------- MODULE MCServices -----------------------------
(* The components whose safety is checked on one small instance each: the     *)
(* channels, conversations with the event log, a batch, the chunk vectors,    *)
(* and two instances of the search results cache.  They share no variable and *)
(* no property is of two of them, so that TLC explores them beside each       *)
(* other: `part` says which of them a behaviour is of, and the others stay in *)
(* their initial states.                                                      *)
EXTENDS Channels

CONSTANTS Handles, NoHandle, MaxIds, MaxOps,
          Blocks, Texts, NoText, Configs, Jobs, MaxChunks, MaxBoots, MaxRuns,
          NoWriter, Writers, Searchers,
          Conversation, Consumer, Randoms, MaxWrites, MaxMs, MaxSweeps

VARIABLES part,
          db, files, signals, made, batch,
          chunks, minted, vec, dim, cache, conf, job, boots, runs, passed,
          version, generation, map, syncLock, wr, srch, calls, asks, acked, settled, floor,
          convs, turns, events, now, last, replica, seen, outrun, written, writes, sweeps

\* Boots of the daemon with another dimension and with another model.
Booted == {<<"m1", 1>>, <<"m1", 2>>, <<"m2", 2>>}

Bat == INSTANCE Batch WITH minted <- made, tx <- batch
Vec == INSTANCE Vectors
Con == INSTANCE Conversations WITH cursor <- last, calls <- writes, purges <- sweeps,
                                   MaxCalls <- MaxWrites, MaxPurges <- MaxSweeps

\* Methods that embed after their commit, in two calls of two clients.
Late == INSTANCE SearchCache WITH
  db <- version,
  Methods <- {"entry.create", "block.append", "entries.purge_transient"},
  Rpcs <- {"semantic", "fulltext"}, MayFail <- {"purge"},
  MaxCalls <- 2, MaxAsks <- 2, MaxPass <- 1

\* Methods that bump before steps that may fail, one call at a time.
Failing == INSTANCE SearchCache WITH
  db <- version,
  Methods <- {"block.update", "block.delete", "index.rebuild"},
  Rpcs <- {"fulltext", "hybrid"},
  MayFail <- {"commit", "rerender", "embed", "cleanup", "reindexAll", "embedAll"},
  MaxCalls <- 1, MaxAsks <- 2, MaxPass <- 1

ASSUME ServicesAssumption ==
  /\ Bat!BatchAssumption /\ Vec!VectorsAssumption /\ Con!ConversationsAssumption
  /\ Late!ConstantsAssumption /\ Failing!ConstantsAssumption

chn == vars
bat == <<db, files, signals, made, batch>>
vcs == <<chunks, minted, vec, dim, cache, conf, job, boots, runs, passed>>
csh == <<version, generation, map, syncLock, wr, srch, calls, asks, acked, settled, floor>>
con == <<convs, turns, events, now, last, replica, seen, outrun, written, writes, sweeps>>
all == <<part, chn, bat, vcs, csh, con>>

ServicesInit ==
  /\ part \in {"channels", "batch", "vectors", "late", "failing", "conversations"}
  /\ Init /\ Bat!Init /\ Vec!Init /\ Con!Init
  /\ part # "vectors" => conf = <<"m1", 1>>
  /\ IF part = "failing" THEN Failing!Init ELSE Late!Init

ServicesNext ==
  \/ part = "channels"  /\ Next         /\ UNCHANGED <<part, bat, vcs, csh, con>>
  \/ part = "batch"     /\ Bat!Next     /\ UNCHANGED <<part, chn, vcs, csh, con>>
  \/ part = "vectors"   /\ Vec!Next     /\ UNCHANGED <<part, chn, bat, csh, con>>
  \/ part = "late"      /\ Late!Next    /\ UNCHANGED <<part, chn, bat, vcs, con>>
  \/ part = "failing"   /\ Failing!Next /\ UNCHANGED <<part, chn, bat, vcs, con>>
  \/ part = "conversations" /\ Con!Next /\ UNCHANGED <<part, chn, bat, vcs, csh>>

ServicesSpec == ServicesInit /\ [][ServicesNext]_all
-----------------------------------------------------------------------------
(* The properties of the components, as their modules state and explain them. *)

\* The types of all that have state.
TypesOK == TypeOK /\ Bat!TypeOK /\ Vec!TypeOK

\* Batch: an error leaves tables and signals as BEGIN found them; a COMMIT keeps
\* all of it.
AllOrNothing == Bat!AllOrNothing

\* Batch: after "ok" what was created has vectors, what was deleted no signals.
OkIsComplete == Bat!OkIsComplete

\* Embeddings: a vector is that of the chunk's text, a cached one that of its key,
\* and one without a chunk comes from a run that had listed the chunk.
VectorsRight == Vec!VectorsRight

\* Embeddings: a run that ends well leaves vectors of the configured model.
RunCovers == Vec!RunCovers

\* Conversations: a consumer of events.list that has caught up, and that no purge
\* outran, has exactly the conversations and the numbered turns of the tables.
ReplicaFollows == Con!ReplicaFollows

\* Conversations: a cursor passes by an event only within one millisecond.
MissedOnlyInMs == Con!MissedOnlyInMs

\* Cache: a search sees every change of vectors, stamps and content whose call was
\* answered, or failed after it had committed.
EffectsFresh ==
  /\ part = "late" => Late!VectorFresh /\ Late!StampFresh
  /\ part = "failing" => Failing!SettledFresh
=============================================================================
