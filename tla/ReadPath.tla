------------------------------ MODULE ReadPath ------------------------------
(***************************************************************************)
(* The RPCs of internal/server/server.go as their clients meet them:       *)
(* Lookup, Fetch, BatchFetch and Write, block by block and frame by frame, *)
(* while the stores lose, replicate and overwrite blocks.  The blocks are  *)
(* the chain of one prompt.                                                *)
(*                                                                         *)
(* A stream of gRPC delivers its frames in order and in full, or breaks:   *)
(* a frame is sent and received in one step, and Break may come at any.    *)
(* A hash names its tokens, so the token guards always agree.              *)
(***************************************************************************)
EXTENDS Integers, Sequences, Versions

CONSTANTS
  Servers,  \* cache servers
  Shards,   \* model IDs; the ranks of an engine have one each (shard_model_id)
  NBlocks,  \* the full blocks of the prompt
  Chunks,   \* the frames the payload of each block is cut into, 0 for an empty one
  Callers,  \* client processes; each has at most one RPC out
  Owners,   \* the servers a client of the shard goes to, the primary first
  PeerWrites, MaxLosses \* bounds on such events, the first for each shard

Blocks == 1..NBlocks

ASSUME ReadPathAssumption ==
  /\ NBlocks \in Nat \ {0} \* neither client makes a request for an empty chain
  /\ Chunks \in [Blocks -> Nat] /\ Owners \in [Shards -> Seq(Servers)]
  /\ PeerWrites \in [Shards -> Nat] /\ MaxLosses \in Nat

VARIABLES
  hot,     \* the entry of each server's store for a shard and a block
  cold,    \* the object the bucket holds for it
  rpc,     \* the call each client has out, and how far its handler is
  got,     \* what that client has received of it
  orphans, \* stores a handler is still about to make for a client that gave up
  env      \* how many events of each bounded kind there have been

serverVars == <<hot, cold, orphans, env>>
pathVars == <<serverVars, rpc, got>>

\* A payload: whose it is, which write made it, whether it is the KV of its block, and
\* how many chunks there are of it.
Payload == [shard : Shards, block : Blocks, by : Nat, good : BOOLEAN, len : Nat]
NoKV == [by |-> 0, len |-> 0]
Absent == [ver |-> 0, kv |-> NoKV]
Entry == [ver : Nat \ {0}, kv : Payload] \cup {Absent}

KV(s, b, by, good) == [shard |-> s, block |-> b, by |-> by, good |-> good, len |-> Chunks[b]]
Whole(kv) == [i \in 1..kv.len |-> [kv |-> kv, i |-> i]]

NoCall == [kind |-> "none", at |-> "none", server |-> "none", shard |-> "none", want |-> <<>>,
           idx |-> 0, kv |-> NoKV, ver |-> 0, sent |-> 0]
Nothing == [status |-> "none", kind |-> "none", want |-> <<>>, presence |-> <<>>,
            buf |-> <<>>, found |-> <<>>, done |-> <<>>]

PathInit ==
  /\ hot = [n \in Servers |-> [s \in Shards |-> [b \in Blocks |-> Absent]]]
  /\ cold = [s \in Shards |-> [b \in Blocks |-> Absent]]
  /\ rpc = [c \in Callers |-> NoCall] /\ got = [c \in Callers |-> Nothing]
  /\ orphans = {} /\ env = [peerWrites |-> [s \in Shards |-> 0], losses |-> 0]

PathTypeOK ==
  /\ hot \in [Servers -> [Shards -> [Blocks -> Entry]]] /\ cold \in [Shards -> [Blocks -> Entry]]
  /\ \A c \in Callers :
       /\ rpc[c].kind \in {"none", "lookup", "fetch", "batch", "write"}
       /\ rpc[c].idx \in 0..Len(rpc[c].want) /\ rpc[c].sent \in 0..rpc[c].kv.len
       /\ got[c].status \in {"none", "pending", "ok", "notfound", "error"}
       /\ (got[c].status = "pending") <=> (rpc[c].kind # "none")
  /\ env.losses <= MaxLosses /\ \A s \in Shards : env.peerWrites[s] <= PeerWrites[s]

-----------------------------------------------------------------------------
(* The client's end of a call.                                             *)

Call(c, kind, at, server, shard, want, kv) ==
  /\ rpc[c].kind = "none"
  /\ rpc' = [rpc EXCEPT ![c] = [NoCall EXCEPT !.kind = kind, !.at = at, !.server = server,
                                  !.shard = shard, !.want = want, !.idx = 1, !.kv = kv]]
  /\ got' = [got EXCEPT ![c] = [status |-> "pending", kind |-> kind, want |-> want,
                                  presence |-> <<>>,
                                  buf |-> [i \in DOMAIN want |-> <<>>],
                                  found |-> [i \in DOMAIN want |-> FALSE],
                                  done |-> [i \in DOMAIN want |-> FALSE]]]
  /\ UNCHANGED serverVars

Want(b, ver) == [block |-> b, ver |-> ver]
Lookup(c, server, shard, want) == Call(c, "lookup", "peek", server, shard, want, NoKV)
Fetch(c, server, shard, b) == Call(c, "fetch", "resolve", server, shard, <<Want(b, 0)>>, NoKV)
BatchFetch(c, server, shard, want) == Call(c, "batch", "resolve", server, shard, want, NoKV)
Write(c, server, kv) ==
  Call(c, "write", IF kv.len = 0 THEN "commit" ELSE "send", server, kv.shard,
       <<Want(kv.block, 0)>>, kv)

End(c, status, g) ==
  /\ rpc' = [rpc EXCEPT ![c] = NoCall] /\ got' = [got EXCEPT ![c] = [g EXCEPT !.status = status]]

\* Mutant: the loop over the blocks runs once too often.
AdvancePast(c, at, g) ==
  IF rpc[c].idx > Len(rpc[c].want) THEN End(c, "ok", g)
  ELSE /\ rpc' = [rpc EXCEPT ![c] = [@ EXCEPT !.at = at, !.idx = rpc[c].idx + 1,
                                       !.kv = NoKV, !.ver = 0, !.sent = 0]]
       /\ got' = [got EXCEPT ![c] = g]

\* The handler goes on to the next block of the request, or returns.
Advance(c, at, g) ==
  IF rpc[c].idx = Len(rpc[c].want) THEN End(c, "ok", g)
  ELSE /\ rpc' = [rpc EXCEPT ![c] = [@ EXCEPT !.at = at, !.idx = rpc[c].idx + 1,
                                       !.kv = NoKV, !.ver = 0, !.sent = 0]]
       /\ got' = [got EXCEPT ![c] = g]

Goto(c, at, kv, ver) ==
  /\ rpc' = [rpc EXCEPT ![c] = [@ EXCEPT !.at = at, !.kv = kv, !.ver = ver]]
  /\ UNCHANGED got

-----------------------------------------------------------------------------
(* The handlers.                                                           *)

At(c, kinds, at) == rpc[c].kind \in kinds /\ rpc[c].at = at
Wanted(c) == rpc[c].want[rpc[c].idx]
Held(c) == hot[rpc[c].server][rpc[c].shard][Wanted(c).block]
Matches(c, ver) == Wanted(c).ver = 0 \/ Wanted(c).ver = ver

\* Store.Peek: the hot store alone, one block after the other.
LookupBlock(c) ==
  /\ At(c, {"lookup"}, "peek")
  /\ Advance(c, "peek", [got[c] EXCEPT !.presence = Append(@, Held(c).ver)])
  /\ UNCHANGED serverVars

\* sendNotFound for a block of a batch; NotFound for the call of Fetch.
NotFound(c) ==
  IF rpc[c].kind = "fetch" THEN End(c, "notfound", got[c])
  ELSE Advance(c, "resolve", [got[c] EXCEPT !.done[rpc[c].idx] = TRUE])

\* Store.Get, then the version guard; a miss goes to the cold tier.
ResolveHot(c) ==
  /\ At(c, {"fetch", "batch"}, "resolve")
  /\ \/ Held(c) = Absent /\ Goto(c, "cold", NoKV, 0)
     \/ Held(c) # Absent /\ Matches(c, Held(c).ver) /\ Goto(c, "stream", Held(c).kv, Held(c).ver)
     \/ Held(c) # Absent /\ ~Matches(c, Held(c).ver) /\ NotFound(c)
  /\ UNCHANGED serverVars

\* Tier.Get: no object, an error of S3 or one that fails the guard is a miss.
ResolveCold(c) ==
  LET object == cold[rpc[c].shard][Wanted(c).block] IN
  /\ At(c, {"fetch", "batch"}, "cold")
  /\ \/ object # Absent /\ Matches(c, object.ver) /\ Goto(c, "readmit", object.kv, object.ver)
     \/ NotFound(c)
  /\ UNCHANGED serverVars

Store(server, kv, ver) ==
  hot' = [hot EXCEPT ![server][kv.shard][kv.block] =
            LET v == IF ver = 0 THEN Put(@.ver) ELSE PutWithVersion(@.ver, ver)
            IN IF v = @.ver THEN @ ELSE [ver |-> v, kv |-> kv]]

\* coldHit puts the block back at its version, unless the store is at its hard limit.
Readmit(c) ==
  /\ At(c, {"fetch", "batch"}, "readmit")
  /\ \/ Store(rpc[c].server, rpc[c].kv, rpc[c].ver)
     \/ UNCHANGED hot
  /\ Goto(c, "stream", rpc[c].kv, rpc[c].ver)
  /\ UNCHANGED <<cold, orphans, env>>

\* Mutant: the bytes are read from the store again for every frame.
StreamFrameAgain(c) ==
  LET kv == IF Held(c) = Absent THEN rpc[c].kv ELSE Held(c).kv
      n == rpc[c].sent + 1
      last == n >= kv.len
      i == rpc[c].idx
      g == [got[c] EXCEPT !.found[i] = TRUE, !.done[i] = last,
                          !.buf[i] = IF kv.len = 0 THEN @ ELSE Append(@, Whole(kv)[n])]
  IN /\ At(c, {"fetch", "batch"}, "stream")
     /\ IF last THEN Advance(c, "resolve", g)
        ELSE rpc' = [rpc EXCEPT ![c].sent = n] /\ got' = [got EXCEPT ![c] = g]
     /\ UNCHANGED serverVars

\* streamKV and streamBatchKV cut the snapshot they were given; an empty payload takes
\* one frame.  The receiver appends to the buffer of the frame's index.
StreamFrame(c) ==
  LET kv == rpc[c].kv
      n == rpc[c].sent + 1
      last == n >= kv.len
      i == rpc[c].idx
      g == [got[c] EXCEPT !.found[i] = TRUE, !.done[i] = last,
                          !.buf[i] = IF kv.len = 0 THEN @ ELSE Append(@, Whole(kv)[n])]
  IN /\ At(c, {"fetch", "batch"}, "stream")
     /\ IF last THEN Advance(c, "resolve", g)
        ELSE rpc' = [rpc EXCEPT ![c].sent = n] /\ got' = [got EXCEPT ![c] = g]
     /\ UNCHANGED serverVars

\* The header has been sent; assembleBlock appends one chunk after the other, and the
\* EOF follows the last.
WriteFrame(c) ==
  /\ At(c, {"write"}, "send")
  /\ rpc' = [rpc EXCEPT ![c] = [@ EXCEPT !.sent = rpc[c].sent + 1,
                                  !.at = IF rpc[c].sent + 1 = rpc[c].kv.len THEN "commit" ELSE "send"]]
  /\ UNCHANGED <<got, serverVars>>

\* The stream is complete: the admission guard refuses it, or Put mints a version.
WriteCommit(c) ==
  /\ At(c, {"write"}, "commit")
  /\ \/ Store(rpc[c].server, rpc[c].kv, 0) /\ End(c, "ok", got[c])
     \/ End(c, "error", got[c]) /\ UNCHANGED hot
  /\ UNCHANGED <<cold, orphans, env>>

\* Mutant: the end of a broken stream is taken for its EOF.
BreakStores(c) ==
  /\ rpc[c].kind # "none" /\ End(c, "error", got[c])
  /\ IF rpc[c].kind = "write"
     THEN Store(rpc[c].server, [rpc[c].kv EXCEPT !.len = rpc[c].sent], 0)
     ELSE UNCHANGED hot
  /\ UNCHANGED <<cold, orphans, env>>

\* The connection breaks or the deadline passes.  A handler that is past its last Recv
\* still makes its store, at once or later; one that is not returns the error of Recv.
Break(c) ==
  /\ rpc[c].kind # "none" /\ End(c, "error", got[c])
  /\ \/ /\ rpc[c].at \in {"commit", "readmit"}
        /\ orphans' = orphans \cup {[server |-> rpc[c].server, kv |-> rpc[c].kv, ver |-> rpc[c].ver]}
     \/ UNCHANGED orphans
  /\ UNCHANGED <<hot, cold, env>>

Serve(c) ==
  \/ LookupBlock(c) \/ ResolveHot(c) \/ ResolveCold(c) \/ Readmit(c) \/ StreamFrame(c)
  \/ WriteFrame(c) \/ WriteCommit(c)

-----------------------------------------------------------------------------
(* What happens to the stores meanwhile.                                   *)

OrphanStore(o) ==
  /\ o \in orphans /\ orphans' = orphans \ {o} /\ Store(o.server, o.kv, o.ver)
  /\ UNCHANGED <<cold, env, rpc, got>>

\* Eviction spills the block or fails to; Evict and a restart lose it without.
Lose(n, s, b) ==
  /\ env.losses < MaxLosses /\ env' = [env EXCEPT !.losses = @ + 1]
  /\ hot[n][s][b] # Absent /\ hot' = [hot EXCEPT ![n][s][b] = Absent]
  /\ \/ cold' = [cold EXCEPT ![s][b] = hot[n][s][b]]
     \/ UNCHANGED cold
  /\ UNCHANGED <<orphans, rpc, got>>

\* Another client writes the same block: the same KV in bytes of its own.
PeerWrite(n, s, b) ==
  /\ env.peerWrites[s] < PeerWrites[s] /\ env' = [env EXCEPT !.peerWrites[s] = @ + 1]
  /\ Store(n, KV(s, b, 2 + env.peerWrites[s], TRUE), 0)
  /\ UNCHANGED <<cold, orphans, rpc, got>>

\* The replicator copies a block to a server that does not hold a newer one.
Replicate(n, to, s, b) ==
  /\ hot[n][s][b].ver > hot[to][s][b].ver
  /\ Store(to, hot[n][s][b].kv, hot[n][s][b].ver)
  /\ UNCHANGED <<cold, orphans, env, rpc, got>>

MeanwhileTo(s) ==
  \/ \E o \in orphans : o.kv.shard = s /\ OrphanStore(o)
  \/ \E b \in Blocks : \E i, j \in DOMAIN Owners[s] :
       \/ Lose(Owners[s][i], s, b) \/ PeerWrite(Owners[s][1], s, b)
       \/ Replicate(Owners[s][i], Owners[s][j], s, b)

-----------------------------------------------------------------------------
\* ADR 0016: what a client accepts for a block is the whole payload of one write of that
\* block under the model ID it asked for, however many entries replaced it, were lost or
\* came back from the cold tier while it was streamed, and whichever streams broke.
Accepted(c, i) == got[c].status = "ok" /\ got[c].found[i] /\ got[c].done[i]
AcceptedIsWhole ==
  \A c \in Callers : got[c].kind \in {"fetch", "batch"} =>
    \A i \in DOMAIN got[c].want : Accepted(c, i) =>
      LET b == got[c].want[i].block
          buf == got[c].buf[i]
      IN /\ Len(buf) = Chunks[b]
         /\ \A k \in DOMAIN buf : buf[k] = [kv |-> buf[1].kv, i |-> k]
         /\ \A k \in DOMAIN buf : buf[k].kv.shard = c /\ buf[k].kv.block = b
=============================================================================
