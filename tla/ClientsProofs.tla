---------------------------- MODULE ClientsProofs ----------------------------
(***************************************************************************)
(* The safety theorems of Clients, for any number of servers, shards,      *)
(* blocks, frames per block, ranks and requests.                           *)
(*                                                                         *)
(* A call and what its caller has received depend on no store once the     *)
(* handler has its snapshot, so what holds of them (CallOK) is kept by     *)
(* each handler on its own, whatever happens to the stores meanwhile.  The *)
(* clients rest on two facts of it: what was accepted is whole, and an     *)
(* answer is to the call that was made.  That nothing spoils is a second   *)
(* invariant (Unspoilt), which holds as long as every promise was kept.    *)
(***************************************************************************)
EXTENDS Clients, WellFoundedInduction, TLAPS

Wants == [block : Blocks, ver : Nat]
Frames == [kv : Payload, i : Nat]
Rpcs == [kind : {"none", "lookup", "fetch", "batch", "write"},
         at : {"none", "peek", "resolve", "cold", "readmit", "stream", "send", "commit"},
         server : Servers \cup {"none"}, shard : Shards \cup {"none"}, want : Seq(Wants), idx : Nat,
         kv : Payload \cup {NoKV}, ver : Nat, sent : Nat]
Gots == [status : {"none", "pending", "ok", "notfound", "error"},
         kind : {"none", "lookup", "fetch", "batch", "write"}, want : Seq(Wants),
         presence : Seq(Nat), buf : Seq(Seq(Frames)), found : Seq(BOOLEAN), done : Seq(BOOLEAN)]

\* The payload of block b under shard s, in full length.
FullKV(s, b, kv) == kv \in Payload /\ kv.shard = s /\ kv.block = b /\ kv.len = Chunks[b]

EntryOK(s, b, e) == e \in Entry /\ (e # Absent => FullKV(s, b, e.kv))
HotOK ==
  /\ hot \in [Servers -> [Shards -> [Blocks -> Entry]]]
  /\ \A n \in Servers, s \in Shards, b \in Blocks : EntryOK(s, b, hot[n][s][b])
ColdOK ==
  /\ cold \in [Shards -> [Blocks -> Entry]]
  /\ \A s \in Shards, b \in Blocks : EntryOK(s, b, cold[s][b])
OrphansOK ==
  /\ orphans \subseteq [server : Servers, kv : Payload, ver : Nat]
  /\ \A o \in orphans : o.kv.len = Chunks[o.kv.block]
EnvOK ==
  /\ env \in [peerWrites : [Shards -> Nat], losses : Nat] /\ env.losses <= MaxLosses
  /\ \A s \in Shards : env.peerWrites[s] <= PeerWrites[s]
StoresOK == HotOK /\ ColdOK /\ OrphansOK /\ EnvOK

\* The first n frames of a payload, and all of one.
FirstFrames(kv, n, buf) == Len(buf) = n /\ \A k \in 1..n : buf[k] = [kv |-> kv, i |-> k]
WholeBlock(s, b, buf) ==
  /\ Len(buf) = Chunks[b]
  /\ \A k \in DOMAIN buf : buf[k] = [kv |-> buf[1].kv, i |-> k]
  /\ \A k \in DOMAIN buf : buf[k].kv.shard = s /\ buf[k].kv.block = b

\* The handler of a call c has made.
HandlerOK(c, R) ==
  /\ R.server \in Servers /\ R.shard = c /\ c \in Shards /\ R.idx \in 1..Len(R.want)
  /\ R.kind = "lookup" => R.at = "peek" /\ R.kv = NoKV /\ R.sent = 0
  /\ R.kind \in {"fetch", "batch"} =>
       \/ R.at \in {"resolve", "cold"} /\ R.kv = NoKV /\ R.sent = 0
       \/ /\ R.at \in {"readmit", "stream"} /\ FullKV(c, R.want[R.idx].block, R.kv)
          /\ R.ver # 0 /\ (R.sent = 0 \/ (R.at = "stream" /\ R.sent < R.kv.len))
  /\ R.kind = "fetch" => Len(R.want) = 1
  /\ R.kind = "write" => /\ FullKV(c, R.kv.block, R.kv) /\ R.ver = 0
                         /\ \/ R.at = "send" /\ R.sent < R.kv.len
                            \/ R.at = "commit" /\ R.sent = R.kv.len

\* The blocks the handler has not come to, and the one it is at.
UntilNow(R, G) ==
  /\ G.status = "pending" /\ G.kind = R.kind /\ G.want = R.want
  /\ R.kind = "lookup" => Len(G.presence) = R.idx - 1
  /\ R.kind \in {"fetch", "batch"} =>
       /\ \A i \in (R.idx + 1)..Len(R.want) : ~G.done[i] /\ ~G.found[i] /\ G.buf[i] = <<>>
       /\ ~G.done[R.idx]
       /\ IF R.at = "stream" THEN FirstFrames(R.kv, R.sent, G.buf[R.idx])
                            ELSE ~G.found[R.idx] /\ G.buf[R.idx] = <<>>

ReceivedOK(c, G) ==
  /\ G.kind \in {"fetch", "batch"} =>
       /\ Len(G.buf) = Len(G.want) /\ Len(G.found) = Len(G.want) /\ Len(G.done) = Len(G.want)
       /\ \A i \in 1..Len(G.want) : G.done[i] /\ G.found[i] => WholeBlock(c, G.want[i].block, G.buf[i])
  /\ G.kind = "fetch" /\ G.status = "ok" => Len(G.want) = 1 /\ G.done[1] /\ G.found[1]
  /\ G.kind = "lookup" /\ G.status = "ok" => Len(G.presence) = Len(G.want)

CallOK(c, R, G) ==
  /\ R \in Rpcs /\ G \in Gots /\ ReceivedOK(c, G)
  /\ IF R.kind = "none" THEN R = NoCall /\ G.status # "pending"
                        ELSE HandlerOK(c, R) /\ UntilNow(R, G)
CallsOK ==
  /\ rpc \in [Callers -> Rpcs] /\ got \in [Callers -> Gots]
  /\ \A c \in Callers : CallOK(c, rpc[c], got[c])

\* The answer a client waits for is to the call it has made.
Prompt == [b \in Blocks |-> Want(b, 0)]
Plan == [j \in 1..engine.hits |-> Want(engine.first + j, engine.versions[j])]
EngineType ==
  /\ engine \in [phase : {"idle", "lookup", "load", "save"}, first : 0..NBlocks, exact : BOOLEAN,
                 batch : Batches, hits : 0..NBlocks, versions : Seq(Nat)]
  /\ engine.first + engine.hits <= NBlocks /\ Len(engine.versions) = engine.hits
  /\ requests \in 0..MaxRequests
WorkersType ==
  /\ worker \in [Ranks -> [at : {"idle", "ready", "rpc"}, next : 0..(NBlocks + 1)]]
  /\ slot \in [Ranks -> [Blocks -> {"empty", "good", "bad"}]]
  /\ loadErrors \in [Ranks -> SUBSET Blocks] /\ unloaded \in BOOLEAN /\ wrong \in BOOLEAN
SchedulerOK == engine.phase = "lookup" => got[Rank0].kind = "lookup" /\ got[Rank0].want = Prompt
RankOK(r) ==
  /\ engine.phase \in {"idle", "lookup"} => worker[r].at = "idle"
  /\ engine.phase # "load" \/ worker[r].at # "idle" => loadErrors[r] = {}
  /\ engine.phase = "load" /\ worker[r].at = "rpc" => got[r].kind = "batch" /\ got[r].want = Plan
  /\ engine.phase = "save" => worker[r].next # 0
  /\ engine.phase = "save" /\ worker[r].at = "rpc" => worker[r].next <= NBlocks
EngineOK ==
  EngineType /\ WorkersType /\ SchedulerOK /\ SomethingLeftToCompute /\ \A r \in Ranks : RankOK(r)

LoadType ==
  load \in [at : {"idle", "dial", "lookup", "next", "fetch", "write"}, conn : DOMAIN Conns,
            i : 1..(NBlocks + 1), run : 0..NBlocks, requests : Nat, hits : Nat, writes : Nat,
            violations : Nat]
LoaderOK ==
  /\ LoadType /\ NoViolation
  /\ load.at = "lookup" => got[Loader].kind = "lookup" /\ got[Loader].want = Prompt
  /\ load.at = "fetch" => /\ load.i <= load.run
                          /\ got[Loader].kind = "fetch" /\ got[Loader].want = <<Want(load.i, 0)>>
  /\ load.at = "write" => load.i <= NBlocks

\* As long as every promise was kept: no payload and no frame is spoilt, and a rank that
\* has loaded its blocks holds or has reported each of them.
GoodEntry(e) == e # Absent => e.kv.good
GoodCall(R, G) ==
  /\ R.kv # NoKV => R.kv.good
  /\ \A i \in DOMAIN G.buf : \A k \in DOMAIN G.buf[i] : G.buf[i][k].kv.good
GoodHot == \A n \in Servers, s \in Shards, b \in Blocks : GoodEntry(hot[n][s][b])
GoodCold == \A s \in Shards, b \in Blocks : GoodEntry(cold[s][b])
GoodOrphans == \A o \in orphans : o.kv.good
GoodStores == GoodHot /\ GoodCold /\ GoodOrphans
GoodSlots ==
  \A r \in Ranks, b \in Blocks :
    /\ engine.phase = "load" /\ b <= engine.first => slot[r][b] = "good"
    /\ engine.phase = "load" /\ worker[r].at = "idle" /\ b <= engine.first + engine.hits =>
         slot[r][b] = "good" \/ b \in loadErrors[r]
    /\ engine.phase = "save" => slot[r][b] = "good"
GoodCalls == \A c \in Callers : GoodCall(rpc[c], got[c])
Unspoilt == ~unloaded => ~wrong /\ GoodStores /\ GoodSlots /\ GoodCalls

IInv == StoresOK /\ CallsOK /\ EngineOK /\ LoaderOK /\ Unspoilt
-----------------------------------------------------------------------------
(***************************************************************************)
(* The stores.                                                             *)
(***************************************************************************)
LEMMA EntryFacts ==
  ASSUME NEW e \in Entry
  PROVE  e.ver \in Nat /\ (e # Absent <=> e.ver # 0) /\ (e # Absent => e.kv \in Payload)
  BY DEF Entry, Absent

LEMMA LaterIsHeld ==
  ASSUME NEW e \in Entry, NEW f \in Entry, e.ver > f.ver
  PROVE  e # Absent /\ e.ver \in Nat
  <1>1. e.ver \in Nat /\ f.ver \in Nat /\ (e # Absent <=> e.ver # 0)
    BY EntryFacts, Zenon
  <1>2. e.ver # 0
    BY <1>1
  <1> QED
    BY <1>1, <1>2, Zenon

LEMMA NextVersion ==
  ASSUME NEW held \in Nat, NEW ver \in Nat
  PROVE  /\ Put(held) \in Nat /\ Put(held) # 0
         /\ PutWithVersion(held, ver) \in Nat
         /\ ver # 0 => PutWithVersion(held, ver) # 0
  BY DEF Put, PutWithVersion

\* A Put or a PutWithVersion changes one entry, to the payload it was given, or none.
LEMMA StoreEffect ==
  ASSUME HotOK, NEW server \in Servers, NEW kv \in Payload, NEW ver \in Nat, Store(server, kv, ver)
  PROVE  /\ hot' \in [Servers -> [Shards -> [Blocks -> Entry]]]
         /\ \A n \in Servers, s \in Shards, b \in Blocks :
              \/ hot'[n][s][b] = hot[n][s][b]
              \/ s = kv.shard /\ b = kv.block /\ hot'[n][s][b].kv = kv
  <1> DEFINE e == hot[server][kv.shard][kv.block]
             v == IF ver = 0 THEN Put(e.ver) ELSE PutWithVersion(e.ver, ver)
             x == IF v = e.ver THEN e ELSE [ver |-> v, kv |-> kv]
  <1>1. kv.shard \in Shards /\ kv.block \in Blocks
    BY Zenon DEF Payload
  <1>2. e \in Entry /\ e.ver \in Nat
    BY <1>1, EntryFacts DEF HotOK
  <1>3. v \in Nat /\ (v # e.ver => v # 0)
    <2>1. CASE ver = 0
      BY <1>2, <2>1, NextVersion, Zenon
    <2>2. CASE ver # 0
      BY <1>2, <2>2, NextVersion, Zenon
    <2> QED
      BY <2>1, <2>2, Zenon
  <1>4. x \in Entry /\ (x = e \/ x.kv = kv)
    BY <1>2, <1>3, Zenon DEF Entry
  <1>5. hot' = [hot EXCEPT ![server][kv.shard][kv.block] = x]
    BY Zenon DEF Store
  <1> HIDE DEF x, v, e
  <1>6. ASSUME NEW n \in Servers, NEW s \in Shards, NEW b \in Blocks
        PROVE  hot'[n][s][b] = IF n = server /\ s = kv.shard /\ b = kv.block THEN x ELSE hot[n][s][b]
    BY <1>5 DEF HotOK
  <1>7. hot' \in [Servers -> [Shards -> [Blocks -> Entry]]]
    BY <1>1, <1>4, <1>5, Zenon DEF HotOK
  <1> QED
    BY <1>4, <1>6, <1>7 DEF e

LEMMA StoreKeeps ==
  ASSUME HotOK, NEW server \in Servers, NEW kv \in Payload, kv.len = Chunks[kv.block],
         NEW ver \in Nat, Store(server, kv, ver)
  PROVE  HotOK' /\ (GoodHot /\ kv.good => GoodHot')
  <1>1. /\ hot' \in [Servers -> [Shards -> [Blocks -> Entry]]]
        /\ \A n \in Servers, s \in Shards, b \in Blocks :
             \/ hot'[n][s][b] = hot[n][s][b]
             \/ s = kv.shard /\ b = kv.block /\ hot'[n][s][b].kv = kv
    BY StoreEffect, Zenon
  <1>2. ASSUME NEW n \in Servers, NEW s \in Shards, NEW b \in Blocks
        PROVE  EntryOK(s, b, hot'[n][s][b])
    <2>1. CASE hot'[n][s][b] = hot[n][s][b]
      BY <2>1, Zenon DEF HotOK
    <2>2. CASE s = kv.shard /\ b = kv.block /\ hot'[n][s][b].kv = kv
      BY <1>1, <2>2 DEF EntryOK, FullKV
    <2> QED
      BY <1>1, <2>1, <2>2, Zenon
  <1>3. ASSUME GoodHot, kv.good, NEW n \in Servers, NEW s \in Shards, NEW b \in Blocks
        PROVE  GoodEntry(hot'[n][s][b])
    <2>1. CASE hot'[n][s][b] = hot[n][s][b]
      BY <1>3, <2>1, Zenon DEF GoodHot
    <2>2. CASE hot'[n][s][b].kv = kv
      BY <1>3, <2>2, Zenon DEF GoodEntry
    <2> QED
      BY <1>1, <2>1, <2>2, Zenon
  <1> QED
    BY <1>1, <1>2, <1>3, Zenon DEF HotOK, GoodHot

Passive == UNCHANGED <<rpc, got>>

\* What happens to the stores of a shard keeps them well formed, and good.
LEMMA MeanwhileKeeps ==
  ASSUME StoresOK, NEW s \in Shards, MeanwhileTo(s)
  PROVE  StoresOK' /\ Passive /\ (GoodStores => GoodStores')
  <1> USE ReadPathAssumption
  <1>1. CASE \E o \in orphans : o.kv.shard = s /\ OrphanStore(o)
    <2>1. PICK o \in orphans : OrphanStore(o)
      BY <1>1, Zenon
    <2>2. o.server \in Servers /\ o.kv \in Payload /\ o.ver \in Nat /\ o.kv.len = Chunks[o.kv.block]
      BY Zenon DEF StoresOK, OrphansOK
    <2>3. HotOK' /\ (GoodHot /\ o.kv.good => GoodHot')
      BY <2>1, <2>2, StoreKeeps, Zenon DEF OrphanStore, StoresOK
    <2>4. orphans' = orphans \ {o} /\ UNCHANGED <<cold, env, rpc, got>>
      BY <2>1, Zenon DEF OrphanStore
    <2>5. StoresOK'
      BY <2>3, <2>4, Zenon DEF StoresOK, ColdOK, OrphansOK, EnvOK
    <2>6. GoodStores => GoodStores'
      BY <2>3, <2>4, Zenon DEF GoodStores, GoodCold, GoodOrphans
    <2> QED
      BY <2>4, <2>5, <2>6, Zenon DEF Passive
  <1>2. ASSUME NEW b \in Blocks, NEW i \in DOMAIN Owners[s], NEW j \in DOMAIN Owners[s],
               \/ Lose(Owners[s][i], s, b) \/ PeerWrite(Owners[s][1], s, b)
               \/ Replicate(Owners[s][i], Owners[s][j], s, b)
        PROVE  StoresOK' /\ Passive /\ (GoodStores => GoodStores')
    <2>0. Owners[s] \in Seq(Servers) /\ 1 \in DOMAIN Owners[s]
      <3>1. Owners[s] \in Seq(Servers)
        BY Zenon
      <3>2. DOMAIN Owners[s] = 1..Len(Owners[s]) /\ Len(Owners[s]) \in Nat
        BY <3>1
      <3> QED
        BY <3>1, <3>2
    <2>1. Owners[s][i] \in Servers /\ Owners[s][j] \in Servers /\ Owners[s][1] \in Servers
      BY <2>0
    <2>2. CASE Lose(Owners[s][i], s, b)
      <3> DEFINE n == Owners[s][i]
      <3>1. hot' = [hot EXCEPT ![n][s][b] = Absent] /\ UNCHANGED <<orphans, rpc, got>>
        BY <2>2, Zenon DEF Lose
      <3> HIDE DEF n
      <3>2. n \in Servers /\ Absent \in Entry
        BY <2>1, Zenon DEF n, Entry
      <3>3. /\ hot' \in [Servers -> [Shards -> [Blocks -> Entry]]]
            /\ \A p \in Servers, q \in Shards, c \in Blocks :
                 hot'[p][q][c] = hot[p][q][c] \/ hot'[p][q][c] = Absent
        BY <3>1, <3>2 DEF StoresOK, HotOK
      <3>4. HotOK' /\ (GoodHot => GoodHot')
        BY <3>2, <3>3 DEF StoresOK, HotOK, EntryOK, GoodHot, GoodEntry
      <3>5. cold' = cold \/ cold' = [cold EXCEPT ![s][b] = hot[n][s][b]]
        BY <2>2, Zenon DEF Lose, n
      <3>6. /\ cold' \in [Shards -> [Blocks -> Entry]]
            /\ \A q \in Shards, c \in Blocks :
                 cold'[q][c] = cold[q][c] \/ (q = s /\ c = b /\ cold'[q][c] = hot[n][s][b])
        <4>1. hot[n][s][b] \in Entry /\ cold \in [Shards -> [Blocks -> Entry]]
          BY <3>2 DEF StoresOK, HotOK, ColdOK
        <4>2. CASE cold' = cold
          BY <4>1, <4>2, Zenon
        <4>3. CASE cold' = [cold EXCEPT ![s][b] = hot[n][s][b]]
          <5> DEFINE x == hot[n][s][b]
          <5>1. x \in Entry /\ cold' = [cold EXCEPT ![s][b] = x]
            BY <4>1, <4>3, Zenon
          <5> HIDE DEF x
          <5>2. cold' \in [Shards -> [Blocks -> Entry]]
            BY <4>1, <5>1, Zenon
          <5>3. \A q \in Shards, c \in Blocks : cold'[q][c] = IF q = s /\ c = b THEN x ELSE cold[q][c]
            BY <4>1, <5>1, Zenon
          <5> QED
            BY <5>2, <5>3, Zenon DEF x
        <4> QED
          BY <3>5, <4>2, <4>3, Zenon
      <3>7. ColdOK' /\ (GoodHot /\ GoodCold => GoodCold')
        <4>1. ASSUME NEW q \in Shards, NEW c \in Blocks
              PROVE  EntryOK(q, c, cold'[q][c]) /\ (GoodHot /\ GoodCold => GoodEntry(cold'[q][c]))
          <5>1. CASE cold'[q][c] = cold[q][c]
            BY <5>1, Zenon DEF StoresOK, ColdOK, GoodCold
          <5>2. CASE q = s /\ c = b /\ cold'[q][c] = hot[n][s][b]
            BY <3>2, <5>2, Zenon DEF StoresOK, HotOK, GoodHot
          <5> QED
            BY <3>6, <5>1, <5>2, Zenon
        <4> QED
          BY <3>6, <4>1, Zenon DEF ColdOK, GoodCold
      <3>8. EnvOK'
        <4>1. env.losses < MaxLosses /\ env' = [env EXCEPT !.losses = @ + 1]
          BY <2>2, Zenon DEF Lose
        <4>2. env'.peerWrites = env.peerWrites /\ env'.losses = env.losses + 1
          BY <4>1, Zenon DEF StoresOK, EnvOK
        <4>3. env' = [peerWrites |-> env.peerWrites, losses |-> env.losses + 1]
          BY <4>1, Zenon DEF StoresOK, EnvOK
        <4>4. env'.losses <= MaxLosses
          BY <4>1, <4>2 DEF StoresOK, EnvOK
        <4> QED
          BY <4>2, <4>3, <4>4 DEF StoresOK, EnvOK
      <3> QED
        BY <3>1, <3>4, <3>7, <3>8, Zenon DEF StoresOK, OrphansOK, GoodStores, GoodOrphans, Passive
    <2>3. CASE PeerWrite(Owners[s][1], s, b)
      <3> DEFINE kv == KV(s, b, 2 + env.peerWrites[s], TRUE)
      <3>1. /\ Store(Owners[s][1], kv, 0) /\ UNCHANGED <<cold, orphans, rpc, got>>
            /\ env.peerWrites[s] < PeerWrites[s] /\ env' = [env EXCEPT !.peerWrites[s] = @ + 1]
        BY <2>3, Zenon DEF PeerWrite
      <3>2. kv \in Payload /\ kv.len = Chunks[kv.block] /\ kv.good
        BY DEF KV, Payload, StoresOK, EnvOK
      <3> HIDE DEF kv
      <3>3. HotOK' /\ (GoodHot => GoodHot')
        BY <2>1, <3>1, <3>2, StoreKeeps, Zenon DEF StoresOK
      <3>4. EnvOK'
        <4>1. env.peerWrites \in [Shards -> Nat] /\ env.losses \in Nat /\ PeerWrites[s] \in Nat
          BY Zenon DEF StoresOK, EnvOK
        <4>2. /\ env'.losses = env.losses
              /\ env'.peerWrites = [env.peerWrites EXCEPT ![s] = @ + 1]
          BY <3>1, Zenon DEF StoresOK, EnvOK
        <4>3. env'.peerWrites \in [Shards -> Nat]
          BY <4>1, <4>2
        <4>4. env' \in [peerWrites : [Shards -> Nat], losses : Nat]
          BY <3>1, <4>1, <4>3, Zenon DEF StoresOK, EnvOK
        <4>5. ASSUME NEW q \in Shards PROVE env'.peerWrites[q] <= PeerWrites[q]
          BY <3>1, <4>1, <4>2 DEF StoresOK, EnvOK
        <4> QED
          BY <4>2, <4>4, <4>5, Zenon DEF StoresOK, EnvOK
      <3> QED
        BY <3>1, <3>3, <3>4, Zenon
        DEF StoresOK, ColdOK, OrphansOK, GoodStores, GoodCold, GoodOrphans, Passive
    <2>4. CASE Replicate(Owners[s][i], Owners[s][j], s, b)
      <3> DEFINE e == hot[Owners[s][i]][s][b]
                 to == Owners[s][j]
      <3>1. e.ver > hot[to][s][b].ver /\ Store(to, e.kv, e.ver) /\ UNCHANGED <<cold, orphans, env, rpc, got>>
        BY <2>4, Zenon DEF Replicate
      <3>2. e \in Entry /\ hot[to][s][b] \in Entry /\ EntryOK(s, b, e)
        BY <2>1 DEF StoresOK, HotOK
      <3>3. e # Absent /\ e.ver \in Nat
        BY <3>1, <3>2, LaterIsHeld, Zenon
      <3>4. e.kv \in Payload /\ e.kv.len = Chunks[e.kv.block]
        BY <3>2, <3>3, Zenon DEF EntryOK, FullKV
      <3>5. GoodHot => e.kv.good
        BY <2>1, <3>3, Zenon DEF GoodHot, GoodEntry
      <3> HIDE DEF e
      <3>6. HotOK' /\ (GoodHot => GoodHot')
        BY <2>1, <3>1, <3>3, <3>4, <3>5, StoreKeeps, Zenon DEF StoresOK
      <3> QED
        BY <3>1, <3>6, Zenon
        DEF StoresOK, ColdOK, OrphansOK, EnvOK, GoodStores, GoodCold, GoodOrphans, Passive
    <2> QED
      BY <1>2, <2>2, <2>3, <2>4, Zenon
  <1> QED
    BY <1>1, <1>2, Zenon DEF MeanwhileTo
-----------------------------------------------------------------------------
(***************************************************************************)
(* The calls.                                                              *)
(***************************************************************************)
\* A step on the call of c leaves the other calls alone.
OnlyCallOf(c) == \A d \in Callers \ {c} : rpc'[d] = rpc[d] /\ got'[d] = got[d]
SameQuestion(c) == got'[c].kind = got[c].kind /\ got'[c].want = got[c].want
GoodFrames(G) == \A i \in DOMAIN G.buf : \A k \in DOMAIN G.buf[i] : G.buf[i][k].kv.good

LEMMA CallFacts ==
  ASSUME CallsOK, NEW c \in Callers
  PROVE  CallOK(c, rpc[c], got[c]) /\ rpc[c] \in Rpcs /\ got[c] \in Gots
  BY Zenon DEF CallsOK

LEMMA OneCall ==
  ASSUME CallsOK, NEW c \in Callers, NEW R, NEW G, CallOK(c, R, G),
         rpc' = [rpc EXCEPT ![c] = R], got' = [got EXCEPT ![c] = G]
  PROVE  CallsOK' /\ OnlyCallOf(c) /\ rpc'[c] = R /\ got'[c] = G
  <1>1. R \in Rpcs /\ G \in Gots
    BY Zenon DEF CallOK
  <1>2. rpc' \in [Callers -> Rpcs] /\ got' \in [Callers -> Gots]
    BY <1>1, Zenon DEF CallsOK
  <1>3. rpc'[c] = R /\ got'[c] = G
    BY Zenon DEF CallsOK
  <1>4. OnlyCallOf(c)
    BY Zenon DEF CallsOK, OnlyCallOf
  <1>5. ASSUME NEW d \in Callers PROVE CallOK(d, rpc'[d], got'[d])
    BY <1>3, <1>4, Zenon DEF CallsOK, OnlyCallOf
  <1> QED
    BY <1>2, <1>3, <1>4, <1>5, Zenon DEF CallsOK

\* The handler of a call goes on to the next block.
NextOf(R, at) == [R EXCEPT !.at = at, !.idx = R.idx + 1, !.kv = NoKV, !.ver = 0, !.sent = 0]
LEMMA NextBlock ==
  ASSUME NEW R \in Rpcs, NEW at \in {"peek", "resolve"}, NEW S, S = NextOf(R, at)
  PROVE  /\ S \in Rpcs /\ S.kind = R.kind /\ S.server = R.server /\ S.shard = R.shard
         /\ S.want = R.want /\ S.idx = R.idx + 1 /\ S.at = at /\ S.kv = NoKV /\ S.sent = 0
  <1>1. S = [kind |-> R.kind, at |-> at, server |-> R.server, shard |-> R.shard, want |-> R.want,
             idx |-> R.idx + 1, kv |-> NoKV, ver |-> 0, sent |-> 0]
    BY Zenon DEF Rpcs, NextOf
  <1>2. S \in Rpcs
    BY <1>1 DEF Rpcs
  <1> QED
    BY <1>1, <1>2

LEMMA NoCallFacts == NoCall \in Rpcs /\ NoCall.kind = "none" /\ NoCall.kv = NoKV
  BY DEF NoCall, Rpcs

\* A call ends: what the caller has received of it is in order.
LEMMA EndKeeps ==
  ASSUME CallsOK, NEW c \in Callers, NEW g \in Gots, ReceivedOK(c, g),
         g.kind = got[c].kind, g.want = got[c].want,
         NEW status \in {"ok", "notfound", "error"}, End(c, status, g),
         status = "ok" =>
           /\ g.kind = "fetch" => Len(g.want) = 1 /\ g.done[1] /\ g.found[1]
           /\ g.kind = "lookup" => Len(g.presence) = Len(g.want)
  PROVE  CallsOK' /\ OnlyCallOf(c) /\ SameQuestion(c) /\ (GoodFrames(g) => GoodCall(rpc'[c], got'[c]))
  <1> DEFINE h == [g EXCEPT !.status = status]
  <1>1. /\ h \in Gots /\ h.status = status /\ h.kind = g.kind /\ h.want = g.want
        /\ h.presence = g.presence /\ h.buf = g.buf /\ h.found = g.found /\ h.done = g.done
    BY Zenon DEF Gots
  <1>2. rpc' = [rpc EXCEPT ![c] = NoCall] /\ got' = [got EXCEPT ![c] = h]
    BY Zenon DEF End
  <1> HIDE DEF h
  <1>3. ReceivedOK(c, h)
    BY <1>1, Zenon DEF ReceivedOK
  <1>4. CallOK(c, NoCall, h)
    BY <1>1, <1>3, NoCallFacts, Zenon DEF CallOK
  <1>5. CallsOK' /\ OnlyCallOf(c) /\ rpc'[c] = NoCall /\ got'[c] = h
    BY <1>2, <1>4, OneCall, Zenon
  <1>6. GoodFrames(g) => GoodCall(NoCall, h)
    BY <1>1, NoCallFacts, Zenon DEF GoodFrames, GoodCall
  <1> QED
    BY <1>1, <1>5, <1>6, Zenon DEF SameQuestion

LEMMA NextIndex ==
  ASSUME NEW n \in Nat, NEW i \in 1..n, i # n
  PROVE  /\ i + 1 \in 1..n /\ i + 1 \in (i + 1)..n /\ n # 1
         /\ ((i + 1) + 1)..n \subseteq (i + 1)..n /\ (i + 1) - 1 = i
  OBVIOUS

\* The block the handler of c is at is settled, with g received so far.
Settled(c, g) ==
  /\ g \in Gots /\ ReceivedOK(c, g) /\ g.status = "pending"
  /\ g.kind = rpc[c].kind /\ g.want = rpc[c].want /\ g.kind = got[c].kind /\ g.want = got[c].want
  /\ g.kind = "lookup" => Len(g.presence) = rpc[c].idx
  /\ g.kind \in {"fetch", "batch"} =>
       \A i \in (rpc[c].idx + 1)..Len(g.want) : ~g.done[i] /\ ~g.found[i] /\ g.buf[i] = <<>>
  /\ g.kind = "fetch" => g.done[1] /\ g.found[1]

\* A call moves on to its next block, or ends.
LEMMA AdvanceKeeps ==
  ASSUME CallsOK, NEW c \in Callers, HandlerOK(c, rpc[c]), rpc[c].kind \in {"lookup", "fetch", "batch"},
         NEW g, Settled(c, g),
         NEW at \in {"peek", "resolve"}, at = "peek" <=> rpc[c].kind = "lookup", Advance(c, at, g)
  PROVE  CallsOK' /\ OnlyCallOf(c) /\ SameQuestion(c) /\ (GoodFrames(g) => GoodCall(rpc'[c], got'[c]))
  <1> DEFINE R == rpc[c]
  <1>0. /\ R \in Rpcs /\ R.idx \in 1..Len(R.want) /\ R.want \in Seq(Wants) /\ Len(R.want) \in Nat
        /\ R.idx \in Nat
    <2>1. R \in Rpcs
      BY CallFacts, Zenon
    <2>2. R.want \in Seq(Wants) /\ R.idx \in Nat
      BY <2>1, Zenon DEF Rpcs
    <2> QED
      BY <2>1, <2>2 DEF HandlerOK
  <1>1. CASE R.idx = Len(R.want)
    <2>1. End(c, "ok", g)
      BY <1>1, Zenon DEF Advance
    <2>2. g.kind = "fetch" => Len(g.want) = 1 /\ g.done[1] /\ g.found[1]
      BY Zenon DEF HandlerOK, Settled
    <2>3. g.kind = "lookup" => Len(g.presence) = Len(g.want)
      BY <1>1, Zenon DEF Settled
    <2>4. g \in Gots /\ ReceivedOK(c, g) /\ g.kind = got[c].kind /\ g.want = got[c].want
      BY Zenon DEF Settled
    <2> QED
      BY <2>1, <2>2, <2>3, <2>4, EndKeeps, Zenon
  <1>2. CASE R.idx # Len(R.want)
    <2> PICK S : S = NextOf(R, at)
      BY Zenon
    <2>0. /\ R.idx + 1 \in 1..Len(R.want) /\ R.idx + 1 \in (R.idx + 1)..Len(R.want) /\ Len(R.want) # 1
          /\ ((R.idx + 1) + 1)..Len(R.want) \subseteq (R.idx + 1)..Len(R.want)
          /\ (R.idx + 1) - 1 = R.idx
      BY <1>0, <1>2, NextIndex, Zenon
    <2>1. rpc' = [rpc EXCEPT ![c] = S] /\ got' = [got EXCEPT ![c] = g]
      BY <1>2, Zenon DEF Advance, NextOf
    <2>2. /\ S \in Rpcs /\ S.kind = R.kind /\ S.server = R.server /\ S.shard = R.shard
          /\ S.want = R.want /\ S.idx = R.idx + 1 /\ S.at = at /\ S.kv = NoKV /\ S.sent = 0
      BY <1>0, NextBlock
    <2>3. R.kind # "fetch"
      BY <2>0, Zenon DEF HandlerOK
    <2>4. HandlerOK(c, S)
      <3>1. S.idx \in 1..Len(S.want)
        BY <2>0, <2>2, Zenon
      <3>2. S.kind = "lookup" => S.at = "peek"
        BY <2>2, Zenon
      <3>3. S.kind = "batch" => S.at = "resolve"
        BY <2>2, Zenon
      <3>4. S.kind \in {"lookup", "batch"} /\ S.server \in Servers /\ S.shard = c
        BY <2>2, <2>3, Zenon DEF HandlerOK
      <3> QED
        BY <2>2, <3>1, <3>2, <3>3, <3>4, Zenon DEF HandlerOK
    <2>5. UntilNow(S, g)
      <3>1. S.kind = "lookup" => Len(g.presence) = S.idx - 1
        BY <2>0, <2>2, Zenon DEF Settled
      <3>2. ASSUME S.kind = "batch"
            PROVE  /\ \A i \in (S.idx + 1)..Len(S.want) : ~g.done[i] /\ ~g.found[i] /\ g.buf[i] = <<>>
                   /\ S.at # "stream" /\ ~g.done[S.idx] /\ ~g.found[S.idx] /\ g.buf[S.idx] = <<>>
        <4>1. \A i \in S.idx..Len(S.want) : ~g.done[i] /\ ~g.found[i] /\ g.buf[i] = <<>>
          BY <2>2, <3>2, Zenon DEF Settled
        <4>2. S.idx \in S.idx..Len(S.want) /\ (S.idx + 1)..Len(S.want) \subseteq S.idx..Len(S.want)
          BY <2>0, <2>2, Zenon
        <4>3. S.at # "stream"
          BY <2>2, Zenon
        <4> QED
          BY <4>1, <4>2, <4>3, Zenon
      <3>3. S.kind = "lookup" \/ S.kind = "batch"
        BY <2>2, <2>3, Zenon
      <3>4. g.status = "pending" /\ g.kind = S.kind /\ g.want = S.want
        BY <2>2, Zenon DEF Settled
      <3> QED
        BY <3>1, <3>2, <3>3, <3>4, Zenon DEF UntilNow
    <2>6. CallOK(c, S, g)
      <3>1. S.kind # "none" /\ g \in Gots /\ ReceivedOK(c, g)
        BY <2>2, Zenon DEF Settled
      <3> QED
        BY <2>2, <2>4, <2>5, <3>1, Zenon DEF CallOK
    <2>7. CallsOK' /\ OnlyCallOf(c) /\ rpc'[c] = S /\ got'[c] = g
      BY <2>1, <2>6, OneCall, Zenon
    <2>8. GoodFrames(g) => GoodCall(S, g)
      BY <2>2, Zenon DEF GoodFrames, GoodCall
    <2> QED
      BY <2>7, <2>8, Zenon DEF SameQuestion, Settled
  <1> QED
    BY <1>1, <1>2, Zenon
-----------------------------------------------------------------------------
(***************************************************************************)
(* The handlers.                                                           *)
(***************************************************************************)
\* What a step of the handler of c, or the end of its call, keeps.
Kept(c) ==
  /\ StoresOK' /\ CallsOK' /\ OnlyCallOf(c) /\ SameQuestion(c)
  /\ GoodStores /\ GoodCall(rpc[c], got[c]) => GoodStores' /\ GoodCall(rpc'[c], got'[c])

LEMMA SameStores ==
  ASSUME StoresOK, UNCHANGED serverVars
  PROVE  StoresOK' /\ (GoodStores => GoodStores')
  BY Zenon DEF serverVars, StoresOK, HotOK, ColdOK, OrphansOK, EnvOK, GoodStores, GoodHot, GoodCold,
         GoodOrphans

LEMMA UnderWay ==
  ASSUME CallsOK, NEW c \in Callers, rpc[c].kind # "none"
  PROVE  /\ rpc[c] \in Rpcs /\ got[c] \in Gots
         /\ HandlerOK(c, rpc[c]) /\ UntilNow(rpc[c], got[c]) /\ ReceivedOK(c, got[c])
  BY Zenon DEF CallsOK, CallOK

LEMMA HandlerFacts ==
  ASSUME CallsOK, NEW c \in Callers, rpc[c].kind # "none"
  PROVE  /\ rpc[c].server \in Servers /\ rpc[c].shard = c /\ c \in Shards
         /\ rpc[c].want \in Seq(Wants) /\ rpc[c].idx \in 1..Len(rpc[c].want)
         /\ Wanted(c) \in Wants /\ Wanted(c).block \in Blocks
  <1>1. rpc[c] \in Rpcs /\ HandlerOK(c, rpc[c])
    BY UnderWay, Zenon
  <1>2. rpc[c].want \in Seq(Wants)
    BY <1>1, Zenon DEF Rpcs
  <1>3. Wanted(c) \in Wants
    BY <1>1, <1>2 DEF HandlerOK, Wanted
  <1>4. Wanted(c).block \in Blocks
    BY <1>3, Zenon DEF Wants
  <1> QED
    BY <1>1, <1>2, <1>3, <1>4, Zenon DEF HandlerOK

LEMMA HeldFacts ==
  ASSUME StoresOK, CallsOK, NEW c \in Callers, rpc[c].kind # "none"
  PROVE  /\ Held(c) \in Entry /\ EntryOK(c, Wanted(c).block, Held(c))
         /\ GoodStores => GoodEntry(Held(c))
  BY HandlerFacts DEF Held, StoresOK, HotOK, GoodStores, GoodHot

\* LookupBlock appends the version it found.
Noted(G, v) == [G EXCEPT !.presence = Append(G.presence, v)]
LEMMA NotedFacts ==
  ASSUME NEW G \in Gots, NEW v \in Nat, NEW H, H = Noted(G, v)
  PROVE  /\ H \in Gots /\ H.status = G.status /\ H.kind = G.kind /\ H.want = G.want /\ H.buf = G.buf
         /\ Len(H.presence) = Len(G.presence) + 1
  <1>0. G.presence \in Seq(Nat)
    BY Zenon DEF Gots
  <1>1. Append(G.presence, v) \in Seq(Nat) /\ Len(Append(G.presence, v)) = Len(G.presence) + 1
    BY <1>0
  <1>2. PICK p \in Seq(Nat) : p = Append(G.presence, v)
    BY <1>1, Zenon
  <1>3. H = [status |-> G.status, kind |-> G.kind, want |-> G.want, presence |-> p,
             buf |-> G.buf, found |-> G.found, done |-> G.done]
    BY <1>2, Zenon DEF Noted, Gots
  <1>4. H \in Gots
    BY <1>3 DEF Gots
  <1> QED
    BY <1>1, <1>2, <1>3, <1>4

LEMMA LookupKeeps ==
  ASSUME StoresOK, CallsOK, NEW c \in Callers, LookupBlock(c)
  PROVE  Kept(c)
  <1> DEFINE R == rpc[c]
             G == got[c]
  <1>1. R.kind = "lookup" /\ UNCHANGED serverVars
    BY Zenon DEF LookupBlock, At
  <1>2. R \in Rpcs /\ G \in Gots /\ HandlerOK(c, R) /\ UntilNow(R, G) /\ ReceivedOK(c, G)
    BY <1>1, UnderWay, Zenon
  <1>3. Held(c).ver \in Nat
    BY <1>1, HeldFacts, EntryFacts, Zenon
  <1>4. PICK H : H = Noted(G, Held(c).ver)
    BY Zenon
  <1>5. /\ H \in Gots /\ H.status = G.status /\ H.kind = G.kind /\ H.want = G.want /\ H.buf = G.buf
        /\ Len(H.presence) = Len(G.presence) + 1
    BY <1>2, <1>3, <1>4, NotedFacts
  <1>6. Advance(c, "peek", H)
    BY <1>4, Zenon DEF LookupBlock, Noted
  <1>7. /\ G.status = "pending" /\ G.kind = "lookup" /\ G.want = R.want
        /\ Len(G.presence) = R.idx - 1
    BY <1>1, <1>2, Zenon DEF UntilNow
  <1>8. Len(H.presence) = R.idx
    <2>1. R.idx \in Nat
      BY <1>2, Zenon DEF Rpcs
    <2> QED
      BY <1>5, <1>7, <2>1
  <1>9. Settled(c, H)
    BY <1>1, <1>5, <1>7, <1>8, Zenon DEF Settled, ReceivedOK
  <1>10. CallsOK' /\ OnlyCallOf(c) /\ SameQuestion(c) /\ (GoodFrames(H) => GoodCall(rpc'[c], got'[c]))
    BY <1>1, <1>2, <1>6, <1>9, AdvanceKeeps, Zenon
  <1>11. GoodCall(R, G) => GoodFrames(H)
    BY <1>5, Zenon DEF GoodCall, GoodFrames
  <1> QED
    BY <1>1, <1>10, <1>11, SameStores, Zenon DEF Kept

\* The handler has a snapshot of the block, or turns to the cold tier.
WentTo(R, at, kv, ver) == [R EXCEPT !.at = at, !.kv = kv, !.ver = ver]
LEMMA GotoKeeps ==
  ASSUME CallsOK, NEW c \in Callers, rpc[c].kind \in {"fetch", "batch"}, rpc[c].at # "stream",
         NEW at, NEW kv, NEW ver \in Nat, Goto(c, at, kv, ver),
         \/ at = "cold" /\ kv = NoKV
         \/ at \in {"readmit", "stream"} /\ FullKV(c, Wanted(c).block, kv) /\ ver # 0
  PROVE  /\ CallsOK' /\ OnlyCallOf(c) /\ SameQuestion(c)
         /\ GoodCall(rpc[c], got[c]) /\ (kv = NoKV \/ kv.good) => GoodCall(rpc'[c], got'[c])
  <1> DEFINE R == rpc[c]
             G == got[c]
  <1>1. R \in Rpcs /\ G \in Gots /\ HandlerOK(c, R) /\ UntilNow(R, G) /\ ReceivedOK(c, G)
    BY UnderWay, Zenon
  <1>2. PICK S : S = WentTo(R, at, kv, ver)
    BY Zenon
  <1>3. kv \in Payload \cup {NoKV} /\ at \in {"cold", "readmit", "stream"}
    BY Zenon DEF FullKV
  <1>4. S = [kind |-> R.kind, at |-> at, server |-> R.server, shard |-> R.shard, want |-> R.want,
             idx |-> R.idx, kv |-> kv, ver |-> ver, sent |-> R.sent]
    BY <1>1, <1>2, Zenon DEF WentTo, Rpcs
  <1>5. S \in Rpcs
    BY <1>1, <1>3, <1>4, Zenon DEF Rpcs
  <1>6. /\ S.kind = R.kind /\ S.server = R.server /\ S.shard = R.shard /\ S.want = R.want
        /\ S.idx = R.idx /\ S.at = at /\ S.kv = kv /\ S.ver = ver /\ S.sent = R.sent
    BY <1>4, Zenon
  <1>7. R.sent = 0
    BY <1>1, Zenon DEF HandlerOK
  <1>8. HandlerOK(c, S)
    BY <1>1, <1>3, <1>6, <1>7, Zenon DEF HandlerOK, Wanted
  <1>9. UntilNow(S, G)
    <2>1. ~G.found[R.idx] /\ G.buf[R.idx] = <<>>
      BY <1>1, Zenon DEF UntilNow
    <2>2. FirstFrames(kv, 0, G.buf[R.idx])
      BY <2>1 DEF FirstFrames
    <2> QED
      BY <1>1, <1>6, <1>7, <2>1, <2>2, Zenon DEF UntilNow
  <1>10. CallOK(c, S, G)
    BY <1>1, <1>5, <1>6, <1>8, <1>9, Zenon DEF CallOK
  <1>11. rpc' = [rpc EXCEPT ![c] = S] /\ got' = [got EXCEPT ![c] = G]
    BY <1>2, Zenon DEF Goto, WentTo, CallsOK
  <1>12. CallsOK' /\ OnlyCallOf(c) /\ rpc'[c] = S /\ got'[c] = G
    BY <1>10, <1>11, OneCall, Zenon
  <1> QED
    BY <1>6, <1>12, Zenon DEF SameQuestion, GoodCall
\* Replacing one element of a sequence changes nothing else of it.
LEMMA OneReplaced ==
  ASSUME NEW S, NEW s \in Seq(S), NEW i \in 1..Len(s), NEW e \in S
  PROVE  /\ [s EXCEPT ![i] = e] \in Seq(S)
         /\ Len([s EXCEPT ![i] = e]) = Len(s)
         /\ \A j \in 1..Len(s) : [s EXCEPT ![i] = e][j] = IF j = i THEN e ELSE s[j]
  OBVIOUS


\* A block of a batch that was not found is done, and not found.
MarkedDone(G, i) == [G EXCEPT !.done = [G.done EXCEPT ![i] = TRUE]]
LEMMA MarkedDoneFacts ==
  ASSUME NEW G \in Gots, NEW i, i \in 1..Len(G.done), NEW H, H = MarkedDone(G, i)
  PROVE  /\ H \in Gots /\ H.status = G.status /\ H.kind = G.kind /\ H.want = G.want
         /\ H.presence = G.presence /\ H.buf = G.buf /\ H.found = G.found
         /\ Len(H.done) = Len(G.done)
         /\ \A j \in 1..Len(G.done) : H.done[j] = (j = i \/ G.done[j])
  <1>0. G.done \in Seq(BOOLEAN)
    BY Zenon DEF Gots
  <1>1. PICK d : d = [G.done EXCEPT ![i] = TRUE]
    BY Zenon
  <1>2. d \in Seq(BOOLEAN) /\ Len(d) = Len(G.done) /\ DOMAIN d = 1..Len(G.done)
    BY <1>0, <1>1, OneReplaced
  <1>3. \A j \in 1..Len(G.done) : d[j] = (j = i \/ G.done[j])
    <2>1. ASSUME NEW j \in 1..Len(G.done) PROVE d[j] = (j = i \/ G.done[j])
      <3>1. CASE j = i
        <4>1. d[j] = TRUE
          BY <1>0, <1>1, <3>1
        <4> QED
          BY <3>1, <4>1, Zenon
      <3>2. CASE j # i
        <4>1. d[j] = G.done[j]
          BY <1>0, <1>1, <3>2
        <4>2. G.done[j] \in BOOLEAN
          BY <1>0
        <4> QED
          BY <3>2, <4>1, <4>2, Zenon
      <3> QED
        BY <3>1, <3>2, Zenon
    <2> QED
      BY <2>1, Zenon
  <1>4. H = [status |-> G.status, kind |-> G.kind, want |-> G.want, presence |-> G.presence,
             buf |-> G.buf, found |-> G.found, done |-> d]
    BY <1>1, Zenon DEF MarkedDone, Gots
  <1>5. H \in Gots
    BY <1>2, <1>4 DEF Gots
  <1> QED
    BY <1>2, <1>3, <1>4, <1>5

LEMMA NotFoundKeeps ==
  ASSUME StoresOK, CallsOK, NEW c \in Callers, rpc[c].kind \in {"fetch", "batch"},
         rpc[c].at # "stream", NotFound(c), UNCHANGED serverVars
  PROVE  Kept(c)
  <1> DEFINE R == rpc[c]
             G == got[c]
  <1>1. R \in Rpcs /\ G \in Gots /\ HandlerOK(c, R) /\ UntilNow(R, G) /\ ReceivedOK(c, G)
    BY UnderWay, Zenon
  <1>2. GoodCall(R, G) => GoodFrames(G)
    BY Zenon DEF GoodCall, GoodFrames
  <1>3. CASE R.kind = "fetch"
    <2>1. End(c, "notfound", G)
      BY <1>3, Zenon DEF NotFound
    <2>2. CallsOK' /\ OnlyCallOf(c) /\ SameQuestion(c) /\ (GoodFrames(G) => GoodCall(rpc'[c], got'[c]))
      BY <1>1, <2>1, EndKeeps, Zenon
    <2> QED
      BY <1>2, <2>2, SameStores, Zenon DEF Kept
  <1>4. CASE R.kind = "batch"
    <2>1. /\ G.status = "pending" /\ G.kind = "batch" /\ G.want = R.want /\ ~G.found[R.idx]
          /\ \A i \in (R.idx + 1)..Len(R.want) : ~G.done[i] /\ ~G.found[i] /\ G.buf[i] = <<>>
          /\ Len(G.done) = Len(G.want) /\ R.idx \in 1..Len(G.want)
          /\ Len(G.found) = Len(G.want) /\ Len(G.buf) = Len(G.want)
          /\ \A i \in 1..Len(G.want) : G.done[i] /\ G.found[i] => WholeBlock(c, G.want[i].block, G.buf[i])
      BY <1>1, <1>4, Zenon DEF UntilNow, ReceivedOK, HandlerOK
    <2>2. PICK H : H = MarkedDone(G, R.idx)
      BY Zenon
    <2>3. /\ H \in Gots /\ H.status = G.status /\ H.kind = G.kind /\ H.want = G.want
          /\ H.presence = G.presence /\ H.buf = G.buf /\ H.found = G.found
          /\ Len(H.done) = Len(G.done)
          /\ \A j \in 1..Len(G.done) : H.done[j] = (j = R.idx \/ G.done[j])
      BY <1>1, <2>1, <2>2, MarkedDoneFacts
    <2>4. Advance(c, "resolve", H)
      BY <1>4, <2>2, Zenon DEF NotFound, MarkedDone
    <2>5. ReceivedOK(c, H)
      BY <2>1, <2>3, Zenon DEF ReceivedOK
    <2>6. ASSUME NEW i \in (R.idx + 1)..Len(H.want) PROVE ~H.done[i] /\ ~H.found[i] /\ H.buf[i] = <<>>
      <3>1. i \in 1..Len(G.done) /\ i # R.idx
        <4>1. R.idx \in Nat /\ Len(G.want) \in Nat
          BY <1>1 DEF Rpcs, Gots
        <4> QED
          BY <2>1, <2>3, <4>1
      <3> QED
        BY <2>1, <2>3, <3>1, Zenon
    <2>7. Settled(c, H)
      BY <1>4, <2>1, <2>3, <2>5, <2>6, Zenon DEF Settled
    <2>8. CallsOK' /\ OnlyCallOf(c) /\ SameQuestion(c) /\ (GoodFrames(H) => GoodCall(rpc'[c], got'[c]))
      BY <1>1, <1>4, <2>4, <2>7, AdvanceKeeps, Zenon
    <2>9. GoodFrames(G) => GoodFrames(H)
      BY <2>3, Zenon DEF GoodFrames
    <2> QED
      BY <1>2, <2>8, <2>9, SameStores, Zenon DEF Kept
  <1> QED
    BY <1>3, <1>4, Zenon

LEMMA ResolveHotKeeps ==
  ASSUME StoresOK, CallsOK, NEW c \in Callers, ResolveHot(c)
  PROVE  Kept(c)
  <1>1. rpc[c].kind \in {"fetch", "batch"} /\ rpc[c].at = "resolve" /\ UNCHANGED serverVars
    BY Zenon DEF ResolveHot, At
  <1>2. /\ Held(c) \in Entry /\ EntryOK(c, Wanted(c).block, Held(c))
        /\ GoodStores => GoodEntry(Held(c))
    BY <1>1, HeldFacts, Zenon
  <1>3. CASE Held(c) = Absent /\ Goto(c, "cold", NoKV, 0)
    <2>1. /\ CallsOK' /\ OnlyCallOf(c) /\ SameQuestion(c)
          /\ GoodCall(rpc[c], got[c]) => GoodCall(rpc'[c], got'[c])
      BY <1>1, <1>3, GotoKeeps, Zenon
    <2> QED
      BY <1>1, <2>1, SameStores, Zenon DEF Kept
  <1>4. CASE Held(c) # Absent /\ Goto(c, "stream", Held(c).kv, Held(c).ver)
    <2>1. FullKV(c, Wanted(c).block, Held(c).kv) /\ Held(c).ver \in Nat /\ Held(c).ver # 0
      BY <1>2, <1>4, EntryFacts, Zenon DEF EntryOK
    <2>2. GoodStores => Held(c).kv.good
      BY <1>2, <1>4, Zenon DEF GoodEntry
    <2>3. PICK kv, ver : kv = Held(c).kv /\ ver = Held(c).ver
      BY Zenon
    <2>4. Goto(c, "stream", kv, ver)
      BY <1>4, <2>3, Zenon
    <2>5. /\ CallsOK' /\ OnlyCallOf(c) /\ SameQuestion(c)
          /\ GoodCall(rpc[c], got[c]) /\ kv.good => GoodCall(rpc'[c], got'[c])
      BY <1>1, <2>1, <2>3, <2>4, GotoKeeps, Zenon
    <2> QED
      BY <1>1, <2>2, <2>3, <2>5, SameStores, Zenon DEF Kept
  <1>5. CASE NotFound(c)
    BY <1>1, <1>5, NotFoundKeeps, Zenon
  <1> QED
    BY <1>3, <1>4, <1>5, Zenon DEF ResolveHot

LEMMA ResolveColdKeeps ==
  ASSUME StoresOK, CallsOK, NEW c \in Callers, ResolveCold(c)
  PROVE  Kept(c)
  <1> DEFINE object == cold[rpc[c].shard][Wanted(c).block]
  <1>1. rpc[c].kind \in {"fetch", "batch"} /\ rpc[c].at = "cold" /\ UNCHANGED serverVars
    BY Zenon DEF ResolveCold, At
  <1>2. /\ object \in Entry /\ EntryOK(c, Wanted(c).block, object)
        /\ GoodStores => GoodEntry(object)
    BY <1>1, HandlerFacts, Zenon DEF StoresOK, ColdOK, GoodStores, GoodCold
  <1>3. CASE object # Absent /\ Goto(c, "readmit", object.kv, object.ver)
    <2>1. FullKV(c, Wanted(c).block, object.kv) /\ object.ver \in Nat /\ object.ver # 0
      BY <1>2, <1>3, EntryFacts, Zenon DEF EntryOK
    <2>2. GoodStores => object.kv.good
      BY <1>2, <1>3, Zenon DEF GoodEntry
    <2>3. PICK kv, ver : kv = object.kv /\ ver = object.ver
      BY Zenon
    <2>4. Goto(c, "readmit", kv, ver)
      BY <1>3, <2>3, Zenon
    <2>5. /\ CallsOK' /\ OnlyCallOf(c) /\ SameQuestion(c)
          /\ GoodCall(rpc[c], got[c]) /\ kv.good => GoodCall(rpc'[c], got'[c])
      BY <1>1, <2>1, <2>3, <2>4, GotoKeeps, Zenon
    <2> QED
      BY <1>1, <2>2, <2>3, <2>5, SameStores, Zenon DEF Kept
  <1>4. CASE NotFound(c)
    BY <1>1, <1>4, NotFoundKeeps, Zenon
  <1> QED
    BY <1>3, <1>4, Zenon DEF ResolveCold

LEMMA ReadmitKeeps ==
  ASSUME StoresOK, CallsOK, NEW c \in Callers, Readmit(c)
  PROVE  Kept(c)
  <1> DEFINE R == rpc[c]
  <1>1. /\ R.kind \in {"fetch", "batch"} /\ R.at = "readmit" /\ Goto(c, "stream", R.kv, R.ver)
        /\ Store(R.server, R.kv, R.ver) \/ UNCHANGED hot
        /\ UNCHANGED <<cold, orphans, env>>
    BY Zenon DEF Readmit, At
  <1>2. R \in Rpcs /\ HandlerOK(c, R)
    BY <1>1, UnderWay, Zenon
  <1>3. /\ FullKV(c, Wanted(c).block, R.kv) /\ R.ver # 0 /\ R.ver \in Nat /\ R.server \in Servers
    BY <1>1, <1>2, Zenon DEF HandlerOK, Wanted, Rpcs
  <1>4. R.kv \in Payload /\ R.kv.len = Chunks[R.kv.block] /\ R.kv # NoKV
    BY <1>3 DEF FullKV, Payload, NoKV
  <1>5. HotOK' /\ (GoodHot /\ R.kv.good => GoodHot')
    BY <1>1, <1>3, <1>4, StoreKeeps, Zenon DEF StoresOK, HotOK, GoodHot
  <1>6. PICK kv, ver : kv = R.kv /\ ver = R.ver
    BY Zenon
  <1>7. Goto(c, "stream", kv, ver)
    BY <1>1, <1>6, Zenon
  <1>8. /\ CallsOK' /\ OnlyCallOf(c) /\ SameQuestion(c)
        /\ GoodCall(R, got[c]) /\ kv.good => GoodCall(rpc'[c], got'[c])
    BY <1>1, <1>3, <1>6, <1>7, GotoKeeps, Zenon
  <1>9. StoresOK'
    BY <1>1, <1>5, Zenon DEF StoresOK, ColdOK, OrphansOK, EnvOK
  <1>10. GoodStores /\ R.kv.good => GoodStores'
    BY <1>1, <1>5, Zenon DEF GoodStores, GoodCold, GoodOrphans
  <1>11. GoodCall(R, got[c]) => R.kv.good
    BY <1>4, Zenon DEF GoodCall
  <1> QED
    BY <1>6, <1>8, <1>9, <1>10, <1>11, Zenon DEF Kept

\* A frame is received: the next chunk of the snapshot, or nothing of an empty one.
WithChunk(kv, sent, buf) == IF kv.len = 0 THEN buf ELSE Append(buf, Whole(kv)[sent + 1])
LEMMA ChunkFacts ==
  ASSUME NEW kv \in Payload, NEW sent \in Nat, NEW buf \in Seq(Frames), FirstFrames(kv, sent, buf),
         sent = 0 \/ sent < kv.len, NEW b, b = WithChunk(kv, sent, buf)
  PROVE  /\ b \in Seq(Frames)
         /\ sent + 1 >= kv.len => FirstFrames(kv, kv.len, b)
         /\ ~(sent + 1 >= kv.len) => FirstFrames(kv, sent + 1, b) /\ sent + 1 < kv.len
         /\ (\A k \in DOMAIN buf : buf[k].kv.good) /\ kv.good => \A k \in DOMAIN b : b[k].kv.good
  <1>0. kv.len \in Nat
    BY Zenon DEF Payload
  <1>1. CASE kv.len = 0
    <2>1. b = buf /\ sent = 0
      BY <1>0, <1>1 DEF WithChunk
    <2> QED
      BY <1>1, <2>1
  <1>2. CASE kv.len # 0
    <2> DEFINE n == sent + 1
    <2>1. n \in 1..kv.len
      BY <1>0, <1>2
    <2>2. PICK f : f = [kv |-> kv, i |-> n]
      BY Zenon
    <2>3. Whole(kv)[n] = f
      BY <2>1, <2>2, Zenon DEF Whole
    <2>4. b = Append(buf, f) /\ f \in Frames
      BY <1>2, <2>1, <2>2, <2>3 DEF WithChunk, Frames
    <2>5. /\ b \in Seq(Frames) /\ Len(b) = Len(buf) + 1 /\ b[Len(buf) + 1] = f
          /\ \A k \in 1..Len(buf) : b[k] = buf[k]
      BY <2>4
    <2>6. Len(buf) = sent
      BY Zenon DEF FirstFrames
    <2>7. FirstFrames(kv, n, b)
      <3>1. ASSUME NEW k \in 1..n PROVE b[k] = [kv |-> kv, i |-> k]
        <4>1. CASE k = n
          BY <2>2, <2>5, <2>6, <4>1, Zenon
        <4>2. CASE k \in 1..sent
          BY <2>5, <2>6, <4>2, Zenon DEF FirstFrames
        <4> QED
          BY <4>1, <4>2
      <3> QED
        BY <2>5, <2>6, <3>1, Zenon DEF FirstFrames
    <2>8. ASSUME kv.good, NEW k \in DOMAIN b PROVE b[k].kv.good
      <3>1. b[k] = [kv |-> kv, i |-> k]
        BY <2>5, <2>6, <2>7 DEF FirstFrames
      <3> QED
        BY <2>8, <3>1
    <2>9. n >= kv.len => n = kv.len
      BY <1>0, <2>1
    <2>10. ~(n >= kv.len) => n < kv.len
      BY <1>0, <2>1
    <2> QED
      BY <2>5, <2>7, <2>8, <2>9, <2>10, Zenon
  <1> QED
    BY <1>1, <1>2, Zenon

\* All the frames of a payload are a whole block.
LEMMA AllFrames ==
  ASSUME NEW s, NEW block, NEW kv, FullKV(s, block, kv), NEW b \in Seq(Frames), FirstFrames(kv, kv.len, b)
  PROVE  WholeBlock(s, block, b)
  <1>1. /\ Len(b) = kv.len /\ kv.len = Chunks[block] /\ kv.len \in Nat /\ DOMAIN b = 1..kv.len
        /\ kv.shard = s /\ kv.block = block
    BY DEF FullKV, FirstFrames, Payload
  <1>2. ASSUME NEW k \in DOMAIN b PROVE b[k] = [kv |-> kv, i |-> k] /\ b[1] = [kv |-> kv, i |-> 1]
    BY <1>1 DEF FirstFrames
  <1>3. ASSUME NEW k \in DOMAIN b
        PROVE  b[k] = [kv |-> b[1].kv, i |-> k] /\ b[k].kv.shard = s /\ b[k].kv.block = block
    BY <1>1, <1>2
  <1> QED
    BY <1>1, <1>3, Zenon DEF WholeBlock

Framed(G, i, kv, sent) ==
  [G EXCEPT !.found[i] = TRUE, !.done[i] = sent + 1 >= kv.len,
            !.buf[i] = IF kv.len = 0 THEN @ ELSE Append(@, Whole(kv)[sent + 1])]
SameLengths(G) == Len(G.buf) = Len(G.want) /\ Len(G.found) = Len(G.want) /\ Len(G.done) = Len(G.want)
\* H is G with the bytes b of block i and its found and done flags.
FrameIn(G, H, i, b, kv, sent) ==
  /\ H \in Gots /\ H.status = G.status /\ H.kind = G.kind /\ H.want = G.want
  /\ Len(H.buf) = Len(G.want) /\ Len(H.found) = Len(G.want) /\ Len(H.done) = Len(G.want)
  /\ H.buf[i] = b /\ H.found[i] /\ (H.done[i] <=> sent + 1 >= kv.len)
  /\ \A j \in 1..Len(G.want) : j # i =>
       H.buf[j] = G.buf[j] /\ H.found[j] = G.found[j] /\ H.done[j] = G.done[j]
LEMMA FramedFacts ==
  ASSUME NEW G \in Gots, SameLengths(G), NEW i, i \in 1..Len(G.want), NEW kv, kv.len \in Nat,
         NEW sent \in Nat, NEW b \in Seq(Frames), b = WithChunk(kv, sent, G.buf[i]),
         NEW H, H = Framed(G, i, kv, sent)
  PROVE  FrameIn(G, H, i, b, kv, sent)
  <1> DEFINE n == Len(G.want)
  <1>0. G.done \in Seq(BOOLEAN) /\ G.found \in Seq(BOOLEAN) /\ G.buf \in Seq(Seq(Frames))
    BY Zenon DEF Gots
  <1>1. PICK last \in BOOLEAN : last = (sent + 1 >= kv.len)
    <2>1. (sent + 1 >= kv.len) \in BOOLEAN
      OBVIOUS
    <2> QED
      BY <2>1, Zenon
  <1>2. PICK d : d = [G.done EXCEPT ![i] = last]
    BY Zenon
  <1>3. PICK f : f = [G.found EXCEPT ![i] = TRUE]
    BY Zenon
  <1>4. PICK u : u = [G.buf EXCEPT ![i] = b]
    BY Zenon
  <1>5. d \in Seq(BOOLEAN) /\ Len(d) = n /\ d[i] = last /\ \A j \in 1..n : j # i => d[j] = G.done[j]
    BY <1>0, <1>2, OneReplaced DEF SameLengths
  <1>6. f \in Seq(BOOLEAN) /\ Len(f) = n /\ f[i] = TRUE /\ \A j \in 1..n : j # i => f[j] = G.found[j]
    BY <1>0, <1>3, OneReplaced DEF SameLengths
  <1>7. u \in Seq(Seq(Frames)) /\ Len(u) = n /\ u[i] = b /\ \A j \in 1..n : j # i => u[j] = G.buf[j]
    BY <1>0, <1>4, OneReplaced DEF SameLengths
  <1>8. H = [G EXCEPT !.found[i] = TRUE, !.done[i] = last, !.buf[i] = WithChunk(kv, sent, @)]
    BY <1>1, Zenon DEF Framed, WithChunk
  <1>9. H = [status |-> G.status, kind |-> G.kind, want |-> G.want, presence |-> G.presence,
             buf |-> u, found |-> f, done |-> d]
    BY <1>2, <1>3, <1>4, <1>8, Zenon DEF Gots
  <1>10. H \in Gots
    BY <1>5, <1>6, <1>7, <1>9 DEF Gots
  <1>11. H.done[i] <=> sent + 1 >= kv.len
    <2>1. H.done[i] = last
      BY <1>5, <1>9
    <2> QED
      BY <1>1, <2>1, Zenon
  <1> QED
    BY <1>5, <1>6, <1>7, <1>9, <1>10, <1>11 DEF FrameIn

LEMMA StreamFrameKeeps ==
  ASSUME StoresOK, CallsOK, NEW c \in Callers, StreamFrame(c)
  PROVE  Kept(c)
  <1> DEFINE R == rpc[c]
             G == got[c]
  <1>1. R.kind \in {"fetch", "batch"} /\ R.at = "stream" /\ UNCHANGED serverVars
    BY Zenon DEF StreamFrame, At
  <1>2. R \in Rpcs /\ G \in Gots /\ HandlerOK(c, R) /\ UntilNow(R, G) /\ ReceivedOK(c, G)
    BY <1>1, UnderWay, Zenon
  <1>3. /\ G.status = "pending" /\ G.kind = R.kind /\ G.want = R.want
        /\ FirstFrames(R.kv, R.sent, G.buf[R.idx])
        /\ \A i \in (R.idx + 1)..Len(R.want) : ~G.done[i] /\ ~G.found[i] /\ G.buf[i] = <<>>
        /\ Len(G.done) = Len(G.want) /\ R.idx \in 1..Len(G.want)
        /\ Len(G.found) = Len(G.want) /\ Len(G.buf) = Len(G.want)
        /\ \A i \in 1..Len(G.want) : G.done[i] /\ G.found[i] => WholeBlock(c, G.want[i].block, G.buf[i])
    BY <1>1, <1>2, Zenon DEF UntilNow, ReceivedOK, HandlerOK
  <1>4. /\ FullKV(c, R.want[R.idx].block, R.kv) /\ R.kv \in Payload /\ R.sent \in Nat /\ R.idx \in Nat
        /\ R.ver # 0 /\ (R.sent = 0 \/ R.sent < R.kv.len) /\ R.kv.len \in Nat /\ R.kv # NoKV
        /\ Len(R.want) \in Nat
    <2>1. /\ FullKV(c, R.want[R.idx].block, R.kv) /\ R.ver # 0 /\ (R.sent = 0 \/ R.sent < R.kv.len)
      BY <1>1, <1>2, Zenon DEF HandlerOK
    <2>2. R.sent \in Nat /\ R.idx \in Nat /\ R.want \in Seq(Wants)
      BY <1>2, Zenon DEF Rpcs
    <2> QED
      BY <2>1, <2>2 DEF FullKV, Payload, NoKV
  <1>5. PICK kv \in Payload, sent \in Nat : kv = R.kv /\ sent = R.sent
    BY <1>4, Zenon
  <1> DEFINE last == sent + 1 >= kv.len
  <1>6. PICK buf \in Seq(Frames) : buf = G.buf[R.idx]
    BY <1>2, <1>3 DEF Gots
  <1>7. PICK b : b = WithChunk(kv, sent, buf)
    BY Zenon
  <1>8. FirstFrames(kv, sent, buf) /\ (sent = 0 \/ sent < kv.len) /\ kv.len \in Nat
    BY <1>3, <1>4, <1>5, <1>6, Zenon
  <1>9. /\ b \in Seq(Frames)
        /\ last => FirstFrames(kv, kv.len, b)
        /\ ~last => FirstFrames(kv, sent + 1, b) /\ sent + 1 < kv.len
        /\ (\A k \in DOMAIN buf : buf[k].kv.good) /\ kv.good => \A k \in DOMAIN b : b[k].kv.good
    BY <1>7, <1>8, ChunkFacts, Zenon
  <1>10. PICK ix, H : ix = R.idx /\ H = Framed(G, ix, kv, sent)
    BY Zenon
  <1>11. /\ H \in Gots /\ H.status = G.status /\ H.kind = G.kind /\ H.want = G.want
         /\ Len(H.buf) = Len(G.want) /\ Len(H.found) = Len(G.want) /\ Len(H.done) = Len(G.want)
         /\ H.buf[R.idx] = b /\ H.found[R.idx] /\ (H.done[R.idx] <=> last)
         /\ \A j \in 1..Len(G.want) : j # R.idx =>
              H.buf[j] = G.buf[j] /\ H.found[j] = G.found[j] /\ H.done[j] = G.done[j]
    <2>0. PICK g \in Gots : g = G
      BY <1>2, Zenon
    <2>1. ix \in 1..Len(g.want) /\ b = WithChunk(kv, sent, g.buf[ix])
      BY <1>3, <1>6, <1>7, <1>10, <2>0, Zenon
    <2>2. SameLengths(g)
      BY <1>3, <2>0, Zenon DEF SameLengths
    <2>3. b \in Seq(Frames) /\ H = Framed(g, ix, kv, sent) /\ kv.len \in Nat
      BY <1>8, <1>9, <1>10, <2>0, Zenon
    <2>4. FrameIn(g, H, ix, b, kv, sent)
      BY <2>1, <2>2, <2>3, FramedFacts, Zenon
    <2> QED
      BY <1>10, <2>0, <2>4, Zenon DEF FrameIn
  <1>12. IF last THEN Advance(c, "resolve", H)
                 ELSE rpc' = [rpc EXCEPT ![c].sent = sent + 1] /\ got' = [got EXCEPT ![c] = H]
    BY <1>5, <1>10, Zenon DEF StreamFrame, Framed
  <1>13. last => WholeBlock(c, R.want[R.idx].block, b)
    BY <1>4, <1>5, <1>9, AllFrames, Zenon
  <1>13a. PICK n \in Nat : n = sent + 1
    OBVIOUS
  <1>13b. ~last => n < kv.len /\ FirstFrames(kv, n, b) /\ rpc' = [rpc EXCEPT ![c].sent = n]
    BY <1>9, <1>12, <1>13a, Zenon
  <1> HIDE DEF last
  <1>14. ReceivedOK(c, H)
    <2>1. ASSUME NEW i \in 1..Len(G.want), H.done[i], H.found[i]
          PROVE  WholeBlock(c, G.want[i].block, H.buf[i])
      <3>1. CASE i = R.idx
        BY <1>3, <1>11, <1>13, <2>1, <3>1, Zenon
      <3>2. CASE i # R.idx
        BY <1>3, <1>11, <2>1, <3>2, Zenon
      <3> QED
        BY <3>1, <3>2, Zenon
    <2> QED
      BY <1>3, <1>11, <2>1, Zenon DEF ReceivedOK
  <1>15. ASSUME NEW i \in (R.idx + 1)..Len(R.want) PROVE ~H.done[i] /\ ~H.found[i] /\ H.buf[i] = <<>>
    <2>1. i \in 1..Len(G.want) /\ i # R.idx
      BY <1>3, <1>4
    <2> QED
      BY <1>3, <1>11, <2>1, Zenon
  <1>16. GoodCall(R, G) => GoodFrames(H) /\ R.kv.good
    <2> SUFFICES ASSUME GoodCall(R, G) PROVE GoodFrames(H) /\ R.kv.good
      BY Zenon
    <2>1. R.kv.good
      BY <1>4, Zenon DEF GoodCall
    <2>2. G.buf \in Seq(Seq(Frames)) /\ H.buf \in Seq(Seq(Frames))
      BY <1>2, <1>11, Zenon DEF Gots
    <2>3. DOMAIN G.buf = 1..Len(G.want) /\ DOMAIN H.buf = 1..Len(G.want)
      BY <1>3, <1>11, <2>2
    <2>4. \A i \in 1..Len(G.want) : \A k \in DOMAIN G.buf[i] : G.buf[i][k].kv.good
      BY <2>3, Zenon DEF GoodCall
    <2>5. \A k \in DOMAIN b : b[k].kv.good
      BY <1>3, <1>5, <1>6, <1>9, <2>1, <2>4, Zenon
    <2>6. ASSUME NEW i \in 1..Len(G.want) PROVE \A k \in DOMAIN H.buf[i] : H.buf[i][k].kv.good
      BY <1>11, <2>4, <2>5, Zenon
    <2> QED
      BY <2>1, <2>3, <2>6, Zenon DEF GoodFrames
  <1>17. CASE last
    <2>1. R.kind = "fetch" => H.done[1] /\ H.found[1]
      <3>1. R.kind = "fetch" => R.idx = 1
        BY <1>2, <1>3, <1>4 DEF HandlerOK
      <3> QED
        BY <1>11, <1>17, <3>1, Zenon
    <2>2. Settled(c, H)
      BY <1>1, <1>3, <1>11, <1>14, <1>15, <2>1, Zenon DEF Settled
    <2>3. CallsOK' /\ OnlyCallOf(c) /\ SameQuestion(c) /\ (GoodFrames(H) => GoodCall(rpc'[c], got'[c]))
      BY <1>1, <1>2, <1>12, <1>17, <2>2, AdvanceKeeps, Zenon
    <2> QED
      BY <1>1, <1>16, <2>3, SameStores, Zenon DEF Kept
  <1>18. CASE ~last
    <2>1. n < R.kv.len /\ FirstFrames(R.kv, n, b)
      BY <1>5, <1>13b, <1>18, Zenon
    <2>2. PICK S : S = [R EXCEPT !.sent = n]
      BY Zenon
    <2>3. S = [kind |-> R.kind, at |-> R.at, server |-> R.server, shard |-> R.shard, want |-> R.want,
               idx |-> R.idx, kv |-> R.kv, ver |-> R.ver, sent |-> n]
      BY <1>2, <2>2, Zenon DEF Rpcs
    <2>4. S \in Rpcs
      BY <1>2, <2>1, <2>3, Zenon DEF Rpcs
    <2>5. /\ S.kind = R.kind /\ S.server = R.server /\ S.shard = R.shard /\ S.want = R.want
          /\ S.idx = R.idx /\ S.at = "stream" /\ S.kv = R.kv /\ S.ver = R.ver /\ S.sent = n
      BY <1>1, <2>3, Zenon
    <2>6. HandlerOK(c, S)
      BY <1>1, <1>2, <1>4, <2>1, <2>5, Zenon DEF HandlerOK
    <2>7. UntilNow(S, H)
      BY <1>1, <1>3, <1>11, <1>15, <1>18, <2>1, <2>5, Zenon DEF UntilNow
    <2>8. CallOK(c, S, H)
      BY <1>1, <1>11, <1>14, <2>4, <2>5, <2>6, <2>7, Zenon DEF CallOK
    <2>9. rpc' = [rpc EXCEPT ![c] = S] /\ got' = [got EXCEPT ![c] = H]
      BY <1>12, <1>13b, <1>18, <2>2, Zenon
    <2>10. CallsOK' /\ OnlyCallOf(c) /\ rpc'[c] = S /\ got'[c] = H
      BY <2>8, <2>9, OneCall, Zenon
    <2>11. GoodFrames(H) /\ R.kv.good => GoodCall(S, H)
      BY <2>5, Zenon DEF GoodFrames, GoodCall
    <2> QED
      BY <1>1, <1>11, <1>16, <2>10, <2>11, SameStores, Zenon DEF Kept, SameQuestion
  <1> QED
    BY <1>17, <1>18, Zenon

\* A write goes on, and is committed with its last chunk.
Sending(R, at, n) == [R EXCEPT !.sent = n, !.at = at]
LEMMA WriteFrameKeeps ==
  ASSUME StoresOK, CallsOK, NEW c \in Callers, WriteFrame(c)
  PROVE  Kept(c)
  <1> DEFINE R == rpc[c]
             G == got[c]
  <1>1. R.kind = "write" /\ R.at = "send" /\ UNCHANGED <<got, serverVars>>
    BY Zenon DEF WriteFrame, At
  <1>2. R \in Rpcs /\ G \in Gots /\ HandlerOK(c, R) /\ UntilNow(R, G) /\ ReceivedOK(c, G)
    BY <1>1, UnderWay, Zenon
  <1>3. FullKV(c, R.kv.block, R.kv) /\ R.sent < R.kv.len /\ R.kv.len \in Nat /\ R.sent \in Nat
    BY <1>1, <1>2, Zenon DEF HandlerOK, FullKV, Payload, Rpcs
  <1>4. PICK n \in Nat : n = R.sent + 1
    BY <1>3
  <1>5. PICK at : at = IF R.sent + 1 = R.kv.len THEN "commit" ELSE "send"
    BY Zenon
  <1>6. PICK S : S = Sending(R, at, n)
    BY Zenon
  <1>7. S = [kind |-> R.kind, at |-> at, server |-> R.server, shard |-> R.shard, want |-> R.want,
             idx |-> R.idx, kv |-> R.kv, ver |-> R.ver, sent |-> n]
    BY <1>2, <1>6, Zenon DEF Sending, Rpcs
  <1>8. \/ at = "commit" /\ n = R.kv.len
        \/ at = "send" /\ n < R.kv.len
    BY <1>3, <1>4, <1>5
  <1>9. S \in Rpcs
    BY <1>2, <1>7, <1>8, Zenon DEF Rpcs
  <1>10. /\ S.kind = "write" /\ S.server = R.server /\ S.shard = R.shard /\ S.want = R.want
         /\ S.idx = R.idx /\ S.at = at /\ S.kv = R.kv /\ S.ver = R.ver /\ S.sent = n
    BY <1>1, <1>7, Zenon
  <1>11. HandlerOK(c, S)
    BY <1>1, <1>2, <1>8, <1>10, Zenon DEF HandlerOK
  <1>12. UntilNow(S, G)
    BY <1>1, <1>2, <1>10, Zenon DEF UntilNow
  <1>13. CallOK(c, S, G)
    BY <1>2, <1>9, <1>10, <1>11, <1>12, Zenon DEF CallOK
  <1>14. rpc' = [rpc EXCEPT ![c] = S] /\ got' = [got EXCEPT ![c] = G]
    BY <1>1, <1>4, <1>5, <1>6, Zenon DEF WriteFrame, Sending, CallsOK
  <1>15. CallsOK' /\ OnlyCallOf(c) /\ rpc'[c] = S /\ got'[c] = G
    BY <1>13, <1>14, OneCall, Zenon
  <1>16. GoodCall(R, G) => GoodCall(S, G)
    BY <1>10, Zenon DEF GoodCall
  <1> QED
    BY <1>1, <1>15, <1>16, SameStores, Zenon DEF Kept, SameQuestion

\* A call that is under way ends with an error, whatever it has received.
LEMMA CutShort ==
  ASSUME CallsOK, NEW c \in Callers, rpc[c].kind # "none", NEW status \in {"ok", "error"},
         status = "ok" => rpc[c].kind = "write", End(c, status, got[c])
  PROVE  /\ CallsOK' /\ OnlyCallOf(c) /\ SameQuestion(c)
         /\ GoodCall(rpc[c], got[c]) => GoodCall(rpc'[c], got'[c])
  <1>1. got[c] \in Gots /\ ReceivedOK(c, got[c]) /\ UntilNow(rpc[c], got[c])
    BY UnderWay, Zenon
  <1>2. got[c].kind = rpc[c].kind
    BY <1>1, Zenon DEF UntilNow
  <1>3. CallsOK' /\ OnlyCallOf(c) /\ SameQuestion(c) /\ (GoodFrames(got[c]) => GoodCall(rpc'[c], got'[c]))
    BY <1>1, <1>2, EndKeeps, Zenon
  <1>4. GoodCall(rpc[c], got[c]) => GoodFrames(got[c])
    BY Zenon DEF GoodCall, GoodFrames
  <1> QED
    BY <1>3, <1>4, Zenon

LEMMA WriteCommitKeeps ==
  ASSUME StoresOK, CallsOK, NEW c \in Callers, WriteCommit(c)
  PROVE  Kept(c)
  <1> DEFINE R == rpc[c]
  <1>1. R.kind = "write" /\ R.at = "commit" /\ UNCHANGED <<cold, orphans, env>>
    BY Zenon DEF WriteCommit, At
  <1>2. R \in Rpcs /\ HandlerOK(c, R)
    BY <1>1, UnderWay, Zenon
  <1>3. R.kv \in Payload /\ R.kv.len = Chunks[R.kv.block] /\ R.kv # NoKV /\ R.server \in Servers
    BY <1>1, <1>2 DEF HandlerOK, FullKV, Payload, NoKV
  <1>4. GoodCall(R, got[c]) => R.kv.good
    BY <1>3, Zenon DEF GoodCall
  <1>5. CASE Store(R.server, R.kv, 0) /\ End(c, "ok", got[c])
    <2>1. HotOK' /\ (GoodHot /\ R.kv.good => GoodHot')
      BY <1>3, <1>5, StoreKeeps, Zenon DEF StoresOK
    <2>2. StoresOK' /\ (GoodStores /\ R.kv.good => GoodStores')
      BY <1>1, <2>1, Zenon DEF StoresOK, ColdOK, OrphansOK, EnvOK, GoodStores, GoodCold, GoodOrphans
    <2>3. /\ CallsOK' /\ OnlyCallOf(c) /\ SameQuestion(c)
          /\ GoodCall(rpc[c], got[c]) => GoodCall(rpc'[c], got'[c])
      BY <1>1, <1>5, CutShort, Zenon
    <2> QED
      BY <1>4, <2>2, <2>3, Zenon DEF Kept
  <1>6. CASE End(c, "error", got[c]) /\ UNCHANGED hot
    <2>1. /\ CallsOK' /\ OnlyCallOf(c) /\ SameQuestion(c)
          /\ GoodCall(rpc[c], got[c]) => GoodCall(rpc'[c], got'[c])
      BY <1>1, <1>6, CutShort, Zenon
    <2>2. UNCHANGED serverVars
      BY <1>1, <1>6, Zenon DEF serverVars
    <2> QED
      BY <2>1, <2>2, SameStores, Zenon DEF Kept
  <1> QED
    BY <1>5, <1>6, Zenon DEF WriteCommit

LEMMA BreakKeeps ==
  ASSUME StoresOK, CallsOK, NEW c \in Callers, Break(c)
  PROVE  Kept(c)
  <1> DEFINE R == rpc[c]
             o == [server |-> R.server, kv |-> R.kv, ver |-> R.ver]
  <1>1. /\ R.kind # "none" /\ End(c, "error", got[c]) /\ UNCHANGED <<hot, cold, env>>
    BY Zenon DEF Break
  <1>2. /\ CallsOK' /\ OnlyCallOf(c) /\ SameQuestion(c)
        /\ GoodCall(rpc[c], got[c]) => GoodCall(rpc'[c], got'[c])
    BY <1>1, CutShort, Zenon
  <1>3. CASE UNCHANGED orphans
    <2>1. UNCHANGED serverVars
      BY <1>1, <1>3, Zenon DEF serverVars
    <2> QED
      BY <1>2, <2>1, SameStores, Zenon DEF Kept
  <1>4. CASE R.at \in {"commit", "readmit"} /\ orphans' = orphans \cup {o}
    <2>1. R \in Rpcs /\ HandlerOK(c, R)
      BY <1>1, UnderWay, Zenon
    <2>2. R.kv \in Payload /\ R.kv.len = Chunks[R.kv.block]
      BY <1>1, <1>4, <2>1, Zenon DEF HandlerOK, FullKV, Rpcs
    <2>3. R.server \in Servers /\ R.ver \in Nat /\ R.kv # NoKV
      BY <2>1, <2>2 DEF HandlerOK, Rpcs, Payload, NoKV
    <2>4. OrphansOK'
      BY <1>4, <2>2, <2>3 DEF StoresOK, OrphansOK
    <2>5. GoodOrphans /\ R.kv.good => GoodOrphans'
      BY <1>4 DEF GoodOrphans
    <2>6. GoodCall(R, got[c]) => R.kv.good
      BY <2>3, Zenon DEF GoodCall
    <2>7. StoresOK' /\ (GoodStores /\ R.kv.good => GoodStores')
      BY <1>1, <2>4, <2>5, Zenon DEF StoresOK, HotOK, ColdOK, EnvOK, GoodStores, GoodHot, GoodCold
    <2> QED
      BY <1>2, <2>6, <2>7, Zenon DEF Kept
  <1> QED
    BY <1>3, <1>4, Zenon DEF Break

LEMMA HandlerKeeps ==
  ASSUME StoresOK, CallsOK, NEW c \in Callers, Serve(c) \/ Break(c)
  PROVE  Kept(c)
  BY LookupKeeps, ResolveHotKeeps, ResolveColdKeeps, ReadmitKeeps, StreamFrameKeeps, WriteFrameKeeps,
     WriteCommitKeeps, BreakKeeps, Zenon DEF Serve

\* A client makes a call.
Opened(kind, at, server, shard, want, kv) ==
  [NoCall EXCEPT !.kind = kind, !.at = at, !.server = server, !.shard = shard, !.want = want,
                 !.idx = 1, !.kv = kv]
Opening(kind, at, c, want, kv) ==
  \/ kind = "lookup" /\ at = "peek" /\ kv = NoKV
  \/ kind = "batch" /\ at = "resolve" /\ kv = NoKV
  \/ kind = "fetch" /\ at = "resolve" /\ kv = NoKV /\ Len(want) = 1
  \/ kind = "write" /\ FullKV(c, kv.block, kv) /\ at = IF kv.len = 0 THEN "commit" ELSE "send"

LEMMA CallOpens ==
  ASSUME CallsOK, NEW c \in Callers, NEW kind, NEW at, NEW server \in Servers, NEW want \in Seq(Wants),
         Len(want) # 0, NEW kv, c \in Shards, Opening(kind, at, c, want, kv),
         Call(c, kind, at, server, c, want, kv)
  PROVE  /\ CallsOK' /\ OnlyCallOf(c) /\ UNCHANGED serverVars
         /\ got'[c].kind = kind /\ got'[c].want = want
         /\ kv = NoKV \/ kv.good => GoodCall(rpc'[c], got'[c])
  <1>1. PICK S : S = Opened(kind, at, server, c, want, kv)
    BY Zenon
  <1>2. S = [kind |-> kind, at |-> at, server |-> server, shard |-> c, want |-> want, idx |-> 1,
             kv |-> kv, ver |-> 0, sent |-> 0]
    BY <1>1, Zenon DEF Opened, NoCall
  <1>3. PICK G : G = [status |-> "pending", kind |-> kind, want |-> want, presence |-> <<>>,
                      buf |-> [i \in DOMAIN want |-> <<>>],
                      found |-> [i \in DOMAIN want |-> FALSE],
                      done |-> [i \in DOMAIN want |-> FALSE]]
    BY Zenon
  <1>4. /\ rpc' = [rpc EXCEPT ![c] = S] /\ got' = [got EXCEPT ![c] = G] /\ UNCHANGED serverVars
    BY <1>1, <1>3, Zenon DEF Call, Opened
  <1>5. DOMAIN want = 1..Len(want) /\ Len(want) \in Nat
    OBVIOUS
  <1>6. PICK u : u = [i \in 1..Len(want) |-> <<>>]
    BY Zenon
  <1>7. PICK f : f = [i \in 1..Len(want) |-> FALSE]
    BY Zenon
  <1>8. u \in Seq(Seq(Frames)) /\ Len(u) = Len(want) /\ \A i \in 1..Len(want) : u[i] = <<>>
    BY <1>5, <1>6
  <1>9. f \in Seq(BOOLEAN) /\ Len(f) = Len(want) /\ \A i \in 1..Len(want) : ~f[i]
    BY <1>5, <1>7
  <1>10. G = [status |-> "pending", kind |-> kind, want |-> want, presence |-> <<>>,
              buf |-> u, found |-> f, done |-> f]
    BY <1>3, <1>5, <1>6, <1>7, Zenon
  <1>11. kind \in {"lookup", "fetch", "batch", "write"} /\ kv \in Payload \cup {NoKV}
    BY Zenon DEF Opening, FullKV
  <1>12. at \in {"peek", "resolve", "send", "commit"}
    BY Zenon DEF Opening
  <1>13. S \in Rpcs
    BY <1>2, <1>11, <1>12, Zenon DEF Rpcs
  <1>14. G \in Gots
    <2>1. <<>> \in Seq(Nat)
      OBVIOUS
    <2> QED
      BY <1>8, <1>9, <1>10, <1>11, <2>1, Zenon DEF Gots
  <1>15. /\ S.kind = kind /\ S.at = at /\ S.server = server /\ S.shard = c /\ S.want = want
         /\ S.idx = 1 /\ S.kv = kv /\ S.ver = 0 /\ S.sent = 0
    BY <1>2, Zenon
  <1>16. /\ G.status = "pending" /\ G.kind = kind /\ G.want = want /\ G.presence = <<>>
         /\ G.buf = u /\ G.found = f /\ G.done = f
    BY <1>10, Zenon
  <1>17. 1 \in 1..Len(want)
    BY <1>5
  <1>18. HandlerOK(c, S)
    <2>1. kind = "write" => \/ at = "send" /\ 0 < kv.len
                            \/ at = "commit" /\ 0 = kv.len
      <3>1. kind = "write" => kv.len \in Nat
        BY Zenon DEF Opening, FullKV, Payload
      <3> QED
        BY <3>1 DEF Opening
    <2> QED
      BY <1>15, <1>17, <2>1, Zenon DEF HandlerOK, Opening
  <1>19. UntilNow(S, G)
    <2>1. \A i \in (1 + 1)..Len(want) : i \in 1..Len(want)
      BY <1>5
    <2>2. Len(G.presence) = 1 - 1
      BY <1>16
    <2>3. S.at = "stream" => kind # "batch" /\ kind # "fetch"
      BY <1>15, Zenon DEF Opening
    <2> QED
      BY <1>8, <1>9, <1>15, <1>16, <1>17, <2>1, <2>2, <2>3, Zenon DEF UntilNow
  <1>20. ReceivedOK(c, G)
    BY <1>8, <1>9, <1>16, Zenon DEF ReceivedOK
  <1>21. CallOK(c, S, G)
    BY <1>11, <1>13, <1>14, <1>15, <1>18, <1>19, <1>20, Zenon DEF CallOK
  <1>22. CallsOK' /\ OnlyCallOf(c) /\ rpc'[c] = S /\ got'[c] = G
    BY <1>4, <1>21, OneCall, Zenon
  <1>23. GoodFrames(G)
    BY <1>5, <1>6, <1>16 DEF GoodFrames
  <1> QED
    BY <1>4, <1>15, <1>16, <1>22, <1>23, Zenon DEF GoodCall, GoodFrames

\* A client takes what it was waiting for.
LEMMA NothingFacts ==
  /\ Nothing \in Gots /\ Nothing.status = "none" /\ Nothing.kind = "none" /\ Nothing.buf = <<>>
  <1>1. <<>> \in Seq(Wants) /\ <<>> \in Seq(Nat) /\ <<>> \in Seq(Seq(Frames)) /\ <<>> \in Seq(BOOLEAN)
    OBVIOUS
  <1> QED
    BY <1>1, Zenon DEF Nothing, Gots

LEMMA ConsumeKeeps ==
  ASSUME CallsOK, NEW c \in Callers, got[c].status # "pending",
         got' = [got EXCEPT ![c] = Nothing], UNCHANGED rpc
  PROVE  CallsOK' /\ OnlyCallOf(c) /\ (GoodCall(rpc[c], got[c]) => GoodCall(rpc'[c], got'[c]))
  <1>1. CallOK(c, rpc[c], got[c]) /\ rpc[c] \in Rpcs
    BY CallFacts, Zenon
  <1>2. rpc[c].kind = "none" /\ rpc[c] = NoCall
    BY <1>1, Zenon DEF CallOK, UntilNow
  <1>3. CallOK(c, NoCall, Nothing)
    BY NoCallFacts, NothingFacts, Zenon DEF CallOK, ReceivedOK
  <1>4. rpc' = [rpc EXCEPT ![c] = NoCall]
    BY <1>2, Zenon DEF CallsOK
  <1>5. CallsOK' /\ OnlyCallOf(c) /\ rpc'[c] = NoCall /\ got'[c] = Nothing
    BY <1>3, <1>4, OneCall, Zenon
  <1>6. GoodCall(NoCall, Nothing)
    BY NoCallFacts, NothingFacts DEF GoodCall
  <1> QED
    BY <1>5, <1>6, Zenon
-----------------------------------------------------------------------------
(***************************************************************************)
(* The engine and its ranks.                                               *)
(***************************************************************************)
LEMMA Constants ==
  /\ NBlocks \in Nat \ {0} /\ Chunks \in [Blocks -> Nat] /\ MaxRequests \in Nat
  /\ Rank0 \in Ranks /\ Ranks \subseteq Callers /\ Ranks \subseteq Shards
  /\ Loader \in Callers /\ Loader \in Shards /\ Loader \notin Ranks
  /\ CacheAddr \in Servers
  /\ Conns \in Seq(Servers) /\ Conns # <<>> /\ \A i \in DOMAIN Conns : Conns[i] \in Servers
  <1>1. /\ NBlocks \in Nat \ {0} /\ Chunks \in [Blocks -> Nat] /\ MaxRequests \in Nat
        /\ Rank0 \in Ranks /\ Ranks \subseteq Callers /\ Ranks \subseteq Shards
        /\ Loader \in Callers /\ Loader \in Shards /\ Loader \notin Ranks
    BY ReadPathAssumption, ConnectorAssumption, LoaderAssumption, ClientsAssumption, Zenon
  <1>2. Owners[Rank0] \in Seq(Servers) /\ Owners[Rank0] # <<>>
    BY <1>1, ReadPathAssumption, ConnectorAssumption, Zenon
  <1>3. CacheAddr \in Servers
    BY <1>2 DEF CacheAddr
  <1>4. Conns \in Seq(Servers) /\ Conns # <<>>
    BY <1>1, ReadPathAssumption, LoaderAssumption, Zenon DEF Conns
  <1>5. \A i \in DOMAIN Conns : Conns[i] \in Servers
    BY <1>4
  <1> QED
    BY <1>1, <1>3, <1>4, <1>5, Zenon

LEMMA PromptFacts == Prompt \in Seq(Wants) /\ Len(Prompt) = NBlocks /\ Len(Prompt) # 0
  <1>1. NBlocks \in Nat /\ NBlocks # 0
    BY Constants, Zenon
  <1>2. Prompt \in [1..NBlocks -> Wants]
    BY Zenon DEF Prompt, Want, Wants, Blocks
  <1> QED
    BY <1>1, <1>2

\* The calls of the other callers are as good as they were.
LEMMA OthersGood ==
  ASSUME NEW c \in Callers, OnlyCallOf(c), GoodCalls, GoodCall(rpc'[c], got'[c])
  PROVE  GoodCalls'
  BY Zenon DEF OnlyCallOf, GoodCalls

\* The engine and the loader depend on a call by its question alone.
LEMMA EngineStays ==
  ASSUME EngineOK, UNCHANGED connVars,
         \A r \in Ranks : got'[r].kind = got[r].kind /\ got'[r].want = got[r].want
  PROVE  EngineOK' /\ (GoodSlots => GoodSlots')
  <1>1. EngineType' /\ WorkersType' /\ SomethingLeftToCompute'
    BY Zenon DEF EngineOK, connVars, EngineType, WorkersType, SomethingLeftToCompute
  <1>2. SchedulerOK'
    BY Constants, Zenon DEF EngineOK, connVars, SchedulerOK
  <1>3. ASSUME NEW r \in Ranks PROVE RankOK(r)'
    BY Zenon DEF EngineOK, connVars, RankOK, Plan
  <1>4. GoodSlots => GoodSlots'
    BY Zenon DEF connVars, GoodSlots
  <1> QED
    BY <1>1, <1>2, <1>3, <1>4, Zenon DEF EngineOK

LEMMA LoaderStays ==
  ASSUME LoaderOK, UNCHANGED load,
         got'[Loader].kind = got[Loader].kind /\ got'[Loader].want = got[Loader].want
  PROVE  LoaderOK'
  BY Zenon DEF LoaderOK, LoadType, NoViolation

LEMMA CallStepKeeps ==
  ASSUME IInv, NEW c \in Callers, Serve(c) \/ Break(c), UNCHANGED <<connVars, load>>
  PROVE  IInv'
  <1>1. Kept(c)
    BY HandlerKeeps, Zenon DEF IInv
  <1>2. \A d \in Callers : got'[d].kind = got[d].kind /\ got'[d].want = got[d].want
    BY <1>1, Zenon DEF Kept, OnlyCallOf, SameQuestion
  <1>3. EngineOK' /\ (GoodSlots => GoodSlots')
    BY <1>2, Constants, EngineStays, Zenon DEF IInv
  <1>4. LoaderOK'
    BY <1>2, Constants, LoaderStays, Zenon DEF IInv
  <1>5. Unspoilt'
    <2>1. unloaded' = unloaded /\ wrong' = wrong
      BY Zenon DEF connVars
    <2>2. GoodCalls => GoodCall(rpc[c], got[c])
      BY Zenon DEF GoodCalls
    <2>3. GoodStores /\ GoodCalls => GoodStores' /\ GoodCalls'
      BY <1>1, <2>2, OthersGood, Zenon DEF Kept
    <2> QED
      BY <1>3, <2>1, <2>3, Zenon DEF IInv, Unspoilt
  <1> QED
    BY <1>1, <1>3, <1>4, <1>5, Zenon DEF IInv, Kept

LEMMA StoreStepKeeps ==
  ASSUME IInv, NEW s \in Shards, MeanwhileTo(s), UNCHANGED <<connVars, load>>
  PROVE  IInv'
  <1>1. StoresOK' /\ Passive /\ (GoodStores => GoodStores')
    BY MeanwhileKeeps, Zenon DEF IInv
  <1>2. CallsOK' /\ (GoodCalls => GoodCalls')
    BY <1>1, Zenon DEF IInv, CallsOK, GoodCalls, Passive
  <1>3. EngineOK' /\ (GoodSlots => GoodSlots') /\ LoaderOK'
    BY <1>1, EngineStays, LoaderStays, Zenon DEF IInv, Passive
  <1>4. Unspoilt'
    BY <1>1, <1>2, <1>3, Zenon DEF IInv, Unspoilt, connVars
  <1> QED
    BY <1>1, <1>2, <1>3, <1>4, Zenon DEF IInv

\* What an engine step keeps.
EngineKept == StoresOK' /\ CallsOK' /\ EngineOK' /\ Unspoilt' /\ got'[Loader] = got[Loader]

LEMMA QueryKeeps ==
  ASSUME IInv, NEW first \in 0..(NBlocks - 1), NEW exact \in BOOLEAN, NEW batch \in Batches,
         Query(first, exact, batch)
  PROVE  EngineKept
  <1>1. /\ engine.phase = "idle" /\ requests < MaxRequests /\ requests' = requests + 1
        /\ Call(Rank0, "lookup", "peek", CacheAddr, Rank0, Prompt, NoKV)
        /\ UNCHANGED <<worker, slot, loadErrors, unloaded, wrong>>
    BY Zenon DEF Query, Lookup, Prompt
  <1>2. engine' = [phase |-> "lookup", first |-> first, exact |-> exact, batch |-> batch,
                   hits |-> 0, versions |-> <<>>]
    BY Zenon DEF Query, NoRequest
  <1>3. /\ CallsOK' /\ OnlyCallOf(Rank0) /\ UNCHANGED serverVars
        /\ got'[Rank0].kind = "lookup" /\ got'[Rank0].want = Prompt
        /\ GoodCall(rpc'[Rank0], got'[Rank0])
    BY <1>1, Constants, PromptFacts, CallOpens, Zenon DEF IInv, Opening
  <1>4. EngineType'
    <2>1. <<>> \in Seq(Nat) /\ Len(<<>>) = 0
      OBVIOUS
    <2>2. first \in 0..NBlocks /\ 0 \in 0..NBlocks /\ first + 0 <= NBlocks
      BY Constants
    <2>3. requests' \in 0..MaxRequests
      BY <1>1, Constants DEF IInv, EngineOK, EngineType
    <2> QED
      BY <1>2, <2>1, <2>2, <2>3 DEF EngineType
  <1>5. WorkersType'
    BY <1>1, Zenon DEF IInv, EngineOK, WorkersType
  <1>6. engine'.phase = "lookup"
    BY <1>2, Zenon
  <1>7. SchedulerOK' /\ SomethingLeftToCompute'
    BY <1>3, <1>6, Zenon DEF SchedulerOK, SomethingLeftToCompute, Prompt
  <1>8. ASSUME NEW r \in Ranks PROVE RankOK(r)'
    BY <1>1, <1>6, Zenon DEF IInv, EngineOK, RankOK
  <1>9. StoresOK' /\ (GoodStores => GoodStores')
    BY <1>3, SameStores, Zenon DEF IInv
  <1>10. GoodCalls => GoodCalls'
    BY <1>3, Constants, OthersGood, Zenon
  <1>11. GoodSlots'
    BY <1>6, Zenon DEF GoodSlots
  <1>12. Unspoilt'
    BY <1>1, <1>9, <1>10, <1>11, Zenon DEF IInv, Unspoilt
  <1> QED
    BY <1>3, <1>4, <1>5, <1>7, <1>8, <1>9, <1>12, Constants, Zenon DEF EngineKept, EngineOK, OnlyCallOf

\* The longest run from the first: it stops at the end, or before the first gap.
LEMMA LongestRun ==
  ASSUME NEW N \in Nat, NEW P
  PROVE  \E n \in 0..N : (\A i \in 1..n : i \in P) /\ (n < N => n + 1 \notin P)
  <1> DEFINE S == {n \in 0..N : n = N \/ n + 1 \notin P}
  <1>1. S \subseteq Nat /\ N \in S
    OBVIOUS
  <1>2. PICK n \in S : \A i \in S : ~(<<i, n>> \in OpToRel(<, Nat))
    BY <1>1, NatLessThanWellFounded, WFMin, Zenon
  <1>3. \A i \in S : ~(i < n)
    BY <1>1, <1>2, Zenon DEF OpToRel
  <1>4. ASSUME NEW i \in 1..n PROVE i \in P
    <2>1. i - 1 \in 0..N /\ i - 1 < n /\ i - 1 # N /\ (i - 1) + 1 = i
      BY <1>1
    <2> QED
      BY <1>3, <2>1, Zenon
  <1> QED
    BY <1>4

\* get_num_new_matched_tokens asks for blocks the prompt has, and for none after an error.
LEMMA RunFacts ==
  ASSUME NEW first \in 0..NBlocks
  PROVE  /\ Run(first) \in 0..(NBlocks - first)
         /\ \A b \in (first + 1)..(first + Run(first)) : Present(b)
  <1> DEFINE N == NBlocks - first
             P == {i \in 1..N : Present(first + i)}
  <1>1. NBlocks \in Nat /\ N \in Nat
    BY Constants
  <1>2. PICK n \in 0..N : (\A i \in 1..n : i \in P) /\ (n < N => n + 1 \notin P)
    BY <1>1, LongestRun, Zenon
  <1>3. ASSUME NEW b \in (first + 1)..(first + n) PROVE Present(b)
    <2>1. b - first \in 1..n /\ first + (b - first) = b
      BY <1>1
    <2>2. b - first \in P
      BY <1>2, <2>1, Zenon
    <2> QED
      BY <2>1, <2>2, Zenon
  <1>4. first + n < NBlocks => ~Present(first + n + 1)
    <2> SUFFICES ASSUME first + n < NBlocks, Present(first + n + 1) PROVE FALSE
      BY Zenon
    <2>1. n < N /\ n + 1 \in 1..N /\ first + (n + 1) = first + n + 1
      BY <1>1
    <2> QED
      BY <1>2, <2>1, Zenon
  <1>5. \E k \in 0..(NBlocks - first) :
          /\ \A b \in (first + 1)..(first + k) : Present(b)
          /\ first + k < NBlocks => ~Present(first + k + 1)
    BY <1>3, <1>4, Zenon
  <1> HIDE DEF Present
  <1> QED
    BY <1>5, Zenon DEF Run

LEMMA HitsFacts ==
  ASSUME NEW first \in 0..NBlocks, NEW exact \in BOOLEAN, NEW hits, hits = Hits(first, exact)
  PROVE  /\ hits \in 0..NBlocks /\ first + hits <= NBlocks
         /\ exact /\ first = 0 => hits < NBlocks
         /\ hits # 0 => got[Rank0].status = "ok"
  <1>1. NBlocks \in Nat /\ NBlocks # 0
    BY Constants, Zenon
  <1>2. PICK k \in 0..(NBlocks - first) : k = Run(first)
    BY RunFacts, Zenon
  <1>3. k # 0 => got[Rank0].status = "ok"
    <2>1. k # 0 => first + 1 \in (first + 1)..(first + k)
      BY <1>1
    <2>2. \A b \in (first + 1)..(first + k) : Present(b)
      BY <1>2, RunFacts, Zenon
    <2>3. k # 0 => Present(first + 1)
      BY <2>1, <2>2, Zenon
    <2> QED
      BY <2>3, Zenon DEF Present
  <1>4. hits = IF exact /\ k = NBlocks THEN NBlocks - 1 ELSE k
    BY <1>2, Zenon DEF Hits
  <1> QED
    BY <1>1, <1>3, <1>4

LEMMA MatchKeeps ==
  ASSUME IInv, Match
  PROVE  EngineKept
  <1>1. /\ engine.phase = "lookup" /\ got[Rank0].status \in {"ok", "error"}
        /\ worker' = [r \in Ranks |-> [at |-> "ready", next |-> 0]]
        /\ slot' = [r \in Ranks |-> [b \in Blocks |-> IF b <= engine.first THEN "good" ELSE "empty"]]
        /\ got' = [got EXCEPT ![Rank0] = Nothing]
        /\ UNCHANGED <<rpc, serverVars, loadErrors, unloaded, wrong, requests>>
    BY Zenon DEF Match
  <1>2. PICK first \in 0..NBlocks, exact \in BOOLEAN : first = engine.first /\ exact = engine.exact
    BY Zenon DEF IInv, EngineOK, EngineType
  <1>3. PICK hits : hits = Hits(first, exact)
    BY Zenon
  <1>4. /\ hits \in 0..NBlocks /\ first + hits <= NBlocks
        /\ exact /\ first = 0 => hits < NBlocks
        /\ hits # 0 => got[Rank0].status = "ok"
    BY <1>3, HitsFacts
  <1>5. PICK versions : versions = [j \in 1..hits |-> got[Rank0].presence[first + j]]
    BY Zenon
  <1>6. versions \in Seq(Nat) /\ Len(versions) = hits
    <2>1. NBlocks \in Nat /\ hits \in Nat
      BY <1>4, Constants
    <2>2. ASSUME NEW j \in 1..hits PROVE got[Rank0].presence[first + j] \in Nat
      <3>1. got[Rank0] \in Gots /\ ReceivedOK(Rank0, got[Rank0])
        BY Constants, Zenon DEF IInv, CallsOK, CallOK
      <3>2. got[Rank0].status = "ok" /\ got[Rank0].kind = "lookup" /\ got[Rank0].want = Prompt
        BY <1>1, <1>4, <2>1 DEF IInv, EngineOK, SchedulerOK
      <3>3. Len(got[Rank0].presence) = NBlocks /\ got[Rank0].presence \in Seq(Nat)
        BY <3>1, <3>2, PromptFacts, Zenon DEF ReceivedOK, Gots
      <3>4. first + j \in 1..NBlocks
        BY <1>4, <2>1
      <3> QED
        BY <3>3, <3>4
    <2>3. versions \in [1..hits -> Nat]
      BY <1>5, <2>2, Zenon
    <2> QED
      BY <2>1, <2>3
  <1>7. engine' = [engine EXCEPT !.phase = "load", !.hits = hits, !.versions = versions]
    BY <1>2, <1>3, <1>5, Zenon DEF Match
  <1>8. engine' = [phase |-> "load", first |-> first, exact |-> exact, batch |-> engine.batch,
                   hits |-> hits, versions |-> versions]
    BY <1>2, <1>7, Zenon DEF IInv, EngineOK, EngineType
  <1>9. EngineType'
    <2>1. engine.batch \in Batches
      BY Zenon DEF IInv, EngineOK, EngineType
    <2>2. requests' \in 0..MaxRequests
      BY <1>1, Zenon DEF IInv, EngineOK, EngineType
    <2> QED
      BY <1>4, <1>6, <1>8, <2>1, <2>2, Zenon DEF EngineType
  <1>10. engine'.phase = "load" /\ engine'.first = engine.first
    BY <1>2, <1>8, Zenon
  <1>11. WorkersType'
    BY <1>1, Constants DEF IInv, EngineOK, WorkersType
  <1>12. SchedulerOK' /\ SomethingLeftToCompute'
    BY <1>4, <1>8, Zenon DEF SchedulerOK, SomethingLeftToCompute
  <1>13. ASSUME NEW r \in Ranks PROVE RankOK(r)'
    <2>1. worker'[r].at = "ready" /\ loadErrors'[r] = {}
      BY <1>1, Zenon DEF IInv, EngineOK, RankOK
    <2> QED
      BY <1>10, <2>1, Zenon DEF RankOK
  <1>14. CallsOK' /\ OnlyCallOf(Rank0) /\ (GoodCall(rpc[Rank0], got[Rank0]) => GoodCall(rpc'[Rank0], got'[Rank0]))
    BY <1>1, Constants, ConsumeKeeps, Zenon DEF IInv
  <1>15. StoresOK' /\ (GoodStores => GoodStores')
    BY <1>1, SameStores, Zenon DEF IInv
  <1>16. GoodCalls => GoodCalls'
    BY <1>14, Constants, OthersGood, Zenon DEF GoodCalls
  <1>17. GoodSlots'
    <2>1. ASSUME NEW r \in Ranks, NEW b \in Blocks
          PROVE  worker'[r].at # "idle" /\ (b <= engine'.first => slot'[r][b] = "good")
      BY <1>1, <1>10, Zenon
    <2> QED
      BY <1>10, <2>1, Zenon DEF GoodSlots
  <1>18. Unspoilt'
    BY <1>1, <1>15, <1>16, <1>17, Zenon DEF IInv, Unspoilt
  <1> QED
    BY <1>9, <1>11, <1>12, <1>13, <1>14, <1>15, <1>18, Constants, Zenon DEF EngineKept, EngineOK, OnlyCallOf

\* Done(r): only the stage of r changes.
LEMMA StageFacts ==
  ASSUME WorkersType, NEW r \in Ranks, NEW at \in {"idle", "ready", "rpc"},
         worker' = [worker EXCEPT ![r].at = at]
  PROVE  /\ worker' \in [Ranks -> [at : {"idle", "ready", "rpc"}, next : 0..(NBlocks + 1)]]
         /\ worker'[r].at = at /\ worker'[r].next = worker[r].next
         /\ \A q \in Ranks : q # r => worker'[q] = worker[q]
  BY Zenon DEF WorkersType

LEMMA PlanFacts ==
  ASSUME EngineType, engine.hits # 0
  PROVE  Plan \in Seq(Wants) /\ Len(Plan) = engine.hits /\ Len(Plan) # 0
  <1>1. PICK first \in 0..NBlocks, hits \in 0..NBlocks, versions \in Seq(Nat) :
          first = engine.first /\ hits = engine.hits /\ versions = engine.versions
    BY Zenon DEF EngineType
  <1>2. NBlocks \in Nat /\ first + hits <= NBlocks /\ Len(versions) = hits /\ hits # 0
    BY <1>1, Constants, Zenon DEF EngineType
  <1>3. ASSUME NEW j \in 1..hits PROVE Want(first + j, versions[j]) \in Wants
    <2>1. first + j \in Blocks /\ versions[j] \in Nat
      BY <1>2 DEF Blocks
    <2> QED
      BY <2>1, Zenon DEF Want, Wants
  <1>4. Plan = [j \in 1..hits |-> Want(first + j, versions[j])]
    BY <1>1, Zenon DEF Plan
  <1>5. Plan \in [1..hits -> Wants]
    BY <1>3, <1>4, Zenon
  <1> QED
    BY <1>1, <1>2, <1>5

LEMMA StartLoadKeeps ==
  ASSUME IInv, NEW r \in Ranks, StartLoad(r)
  PROVE  EngineKept
  <1>0. r \in Callers /\ r \in Shards /\ r # Loader
    BY Constants, Zenon
  <1>1. /\ engine.phase = "load" /\ worker[r].at = "ready"
        /\ UNCHANGED <<engine, slot, loadErrors, wrong, requests>>
    BY Zenon DEF StartLoad
  <1>2. EngineType' /\ SomethingLeftToCompute' /\ SchedulerOK'
    BY <1>1, Zenon DEF IInv, EngineOK, EngineType, SomethingLeftToCompute, SchedulerOK
  <1>3. CASE engine.hits = 0 \/ engine.batch # "alone"
    <2>1. /\ Done(r) /\ unloaded' = (unloaded \/ engine.hits > 0) /\ UNCHANGED pathVars
      BY <1>3, Zenon DEF StartLoad
    <2>2. /\ worker' \in [Ranks -> [at : {"idle", "ready", "rpc"}, next : 0..(NBlocks + 1)]]
          /\ worker'[r].at = "idle" /\ worker'[r].next = worker[r].next
          /\ \A q \in Ranks : q # r => worker'[q] = worker[q]
      BY <2>1, StageFacts, Zenon DEF Done, IInv, EngineOK
    <2>3. WorkersType'
      <3>1. unloaded' \in BOOLEAN
        <4>1. (engine.hits > 0) \in BOOLEAN
          BY DEF IInv, EngineOK, EngineType
        <4> QED
          BY <2>1, <4>1, Zenon DEF IInv, EngineOK, WorkersType
      <3> QED
        BY <1>1, <2>2, <3>1, Zenon DEF IInv, EngineOK, WorkersType
    <2>4. rpc' = rpc /\ got' = got /\ UNCHANGED serverVars
      BY <2>1, Zenon DEF pathVars
    <2>5. ASSUME NEW q \in Ranks PROVE RankOK(q)'
      <3>1. CASE q = r
        BY <1>1, <2>2, <3>1, Zenon DEF RankOK
      <3>2. CASE q # r
        BY <1>1, <2>2, <2>4, <3>2, Zenon DEF IInv, EngineOK, RankOK, Plan
      <3> QED
        BY <3>1, <3>2, Zenon
    <2>6. StoresOK' /\ (GoodStores => GoodStores')
      BY <2>4, SameStores, Zenon DEF IInv
    <2>7. CallsOK' /\ (GoodCalls => GoodCalls')
      BY <2>4, Zenon DEF IInv, CallsOK, GoodCalls
    <2>8. ~unloaded' => ~unloaded /\ engine.hits = 0
      <3>1. ~unloaded' => ~unloaded /\ ~(engine.hits > 0)
        BY <2>1, Zenon
      <3>2. ~(engine.hits > 0) => engine.hits = 0
        BY DEF IInv, EngineOK, EngineType
      <3> QED
        BY <3>1, <3>2, Zenon
    <2>9. GoodSlots /\ engine.hits = 0 => GoodSlots'
      <3> SUFFICES ASSUME GoodSlots, engine.hits = 0, NEW q \in Ranks, NEW b \in Blocks
                   PROVE  /\ b <= engine.first => slot[q][b] = "good"
                          /\ worker'[q].at = "idle" /\ b <= engine.first + engine.hits =>
                               slot[q][b] = "good" \/ b \in loadErrors[q]
        BY <1>1, Zenon DEF GoodSlots
      <3>1. engine.first + engine.hits = engine.first
        BY DEF IInv, EngineOK, EngineType
      <3>2. b <= engine.first => slot[q][b] = "good"
        BY <1>1, Zenon DEF GoodSlots
      <3> QED
        BY <3>1, <3>2, Zenon
    <2>10. Unspoilt'
      BY <1>1, <2>6, <2>7, <2>8, <2>9, Zenon DEF IInv, Unspoilt
    <2> QED
      BY <1>2, <2>3, <2>4, <2>5, <2>6, <2>7, <2>10, Zenon DEF EngineKept, EngineOK
  <1>4. CASE ~(engine.hits = 0 \/ engine.batch # "alone")
    <2>1. /\ Call(r, "batch", "resolve", CacheAddr, r, Plan, NoKV)
          /\ worker' = [worker EXCEPT ![r].at = "rpc"] /\ UNCHANGED unloaded
      BY <1>4, Zenon DEF StartLoad, BatchFetch, Plan, HitBlock
    <2>2. /\ worker' \in [Ranks -> [at : {"idle", "ready", "rpc"}, next : 0..(NBlocks + 1)]]
          /\ worker'[r].at = "rpc" /\ worker'[r].next = worker[r].next
          /\ \A q \in Ranks : q # r => worker'[q] = worker[q]
      BY <2>1, StageFacts, Zenon DEF IInv, EngineOK
    <2>3. WorkersType'
      BY <1>1, <2>1, <2>2, Zenon DEF IInv, EngineOK, WorkersType
    <2>4. Plan \in Seq(Wants) /\ Len(Plan) # 0
      BY <1>4, PlanFacts, Zenon DEF IInv, EngineOK
    <2>5. /\ CallsOK' /\ OnlyCallOf(r) /\ UNCHANGED serverVars
          /\ got'[r].kind = "batch" /\ got'[r].want = Plan
          /\ GoodCall(rpc'[r], got'[r])
      <3> HIDE DEF Plan
      <3> QED
        BY <1>0, <2>1, <2>4, Constants, CallOpens, Zenon DEF IInv, Opening
    <2>6. Plan' = Plan
      BY <1>1, Zenon DEF Plan
    <2>7. ASSUME NEW q \in Ranks PROVE RankOK(q)'
      <3>1. CASE q = r
        <4>1. loadErrors'[r] = {}
          BY <1>1, Zenon DEF IInv, EngineOK, RankOK
        <4> QED
          BY <1>1, <2>2, <2>5, <2>6, <3>1, <4>1, Zenon DEF RankOK
      <3>2. CASE q # r
        <4>1. got'[q] = got[q] /\ worker'[q] = worker[q]
          BY <2>2, <2>5, <3>2, Constants, Zenon DEF OnlyCallOf
        <4> QED
          BY <1>1, <2>6, <4>1, Zenon DEF IInv, EngineOK, RankOK
      <3> QED
        BY <3>1, <3>2, Zenon
    <2>8. StoresOK' /\ (GoodStores => GoodStores')
      BY <2>5, SameStores, Zenon DEF IInv
    <2>9. GoodCalls => GoodCalls'
      BY <1>0, <2>5, OthersGood, Zenon
    <2>10. GoodSlots => GoodSlots'
      BY <1>1, <2>2, Zenon DEF GoodSlots
    <2>11. Unspoilt'
      BY <1>1, <2>1, <2>8, <2>9, <2>10, Zenon DEF IInv, Unspoilt
    <2> QED
      BY <1>0, <1>2, <2>3, <2>5, <2>7, <2>8, <2>11, Constants, Zenon DEF EngineKept, EngineOK, OnlyCallOf
  <1> QED
    BY <1>3, <1>4, Zenon

\* A payload _load_plan copies in is the whole of its block.
LEMMA AcceptedPayload ==
  ASSUME IInv, NEW r \in Ranks, engine.phase = "load", worker[r].at = "rpc", NEW j \in Payloads(r)
  PROVE  /\ HitBlock(j) \in Blocks /\ HitBlock(j) - engine.first = j /\ j \in 1..engine.hits
         /\ GoodCall(rpc[r], got[r]) => Quality(HitBlock(j), got[r].buf[j]) = "good"
  <1>1. PICK first \in 0..NBlocks, hits \in 0..NBlocks : first = engine.first /\ hits = engine.hits
    BY Zenon DEF IInv, EngineOK, EngineType
  <1>2. NBlocks \in Nat /\ first + hits <= NBlocks
    BY <1>1, Constants, Zenon DEF IInv, EngineOK, EngineType
  <1>3. j \in 1..hits /\ got[r].status = "ok" /\ got[r].found[j] /\ got[r].done[j]
    BY <1>1, Zenon DEF Payloads, Accepted
  <1>4. first + j \in Blocks /\ (first + j) - first = j
    BY <1>2, <1>3 DEF Blocks
  <1>5. got[r].kind = "batch" /\ got[r].want = Plan
    BY Zenon DEF IInv, EngineOK, RankOK
  <1>6. got[r] \in Gots /\ ReceivedOK(r, got[r])
    BY Constants, Zenon DEF IInv, CallsOK, CallOK
  <1>7. Len(Plan) = hits /\ Plan[j].block = first + j
    <2>1. hits # 0
      BY <1>2, <1>3
    <2>2. Len(Plan) = hits
      BY <1>1, <2>1, PlanFacts, Zenon DEF IInv, EngineOK
    <2> QED
      BY <1>1, <1>3, <2>2, Zenon DEF Plan, Want
  <1>8. WholeBlock(r, first + j, got[r].buf[j]) /\ Len(got[r].buf) = hits
    BY <1>3, <1>5, <1>6, <1>7, Zenon DEF ReceivedOK
  <1>9. j \in DOMAIN got[r].buf
    BY <1>3, <1>6, <1>8 DEF Gots
  <1>10. GoodCall(rpc[r], got[r]) => Quality(first + j, got[r].buf[j]) = "good"
    BY <1>8, <1>9, Zenon DEF GoodCall, Quality, WholeBlock
  <1> QED
    BY <1>1, <1>3, <1>4, <1>10, Zenon DEF HitBlock

LEMMA CopyInKeeps ==
  ASSUME IInv, NEW r \in Ranks, NEW failing, CopyIn(r, failing)
  PROVE  EngineKept
  <1> DEFINE loaded == {HitBlock(j) : j \in Payloads(r) \ failing}
             NewSlot(b) == IF b \in loaded THEN Quality(b, got[r].buf[b - engine.first]) ELSE slot[r][b]
             errors == {HitBlock(j) : j \in failing}
  <1>0. r \in Callers /\ r # Loader
    BY Constants, Zenon
  <1>1. /\ engine.phase = "load" /\ worker[r].at = "rpc" /\ got[r].status \in {"ok", "error"}
        /\ failing \subseteq Payloads(r)
        /\ slot' = [slot EXCEPT ![r] = [b \in Blocks |-> NewSlot(b)]]
        /\ loadErrors' = [loadErrors EXCEPT ![r] = errors]
        /\ unloaded' = (unloaded \/ Payloads(r) # 1..engine.hits)
        /\ Done(r) /\ got' = [got EXCEPT ![r] = Nothing]
        /\ UNCHANGED <<rpc, serverVars, engine, wrong, requests>>
    BY Zenon DEF CopyIn
  <1>2. ASSUME NEW j \in Payloads(r)
        PROVE  /\ HitBlock(j) \in Blocks /\ HitBlock(j) - engine.first = j /\ j \in 1..engine.hits
               /\ GoodCall(rpc[r], got[r]) => Quality(HitBlock(j), got[r].buf[j]) = "good"
    BY <1>1, AcceptedPayload, Zenon
  <1>3. EngineType' /\ SomethingLeftToCompute' /\ SchedulerOK'
    BY <1>1, Zenon DEF IInv, EngineOK, EngineType, SomethingLeftToCompute, SchedulerOK
  <1>4. /\ worker' \in [Ranks -> [at : {"idle", "ready", "rpc"}, next : 0..(NBlocks + 1)]]
        /\ worker'[r].at = "idle" /\ worker'[r].next = worker[r].next
        /\ \A q \in Ranks : q # r => worker'[q] = worker[q]
    BY <1>1, StageFacts, Zenon DEF Done, IInv, EngineOK
  <1>5. /\ slot \in [Ranks -> [Blocks -> {"empty", "good", "bad"}]]
        /\ loadErrors \in [Ranks -> SUBSET Blocks]
    BY Zenon DEF IInv, EngineOK, WorkersType
  <1>6. \A b \in Blocks : NewSlot(b) \in {"empty", "good", "bad"}
    BY <1>5, Zenon DEF Quality
  <1>7. errors \subseteq Blocks
    BY <1>1, <1>2, Zenon
  <1> HIDE DEF NewSlot, errors
  <1>8. PICK new : new = [b \in Blocks |-> NewSlot(b)]
    BY Zenon
  <1>9. new \in [Blocks -> {"empty", "good", "bad"}] /\ \A b \in Blocks : new[b] = NewSlot(b)
    BY <1>6, <1>8, Zenon
  <1>10. /\ slot' \in [Ranks -> [Blocks -> {"empty", "good", "bad"}]]
         /\ slot'[r] = new /\ \A q \in Ranks : q # r => slot'[q] = slot[q]
    BY <1>1, <1>5, <1>8, <1>9, Zenon
  <1>11. /\ loadErrors' \in [Ranks -> SUBSET Blocks]
         /\ loadErrors'[r] = errors /\ \A q \in Ranks : q # r => loadErrors'[q] = loadErrors[q]
    BY <1>1, <1>5, <1>7, Zenon
  <1>12. WorkersType'
    BY <1>1, <1>4, <1>10, <1>11, Zenon DEF IInv, EngineOK, WorkersType
  <1>13. CallsOK' /\ OnlyCallOf(r) /\ (GoodCall(rpc[r], got[r]) => GoodCall(rpc'[r], got'[r]))
    BY <1>0, <1>1, ConsumeKeeps, Zenon DEF IInv
  <1>14. ASSUME NEW q \in Ranks PROVE RankOK(q)'
    <2>1. CASE q = r
      BY <1>1, <1>4, <2>1, Zenon DEF RankOK
    <2>2. CASE q # r
      <3>1. got'[q] = got[q] /\ worker'[q] = worker[q] /\ loadErrors'[q] = loadErrors[q]
        BY <1>4, <1>11, <1>13, <2>2, Constants, Zenon DEF OnlyCallOf
      <3> QED
        BY <1>1, <3>1, Zenon DEF IInv, EngineOK, RankOK, Plan
    <2> QED
      BY <2>1, <2>2, Zenon
  <1>15. StoresOK' /\ (GoodStores => GoodStores')
    BY <1>1, SameStores, Zenon DEF IInv
  <1>16. GoodCalls => GoodCalls' /\ GoodCall(rpc[r], got[r])
    BY <1>0, <1>13, OthersGood, Zenon DEF GoodCalls
  <1>17. ~unloaded' => ~unloaded /\ Payloads(r) = 1..engine.hits
    BY <1>1, Zenon
  <1>18. GoodSlots /\ GoodCall(rpc[r], got[r]) /\ Payloads(r) = 1..engine.hits => GoodSlots'
    <2> SUFFICES ASSUME GoodSlots, GoodCall(rpc[r], got[r]), Payloads(r) = 1..engine.hits,
                        NEW q \in Ranks, NEW b \in Blocks
                 PROVE  /\ b <= engine.first => slot'[q][b] = "good"
                        /\ worker'[q].at = "idle" /\ b <= engine.first + engine.hits =>
                             slot'[q][b] = "good" \/ b \in loadErrors'[q]
      BY <1>1, Zenon DEF GoodSlots
    <2>1. CASE q # r
      <3>1. slot'[q] = slot[q] /\ worker'[q] = worker[q] /\ loadErrors'[q] = loadErrors[q]
        BY <1>4, <1>10, <1>11, <2>1, Zenon
      <3> QED
        BY <1>1, <3>1, Zenon DEF GoodSlots
    <2>2. CASE q = r
      <3>1. PICK first \in 0..NBlocks, hits \in 0..NBlocks : first = engine.first /\ hits = engine.hits
        BY Zenon DEF IInv, EngineOK, EngineType
      <3>2. slot'[q][b] = NewSlot(b) /\ loadErrors'[q] = errors
        BY <1>9, <1>10, <1>11, <2>2, Zenon
      <3>3. CASE b <= first
        <4>1. b \notin loaded
          <5> SUFFICES ASSUME NEW j \in Payloads(r), b = HitBlock(j) PROVE FALSE
            BY Zenon
          <5>1. j \in 1..hits /\ b = first + j
            BY <1>2, <3>1, Zenon DEF HitBlock
          <5> QED
            BY <3>3, <5>1, Constants
        <4>2. slot'[q][b] = slot[q][b]
          BY <2>2, <3>2, <4>1, Zenon DEF NewSlot
        <4> QED
          BY <1>1, <3>1, <3>3, <4>2, Zenon DEF GoodSlots
      <3>4. CASE ~(b <= first) /\ b <= first + hits
        <4>1. PICK j \in 1..hits : b = first + j
          <5>1. b \in Nat /\ NBlocks \in Nat
            BY Constants DEF Blocks
          <5>2. b - first \in 1..hits /\ b = first + (b - first)
            BY <3>4, <5>1
          <5> QED
            BY <5>2, Zenon
        <4>2. j \in Payloads(r) /\ b = HitBlock(j)
          BY <3>1, <4>1, Zenon DEF HitBlock
        <4>3. CASE j \in failing
          <5>1. b \in errors
            BY <4>2, <4>3, Zenon DEF errors
          <5> QED
            BY <3>1, <3>2, <3>4, <5>1, Zenon
        <4>4. CASE j \notin failing
          <5>1. b \in loaded
            BY <4>2, <4>4, Zenon
          <5>2. NewSlot(b) = Quality(HitBlock(j), got[r].buf[j])
            BY <1>2, <4>2, <5>1, Zenon DEF NewSlot
          <5> QED
            BY <1>2, <3>1, <3>2, <3>4, <4>2, <5>2, Zenon
        <4> QED
          BY <3>1, <3>4, <4>3, <4>4, Zenon
      <3> QED
        BY <3>1, <3>3, <3>4, Zenon
    <2> QED
      BY <2>1, <2>2, Zenon
  <1>19. Unspoilt'
    BY <1>1, <1>15, <1>16, <1>17, <1>18, Zenon DEF IInv, Unspoilt
  <1> QED
    BY <1>0, <1>3, <1>12, <1>13, <1>14, <1>15, <1>19, Constants, Zenon DEF EngineKept, EngineOK, OnlyCallOf

\* A pass of the engine that touches no call.
LEMMA QuietCalls ==
  ASSUME IInv, UNCHANGED pathVars
  PROVE  /\ StoresOK' /\ CallsOK' /\ got' = got
         /\ GoodStores => GoodStores'
         /\ GoodCalls => GoodCalls'
  <1>1. rpc' = rpc /\ got' = got /\ UNCHANGED serverVars
    BY Zenon DEF pathVars
  <1>2. StoresOK' /\ (GoodStores => GoodStores')
    BY <1>1, SameStores, Zenon DEF IInv
  <1> QED
    BY <1>1, <1>2, Zenon DEF IInv, CallsOK, GoodCalls

LEMMA ForwardKeeps ==
  ASSUME IInv, Forward
  PROVE  EngineKept
  <1> DEFINE sound == \A r \in Ranks, b \in Blocks : Used(b) => slot[r][b] = "good"
             After(r, b) == IF Used(b) THEN slot[r][b] ELSE IF sound THEN "good" ELSE "bad"
  <1>1. /\ engine.phase = "load" /\ \A r \in Ranks : worker[r].at = "idle"
        /\ slot' = [r \in Ranks |-> [b \in Blocks |-> After(r, b)]]
        /\ wrong' = (wrong \/ ~sound)
        /\ loadErrors' = [r \in Ranks |-> {}]
        /\ worker' = [r \in Ranks |-> [at |-> "ready", next |-> engine.first + engine.hits + 1]]
        /\ engine' = [engine EXCEPT !.phase = "save"]
        /\ UNCHANGED <<pathVars, unloaded, requests>>
    BY Zenon DEF Forward
  <1>2. PICK first \in 0..NBlocks, hits \in 0..NBlocks : first = engine.first /\ hits = engine.hits
    BY Zenon DEF IInv, EngineOK, EngineType
  <1>3. NBlocks \in Nat /\ first + hits <= NBlocks
    BY <1>2, Constants, Zenon DEF IInv, EngineOK, EngineType
  <1>4. EngineType' /\ SomethingLeftToCompute' /\ SchedulerOK' /\ engine'.phase = "save"
    <2>1. engine' = [phase |-> "save", first |-> engine.first, exact |-> engine.exact,
                     batch |-> engine.batch, hits |-> engine.hits, versions |-> engine.versions]
      BY <1>1, Zenon DEF IInv, EngineOK, EngineType
    <2>2. EngineType'
      BY <1>1, <2>1, Zenon DEF IInv, EngineOK, EngineType
    <2>3. SomethingLeftToCompute'
      BY <1>1, <2>1, Zenon DEF IInv, EngineOK, SomethingLeftToCompute
    <2> QED
      BY <2>1, <2>2, <2>3, Zenon DEF SchedulerOK
  <1>5. PICK next \in 0..(NBlocks + 1) : next = engine.first + engine.hits + 1 /\ next # 0
    <2>1. first + hits + 1 \in 0..(NBlocks + 1) /\ first + hits + 1 # 0
      BY <1>3
    <2> QED
      BY <1>2, <2>1, Zenon
  <1>6. slot \in [Ranks -> [Blocks -> {"empty", "good", "bad"}]] /\ wrong \in BOOLEAN
    BY Zenon DEF IInv, EngineOK, WorkersType
  <1>7. \A r \in Ranks, b \in Blocks : After(r, b) \in {"empty", "good", "bad"}
    BY <1>6, Zenon
  <1>8. ~unloaded => sound
    <2> SUFFICES ASSUME ~unloaded, NEW r \in Ranks, NEW b \in Blocks, Used(b)
                 PROVE  slot[r][b] = "good"
      BY Zenon
    <2>1. b <= engine.first + engine.hits /\ \A e \in Reported : b < e
      BY Zenon DEF Used
    <2>2. b \notin loadErrors[r]
      <3>1. b \in loadErrors[r] => b < b
        BY <2>1, Zenon DEF Reported
      <3>2. ~(b < b)
        BY Constants DEF Blocks
      <3> QED
        BY <3>1, <3>2, Zenon
    <2>3. GoodSlots
      BY Zenon DEF IInv, Unspoilt
    <2> QED
      BY <1>1, <2>1, <2>2, <2>3, Zenon DEF GoodSlots
  <1>9. sound => \A r \in Ranks, b \in Blocks : After(r, b) = "good"
    BY Zenon
  <1> HIDE DEF After, sound
  <1>10. /\ slot' \in [Ranks -> [Blocks -> {"empty", "good", "bad"}]]
         /\ \A r \in Ranks, b \in Blocks : slot'[r][b] = After(r, b)
    BY <1>1, <1>7, Zenon
  <1>11. WorkersType'
    <2>1. wrong' \in BOOLEAN /\ unloaded' \in BOOLEAN
      BY <1>1, <1>6, Zenon DEF IInv, EngineOK, WorkersType
    <2>2. worker' \in [Ranks -> [at : {"idle", "ready", "rpc"}, next : 0..(NBlocks + 1)]]
      BY <1>1, <1>5, Zenon
    <2> QED
      BY <1>1, <1>10, <2>1, <2>2, Zenon DEF WorkersType
  <1>12. ASSUME NEW r \in Ranks PROVE RankOK(r)'
    <2>1. worker'[r].at = "ready" /\ worker'[r].next # 0 /\ loadErrors'[r] = {}
      BY <1>1, <1>5, Zenon
    <2> QED
      BY <1>4, <2>1, Zenon DEF RankOK
  <1>13. /\ StoresOK' /\ CallsOK' /\ got' = got
         /\ GoodStores => GoodStores'
         /\ GoodCalls => GoodCalls'
    BY <1>1, QuietCalls, Zenon
  <1>14. sound => GoodSlots'
    BY <1>4, <1>9, <1>10, Zenon DEF GoodSlots
  <1>15. Unspoilt'
    <2>1. sound => (wrong' <=> wrong)
      BY <1>1, <1>6, Zenon
    <2> QED
      BY <1>1, <1>8, <1>13, <1>14, <2>1, Zenon DEF IInv, Unspoilt
  <1> QED
    BY <1>4, <1>11, <1>12, <1>13, <1>15, Zenon DEF EngineKept, EngineOK

LEMMA SaveBlockKeeps ==
  ASSUME IInv, NEW r \in Ranks, SaveBlock(r)
  PROVE  EngineKept
  <1>0. r \in Callers /\ r \in Shards /\ r # Loader
    BY Constants, Zenon
  <1>1. /\ engine.phase = "save" /\ worker[r].at = "ready"
        /\ UNCHANGED <<engine, slot, loadErrors, unloaded, wrong, requests>>
    BY Zenon DEF SaveBlock
  <1>2. EngineType' /\ SomethingLeftToCompute' /\ SchedulerOK'
    BY <1>1, Zenon DEF IInv, EngineOK, EngineType, SomethingLeftToCompute, SchedulerOK
  <1>3. worker[r].next # 0 /\ loadErrors[r] = {} /\ worker[r].next \in 0..(NBlocks + 1)
    BY <1>1, Zenon DEF IInv, EngineOK, RankOK, WorkersType
  <1>4. GoodSlots => GoodSlots'
    BY <1>1, Zenon DEF GoodSlots
  <1>5. CASE worker[r].next > NBlocks \/ engine.batch = "decode"
    <2>1. Done(r) /\ UNCHANGED pathVars
      BY <1>5, Zenon DEF SaveBlock
    <2>2. /\ worker' \in [Ranks -> [at : {"idle", "ready", "rpc"}, next : 0..(NBlocks + 1)]]
          /\ worker'[r].at = "idle" /\ worker'[r].next = worker[r].next
          /\ \A q \in Ranks : q # r => worker'[q] = worker[q]
      BY <2>1, StageFacts, Zenon DEF Done, IInv, EngineOK
    <2>3. WorkersType'
      BY <1>1, <2>2, Zenon DEF IInv, EngineOK, WorkersType
    <2>4. /\ StoresOK' /\ CallsOK' /\ got' = got
          /\ GoodStores => GoodStores'
          /\ GoodCalls => GoodCalls'
      BY <2>1, QuietCalls, Zenon
    <2>5. ASSUME NEW q \in Ranks PROVE RankOK(q)'
      <3>1. CASE q = r
        BY <1>1, <1>3, <2>2, <3>1, Zenon DEF RankOK
      <3>2. CASE q # r
        BY <1>1, <2>2, <2>4, <3>2, Zenon DEF IInv, EngineOK, RankOK, Plan
      <3> QED
        BY <3>1, <3>2, Zenon
    <2>6. Unspoilt'
      BY <1>1, <1>4, <2>4, Zenon DEF IInv, Unspoilt
    <2> QED
      BY <1>2, <2>3, <2>4, <2>5, <2>6, Zenon DEF EngineKept, EngineOK
  <1>6. CASE ~(worker[r].next > NBlocks \/ engine.batch = "decode")
    <2>1. PICK b \in Blocks : b = worker[r].next
      <3>1. NBlocks \in Nat
        BY Constants, Zenon
      <3>2. PICK n \in 0..(NBlocks + 1) : n = worker[r].next
        BY <1>3, Zenon
      <3>3. n # 0 /\ ~(n > NBlocks)
        BY <1>3, <1>6, <3>2, Zenon
      <3>4. n \in Blocks
        BY <3>1, <3>3 DEF Blocks
      <3> QED
        BY <3>2, <3>4, Zenon
    <2>2. PICK kv : kv = KV(r, b, 1, slot[r][b] = "good")
      BY Zenon
    <2>3. /\ FullKV(r, kv.block, kv) /\ kv.shard = r /\ kv.block = b
          /\ kv.good <=> slot[r][b] = "good"
      <3>1. (slot[r][b] = "good") \in BOOLEAN /\ Chunks[b] \in Nat /\ 1 \in Nat
        BY Constants, Zenon
      <3>2. kv \in Payload
        BY <1>0, <2>2, <3>1, Zenon DEF KV, Payload
      <3>3. kv.shard = r /\ kv.block = b /\ kv.len = Chunks[b] /\ (kv.good <=> slot[r][b] = "good")
        BY <2>2, Zenon DEF KV
      <3> QED
        BY <3>2, <3>3, Zenon DEF FullKV
    <2>4. PICK at : at = IF kv.len = 0 THEN "commit" ELSE "send"
      BY Zenon
    <2>5. PICK want : want = <<Want(b, 0)>>
      BY Zenon
    <2>6. want \in Seq(Wants) /\ Len(want) # 0
      BY <2>5 DEF Want, Wants
    <2>7. Call(r, "write", at, CacheAddr, r, want, kv) /\ worker' = [worker EXCEPT ![r].at = "rpc"]
      BY <1>6, <2>1, <2>2, <2>3, <2>4, <2>5, Zenon DEF SaveBlock, Write
    <2>8. /\ CallsOK' /\ OnlyCallOf(r) /\ UNCHANGED serverVars
          /\ kv.good => GoodCall(rpc'[r], got'[r])
      BY <1>0, <2>3, <2>4, <2>6, <2>7, Constants, CallOpens, Zenon DEF IInv, Opening
    <2>9. /\ worker' \in [Ranks -> [at : {"idle", "ready", "rpc"}, next : 0..(NBlocks + 1)]]
          /\ worker'[r].at = "rpc" /\ worker'[r].next = worker[r].next
          /\ \A q \in Ranks : q # r => worker'[q] = worker[q]
      BY <2>7, StageFacts, Zenon DEF IInv, EngineOK
    <2>10. WorkersType'
      BY <1>1, <2>9, Zenon DEF IInv, EngineOK, WorkersType
    <2>11. ASSUME NEW q \in Ranks PROVE RankOK(q)'
      <3>1. CASE q = r
        <4>1. worker[r].next <= NBlocks
          BY <2>1, Constants DEF Blocks
        <4> QED
          BY <1>1, <1>3, <2>9, <3>1, <4>1, Zenon DEF RankOK
      <3>2. CASE q # r
        BY <1>1, <2>9, <3>2, Zenon DEF IInv, EngineOK, RankOK
      <3> QED
        BY <3>1, <3>2, Zenon
    <2>12. StoresOK' /\ (GoodStores => GoodStores')
      BY <2>8, SameStores, Zenon DEF IInv
    <2>13. GoodSlots => kv.good
      BY <1>1, <2>3, Zenon DEF GoodSlots
    <2>14. GoodSlots /\ GoodCalls => GoodCalls'
      BY <1>0, <2>8, <2>13, OthersGood, Zenon
    <2>15. Unspoilt'
      BY <1>1, <1>4, <2>12, <2>14, Zenon DEF IInv, Unspoilt
    <2> QED
      BY <1>0, <1>2, <2>8, <2>10, <2>11, <2>12, <2>15, Constants, Zenon DEF EngineKept, EngineOK, OnlyCallOf
  <1> QED
    BY <1>5, <1>6, Zenon

LEMMA SavedKeeps ==
  ASSUME IInv, NEW r \in Ranks, Saved(r)
  PROVE  EngineKept
  <1>0. r \in Callers /\ r # Loader
    BY Constants, Zenon
  <1>1. /\ engine.phase = "save" /\ worker[r].at = "rpc" /\ got[r].status \in {"ok", "error"}
        /\ worker' = [worker EXCEPT ![r] = [at |-> "ready", next |-> @.next + 1]]
        /\ got' = [got EXCEPT ![r] = Nothing]
        /\ UNCHANGED <<rpc, serverVars, engine, slot, loadErrors, unloaded, wrong, requests>>
    BY Zenon DEF Saved
  <1>2. EngineType' /\ SomethingLeftToCompute' /\ SchedulerOK'
    BY <1>1, Zenon DEF IInv, EngineOK, EngineType, SomethingLeftToCompute, SchedulerOK
  <1>3. PICK next \in 0..(NBlocks + 1) : next = worker[r].next + 1 /\ next # 0
    <2>1. worker[r].next <= NBlocks
      BY <1>1, Zenon DEF IInv, EngineOK, RankOK
    <2>2. PICK n \in 0..(NBlocks + 1) : n = worker[r].next
      BY Zenon DEF IInv, EngineOK, WorkersType
    <2>3. n + 1 \in 0..(NBlocks + 1) /\ n + 1 # 0
      BY <2>1, <2>2, Constants
    <2> QED
      BY <2>2, <2>3, Zenon
  <1>4. /\ worker' \in [Ranks -> [at : {"idle", "ready", "rpc"}, next : 0..(NBlocks + 1)]]
        /\ worker'[r].at = "ready" /\ worker'[r].next # 0
        /\ \A q \in Ranks : q # r => worker'[q] = worker[q]
    <2>1. worker' = [worker EXCEPT ![r] = [at |-> "ready", next |-> next]]
      BY <1>1, <1>3, Zenon
    <2> QED
      BY <1>3, <2>1, Zenon DEF IInv, EngineOK, WorkersType
  <1>5. WorkersType'
    BY <1>1, <1>4, Zenon DEF IInv, EngineOK, WorkersType
  <1>6. CallsOK' /\ OnlyCallOf(r) /\ (GoodCall(rpc[r], got[r]) => GoodCall(rpc'[r], got'[r]))
    BY <1>0, <1>1, ConsumeKeeps, Zenon DEF IInv
  <1>7. ASSUME NEW q \in Ranks PROVE RankOK(q)'
    <2>1. loadErrors[q] = {} /\ worker[q].next # 0
      BY <1>1, Zenon DEF IInv, EngineOK, RankOK
    <2>2. CASE q = r
      BY <1>1, <1>4, <2>1, <2>2, Zenon DEF RankOK
    <2>3. CASE q # r
      BY <1>1, <1>4, <2>3, Zenon DEF IInv, EngineOK, RankOK
    <2> QED
      BY <2>2, <2>3, Zenon
  <1>8. StoresOK' /\ (GoodStores => GoodStores')
    BY <1>1, SameStores, Zenon DEF IInv
  <1>9. GoodCalls => GoodCalls'
    BY <1>0, <1>6, OthersGood, Zenon DEF GoodCalls
  <1>10. GoodSlots => GoodSlots'
    BY <1>1, Zenon DEF GoodSlots
  <1>11. Unspoilt'
    BY <1>1, <1>8, <1>9, <1>10, Zenon DEF IInv, Unspoilt
  <1> QED
    BY <1>0, <1>2, <1>5, <1>6, <1>7, <1>8, <1>11, Constants, Zenon DEF EngineKept, EngineOK, OnlyCallOf

LEMMA FinishKeeps ==
  ASSUME IInv, Finish
  PROVE  EngineKept
  <1>1. /\ engine.phase = "save" /\ \A r \in Ranks : worker[r].at = "idle"
        /\ engine' = NoRequest
        /\ slot' = [r \in Ranks |-> [b \in Blocks |-> "empty"]]
        /\ UNCHANGED <<pathVars, worker, loadErrors, unloaded, wrong, requests>>
    BY Zenon DEF Finish
  <1>2. engine'.phase = "idle"
    BY <1>1, Zenon DEF NoRequest
  <1>3. EngineType'
    <2>1. NBlocks \in Nat /\ requests' \in 0..MaxRequests
      BY <1>1, Constants, Zenon DEF IInv, EngineOK, EngineType
    <2>2. <<>> \in Seq(Nat) /\ Len(<<>>) = 0
      OBVIOUS
    <2> QED
      BY <1>1, <2>1, <2>2 DEF NoRequest, EngineType, Batches
  <1>4. SomethingLeftToCompute' /\ SchedulerOK'
    BY <1>2, Zenon DEF SomethingLeftToCompute, SchedulerOK
  <1>5. WorkersType'
    BY <1>1, Zenon DEF IInv, EngineOK, WorkersType
  <1>6. ASSUME NEW r \in Ranks PROVE RankOK(r)'
    BY <1>1, <1>2, Zenon DEF IInv, EngineOK, RankOK
  <1>7. /\ StoresOK' /\ CallsOK' /\ got' = got
        /\ GoodStores => GoodStores'
        /\ GoodCalls => GoodCalls'
    BY <1>1, QuietCalls, Zenon
  <1>8. GoodSlots'
    BY <1>2, Zenon DEF GoodSlots
  <1>9. Unspoilt'
    BY <1>1, <1>7, <1>8, Zenon DEF IInv, Unspoilt
  <1> QED
    BY <1>3, <1>4, <1>5, <1>6, <1>7, <1>9, Zenon DEF EngineKept, EngineOK

LEMMA EngineStepKeeps ==
  ASSUME IInv, ConnNext, UNCHANGED load
  PROVE  IInv'
  <1>1. EngineKept
    BY QueryKeeps, MatchKeeps, StartLoadKeeps, CopyInKeeps, ForwardKeeps, SaveBlockKeeps, SavedKeeps,
       FinishKeeps, Zenon DEF ConnNext, Engine
  <1>2. LoaderOK'
    BY <1>1, LoaderStays, Zenon DEF IInv, EngineKept
  <1> QED
    BY <1>1, <1>2, Zenon DEF IInv, EngineKept
-----------------------------------------------------------------------------
(***************************************************************************)
(* The worker of the load generator.                                       *)
(***************************************************************************)
\* What a step of the worker keeps.
LoaderKept ==
  /\ StoresOK' /\ CallsOK' /\ LoaderOK'
  /\ GoodStores /\ GoodCalls => GoodStores' /\ GoodCalls'
  /\ \A r \in Ranks : got'[r] = got[r]

Loads(at, conn, i, run, reqs, hits, writes) ==
  [at |-> at, conn |-> conn, i |-> i, run |-> run, requests |-> reqs, hits |-> hits,
   writes |-> writes, violations |-> 0]

LEMMA LoadFacts ==
  ASSUME LoaderOK
  PROVE  /\ load.conn \in DOMAIN Conns /\ load.i \in 1..(NBlocks + 1) /\ load.run \in 0..NBlocks
         /\ load.requests \in Nat /\ load.hits \in Nat /\ load.writes \in Nat /\ load.violations = 0
         /\ load.i \in Nat /\ 1 \in DOMAIN Conns /\ NBlocks \in Nat
  <1>1. /\ load.conn \in DOMAIN Conns /\ load.i \in 1..(NBlocks + 1) /\ load.run \in 0..NBlocks
        /\ load.requests \in Nat /\ load.hits \in Nat /\ load.writes \in Nat /\ load.violations = 0
    BY Zenon DEF LoaderOK, LoadType, NoViolation
  <1>2. NBlocks \in Nat /\ 1 \in DOMAIN Conns
    BY Constants
  <1> QED
    BY <1>1, <1>2

\* The worker takes the answer it has waited for.
LEMMA ConsumeAnswer ==
  ASSUME IInv, rpc[Loader].kind = "none", Consume, Keeping
  PROVE  /\ StoresOK' /\ CallsOK' /\ \A r \in Ranks : got'[r] = got[r]
         /\ GoodStores /\ GoodCalls => GoodStores' /\ GoodCalls'
  <1>1. got' = [got EXCEPT ![Loader] = Nothing] /\ UNCHANGED rpc /\ UNCHANGED serverVars
    BY Zenon DEF Consume, Keeping
  <1>2. got[Loader].status # "pending"
    BY Constants, Zenon DEF IInv, CallsOK, CallOK
  <1>3. CallsOK' /\ OnlyCallOf(Loader)
          /\ (GoodCall(rpc[Loader], got[Loader]) => GoodCall(rpc'[Loader], got'[Loader]))
    BY <1>1, <1>2, Constants, ConsumeKeeps, Zenon DEF IInv
  <1>4. StoresOK' /\ (GoodStores => GoodStores')
    BY <1>1, SameStores, Zenon DEF IInv
  <1>5. GoodCalls => GoodCalls'
    BY <1>3, Constants, OthersGood, Zenon DEF GoodCalls
  <1> QED
    BY <1>3, <1>4, <1>5, Constants, Zenon DEF OnlyCallOf

LEMMA BeginRequestKeeps ==
  ASSUME IInv, BeginRequest
  PROVE  LoaderKept
  <1>1. load' = [load EXCEPT !.at = "dial", !.requests = @ + 1, !.conn = 1, !.hits = 0, !.writes = 0]
    BY Zenon DEF BeginRequest
  <1>2. load' = Loads("dial", 1, load.i, load.run, load.requests + 1, 0, 0)
    BY <1>1, LoadFacts, Zenon DEF IInv, LoaderOK, LoadType, Loads
  <1>3. load.requests + 1 \in Nat /\ 0 \in Nat
    BY LoadFacts DEF IInv
  <1>4. LoaderOK'
    BY <1>2, <1>3, LoadFacts, Zenon DEF IInv, LoaderOK, LoadType, NoViolation, Loads
  <1> QED
    BY <1>4, QuietCalls, Zenon DEF LoaderKept, BeginRequest

LEMMA EndRequestKeeps ==
  ASSUME IInv, EndRequest
  PROVE  LoaderKept
  <1>1. load' = [load EXCEPT !.at = "idle"]
    BY Zenon DEF EndRequest
  <1>2. load' = Loads("idle", load.conn, load.i, load.run, load.requests, load.hits, load.writes)
    BY <1>1, LoadFacts, Zenon DEF IInv, LoaderOK, LoadType, Loads
  <1>3. LoaderOK'
    BY <1>2, LoadFacts, Zenon DEF IInv, LoaderOK, LoadType, NoViolation, Loads
  <1> QED
    BY <1>3, QuietCalls, Zenon DEF LoaderKept, EndRequest

\* The worker makes a call.
LEMMA LoaderCalls ==
  ASSUME IInv, NEW kind, NEW at, NEW want \in Seq(Wants), Len(want) # 0, NEW kv,
         Opening(kind, at, Loader, want, kv), kv = NoKV \/ kv.good,
         Call(Loader, kind, at, Conns[load.conn], Loader, want, kv)
  PROVE  /\ StoresOK' /\ CallsOK' /\ \A r \in Ranks : got'[r] = got[r]
         /\ GoodStores /\ GoodCalls => GoodStores' /\ GoodCalls'
         /\ got'[Loader].kind = kind /\ got'[Loader].want = want
  <1>1. PICK server \in Servers : server = Conns[load.conn]
    BY LoadFacts, Constants, Zenon DEF IInv
  <1>2. /\ CallsOK' /\ OnlyCallOf(Loader) /\ UNCHANGED serverVars
        /\ got'[Loader].kind = kind /\ got'[Loader].want = want
        /\ GoodCall(rpc'[Loader], got'[Loader])
    BY <1>1, Constants, CallOpens, Zenon DEF IInv
  <1>3. StoresOK' /\ (GoodStores => GoodStores')
    BY <1>2, SameStores, Zenon DEF IInv
  <1>4. GoodCalls => GoodCalls'
    BY <1>2, Constants, OthersGood, Zenon
  <1> QED
    BY <1>2, <1>3, <1>4, Constants, Zenon DEF OnlyCallOf

LEMMA CallLookupKeeps ==
  ASSUME IInv, CallLookup
  PROVE  LoaderKept
  <1>1. load' = [load EXCEPT !.at = "lookup"]
    BY Zenon DEF CallLookup
  <1>2. load' = Loads("lookup", load.conn, load.i, load.run, load.requests, load.hits, load.writes)
    BY <1>1, LoadFacts, Zenon DEF IInv, LoaderOK, LoadType, Loads
  <1>3. Call(Loader, "lookup", "peek", Conns[load.conn], Loader, Prompt, NoKV)
    BY Zenon DEF CallLookup, Lookup, Prompt
  <1>4. /\ StoresOK' /\ CallsOK' /\ \A r \in Ranks : got'[r] = got[r]
        /\ GoodStores /\ GoodCalls => GoodStores' /\ GoodCalls'
        /\ got'[Loader].kind = "lookup" /\ got'[Loader].want = Prompt
    BY <1>3, PromptFacts, LoaderCalls, Zenon DEF Opening
  <1>5. LoaderOK'
    BY <1>2, <1>4, LoadFacts, Zenon DEF IInv, LoaderOK, LoadType, NoViolation, Loads, Prompt
  <1> QED
    BY <1>4, <1>5, Zenon DEF LoaderKept

LEMMA CallFetchKeeps ==
  ASSUME IInv, CallFetch
  PROVE  LoaderKept
  <1>1. load' = [load EXCEPT !.at = "fetch"] /\ load.i <= load.run
    BY Zenon DEF CallFetch
  <1>2. load' = Loads("fetch", load.conn, load.i, load.run, load.requests, load.hits, load.writes)
    BY <1>1, LoadFacts, Zenon DEF IInv, LoaderOK, LoadType, Loads
  <1>3. load.i \in Blocks
    BY <1>1, LoadFacts DEF IInv, Blocks
  <1>4. PICK want : want = <<Want(load.i, 0)>>
    BY Zenon
  <1>5. want \in Seq(Wants) /\ Len(want) = 1
    BY <1>3, <1>4 DEF Want, Wants
  <1>6. Call(Loader, "fetch", "resolve", Conns[load.conn], Loader, want, NoKV)
    BY <1>4, Zenon DEF CallFetch, Fetch
  <1>7. /\ StoresOK' /\ CallsOK' /\ \A r \in Ranks : got'[r] = got[r]
        /\ GoodStores /\ GoodCalls => GoodStores' /\ GoodCalls'
        /\ got'[Loader].kind = "fetch" /\ got'[Loader].want = want
    <2>1. Len(want) # 0 /\ Opening("fetch", "resolve", Loader, want, NoKV)
      BY <1>5 DEF Opening
    <2> QED
      BY <1>5, <1>6, <2>1, LoaderCalls, Zenon
  <1>8. load'.i = load.i /\ load'.run = load.run /\ load'.at = "fetch" /\ load'.violations = 0
    BY <1>2, Zenon DEF Loads
  <1>9. LoadType'
    BY <1>2, LoadFacts, Zenon DEF IInv, LoadType, Loads
  <1>10. LoaderOK'
    BY <1>1, <1>4, <1>7, <1>8, <1>9, Zenon DEF LoaderOK, NoViolation
  <1> QED
    BY <1>7, <1>10, Zenon DEF LoaderKept

LEMMA CallWriteKeeps ==
  ASSUME IInv, CallWrite
  PROVE  LoaderKept
  <1>1. load' = [load EXCEPT !.at = "write"] /\ load.i <= NBlocks
    BY Zenon DEF CallWrite
  <1>2. load' = Loads("write", load.conn, load.i, load.run, load.requests, load.hits, load.writes)
    BY <1>1, LoadFacts, Zenon DEF IInv, LoaderOK, LoadType, Loads
  <1>3. PICK b \in Blocks : b = load.i
    BY <1>1, LoadFacts DEF IInv, Blocks
  <1>4. PICK kv : kv = KV(Loader, b, 1, TRUE)
    BY Zenon
  <1>5. FullKV(Loader, kv.block, kv) /\ kv.shard = Loader /\ kv.block = b /\ kv.good
    <2>1. Chunks[b] \in Nat /\ 1 \in Nat
      BY Constants, Zenon
    <2>2. kv \in Payload
      BY <1>4, <2>1, Constants, Zenon DEF KV, Payload
    <2>3. kv.shard = Loader /\ kv.block = b /\ kv.len = Chunks[b] /\ kv.good
      BY <1>4, Zenon DEF KV
    <2> QED
      BY <2>2, <2>3, Zenon DEF FullKV
  <1>6. PICK at : at = IF kv.len = 0 THEN "commit" ELSE "send"
    BY Zenon
  <1>7. PICK want : want = <<Want(b, 0)>>
    BY Zenon
  <1>8. want \in Seq(Wants) /\ Len(want) # 0
    BY <1>7 DEF Want, Wants
  <1>9. Call(Loader, "write", at, Conns[load.conn], Loader, want, kv)
    BY <1>3, <1>4, <1>5, <1>6, <1>7, Zenon DEF CallWrite, Write
  <1>10. /\ StoresOK' /\ CallsOK' /\ \A r \in Ranks : got'[r] = got[r]
         /\ GoodStores /\ GoodCalls => GoodStores' /\ GoodCalls'
    BY <1>5, <1>6, <1>8, <1>9, LoaderCalls, Zenon DEF Opening
  <1>11. LoaderOK'
    BY <1>1, <1>2, LoadFacts, Zenon DEF IInv, LoaderOK, LoadType, NoViolation, Loads
  <1> QED
    BY <1>10, <1>11, Zenon DEF LoaderKept

LEMMA FailoverKeeps ==
  ASSUME IInv, Failover
  PROVE  LoaderKept
  <1>1. rpc[Loader].kind = "none" /\ Consume /\ Keeping
    BY Zenon DEF Failover, Returned
  <1>2. LoaderOK'
    <2>1. CASE load.conn < Len(Conns)
      <3>1. load' = [load EXCEPT !.at = "dial", !.conn = @ + 1]
        BY <2>1, Zenon DEF Failover
      <3>2. load' = Loads("dial", load.conn + 1, load.i, load.run, load.requests, load.hits, load.writes)
        BY <3>1, LoadFacts, Zenon DEF IInv, LoaderOK, LoadType, Loads
      <3>3. load.conn + 1 \in DOMAIN Conns
        <4>1. DOMAIN Conns = 1..Len(Conns) /\ Len(Conns) \in Nat
          BY Constants
        <4> QED
          BY <2>1, <4>1, LoadFacts DEF IInv
      <3> QED
        BY <3>2, <3>3, LoadFacts, Zenon DEF IInv, LoaderOK, LoadType, NoViolation, Loads
    <2>2. CASE ~(load.conn < Len(Conns))
      <3>1. load' = [load EXCEPT !.at = "idle"]
        BY <2>2, Zenon DEF Failover
      <3>2. load' = Loads("idle", load.conn, load.i, load.run, load.requests, load.hits, load.writes)
        BY <3>1, LoadFacts, Zenon DEF IInv, LoaderOK, LoadType, Loads
      <3> QED
        BY <3>2, LoadFacts, Zenon DEF IInv, LoaderOK, LoadType, NoViolation, Loads
    <2> QED
      BY <2>1, <2>2, Zenon
  <1> QED
    BY <1>1, <1>2, ConsumeAnswer, Zenon DEF LoaderKept

LEMMA LookedKeeps ==
  ASSUME IInv, Looked
  PROVE  LoaderKept
  <1> DEFINE present == got[Loader].presence
             Longest(n) == /\ \A b \in 1..n : present[b] # 0
                           /\ n < NBlocks => present[n + 1] = 0
  <1>1. rpc[Loader].kind = "none" /\ Consume /\ Keeping
    BY Zenon DEF Looked, Returned
  <1>2. PICK run : run = CHOOSE n \in 0..NBlocks : Longest(n)
    BY Zenon
  <1>3. load' = [load EXCEPT !.at = "next", !.i = 1, !.run = run]
    BY <1>2, Zenon DEF Looked
  <1>4. run \in 0..NBlocks
    <2>1. NBlocks \in Nat
      BY Constants, Zenon
    <2>2. PICK n \in 0..NBlocks : /\ \A i \in 1..n : i \in {b \in 1..NBlocks : present[b] # 0}
                                  /\ n < NBlocks => n + 1 \notin {b \in 1..NBlocks : present[b] # 0}
      BY <2>1, LongestRun, Zenon
    <2>3. n < NBlocks => present[n + 1] = 0
      BY <2>1, <2>2
    <2>4. Longest(n)
      BY <2>2, <2>3, Zenon
    <2> HIDE DEF Longest
    <2> QED
      BY <1>2, <2>4, Zenon
  <1>5. load' = Loads("next", load.conn, 1, run, load.requests, load.hits, load.writes)
    BY <1>3, LoadFacts, Zenon DEF IInv, LoaderOK, LoadType, Loads
  <1>6. 1 \in 1..(NBlocks + 1)
    BY Constants
  <1>7. LoaderOK'
    BY <1>4, <1>5, <1>6, LoadFacts, Zenon DEF IInv, LoaderOK, LoadType, NoViolation, Loads
  <1> QED
    BY <1>1, <1>7, ConsumeAnswer, Zenon DEF LoaderKept

LEMMA WholeIsVerified ==
  ASSUME NEW s, NEW b, NEW buf, WholeBlock(s, b, buf)
  PROVE  Verified(buf, b)
  <1>1. ASSUME NEW k \in DOMAIN buf PROVE buf[k].i = k /\ buf[k].kv.block = b
    BY DEF WholeBlock
  <1> QED
    BY <1>1, Zenon DEF WholeBlock, Verified

\* What the worker compares is the whole payload of the block it asked for.
LEMMA FetchedIsVerified ==
  ASSUME IInv, load.at = "fetch", got[Loader].status = "ok"
  PROVE  Verified(got[Loader].buf[1], load.i)
  <1>1. got[Loader] \in Gots /\ ReceivedOK(Loader, got[Loader])
    BY Constants, Zenon DEF IInv, CallsOK, CallOK
  <1>2. got[Loader].kind = "fetch" /\ got[Loader].want = <<Want(load.i, 0)>>
    BY Zenon DEF IInv, LoaderOK
  <1>3. Len(got[Loader].want) = 1 /\ got[Loader].want[1].block = load.i
    BY <1>2 DEF Want
  <1>4. WholeBlock(Loader, load.i, got[Loader].buf[1])
    BY <1>1, <1>2, <1>3 DEF ReceivedOK
  <1> QED
    BY <1>4, WholeIsVerified, Zenon

LEMMA FetchedKeeps ==
  ASSUME IInv, Fetched
  PROVE  LoaderKept
  <1>1. rpc[Loader].kind = "none" /\ load.at = "fetch" /\ Consume /\ Keeping
    BY Zenon DEF Fetched, Returned
  <1>2. load.i <= load.run
    BY <1>1, Zenon DEF IInv, LoaderOK
  <1>3. load.i + 1 \in 1..(NBlocks + 1) /\ load.i - 1 \in 0..NBlocks /\ load.hits + 1 \in Nat
    BY <1>2, LoadFacts DEF IInv
  <1>4. CASE got[Loader].status = "ok"
    <2>1. load' = [load EXCEPT !.at = "next", !.i = @ + 1, !.hits = @ + 1, !.violations = @]
      BY <1>1, <1>4, FetchedIsVerified, Zenon DEF Fetched
    <2>2. load' = Loads("next", load.conn, load.i + 1, load.run, load.requests, load.hits + 1, load.writes)
      BY <2>1, LoadFacts, Zenon DEF IInv, LoaderOK, LoadType, Loads
    <2>3. LoaderOK'
      BY <1>3, <2>2, LoadFacts, Zenon DEF IInv, LoaderOK, LoadType, NoViolation, Loads
    <2> QED
      BY <1>1, <2>3, ConsumeAnswer, Zenon DEF LoaderKept
  <1>5. CASE got[Loader].status # "ok"
    <2>1. load' = [load EXCEPT !.at = "next", !.run = load.i - 1]
      BY <1>5, Zenon DEF Fetched
    <2>2. load' = Loads("next", load.conn, load.i, load.i - 1, load.requests, load.hits, load.writes)
      BY <2>1, LoadFacts, Zenon DEF IInv, LoaderOK, LoadType, Loads
    <2>3. LoaderOK'
      BY <1>3, <2>2, LoadFacts, Zenon DEF IInv, LoaderOK, LoadType, NoViolation, Loads
    <2> QED
      BY <1>1, <2>3, ConsumeAnswer, Zenon DEF LoaderKept
  <1> QED
    BY <1>4, <1>5, Zenon

LEMMA WroteKeeps ==
  ASSUME IInv, Wrote
  PROVE  LoaderKept
  <1>1. rpc[Loader].kind = "none" /\ load.at = "write" /\ Consume /\ Keeping
    BY Zenon DEF Wrote, Returned
  <1>2. load.i <= NBlocks
    BY <1>1, Zenon DEF IInv, LoaderOK
  <1>3. load.i + 1 \in 1..(NBlocks + 1) /\ load.writes + 1 \in Nat
    BY <1>2, LoadFacts DEF IInv
  <1>4. load' = [load EXCEPT !.at = "next", !.i = @ + 1, !.writes = @ + 1]
    BY Zenon DEF Wrote
  <1>5. load' = Loads("next", load.conn, load.i + 1, load.run, load.requests, load.hits, load.writes + 1)
    BY <1>4, LoadFacts, Zenon DEF IInv, LoaderOK, LoadType, Loads
  <1>6. LoaderOK'
    BY <1>3, <1>5, LoadFacts, Zenon DEF IInv, LoaderOK, LoadType, NoViolation, Loads
  <1> QED
    BY <1>1, <1>6, ConsumeAnswer, Zenon DEF LoaderKept

LEMMA LoadStepKeeps ==
  ASSUME IInv, LoadNext, UNCHANGED connVars
  PROVE  IInv'
  <1>1. LoaderKept
    BY BeginRequestKeeps, CallLookupKeeps, FailoverKeeps, LookedKeeps, CallFetchKeeps, CallWriteKeeps,
       EndRequestKeeps, FetchedKeeps, WroteKeeps, Zenon DEF LoadNext
  <1>2. EngineOK' /\ (GoodSlots => GoodSlots')
    BY <1>1, EngineStays, Zenon DEF IInv, LoaderKept
  <1>3. Unspoilt'
    BY <1>1, <1>2, Zenon DEF IInv, Unspoilt, LoaderKept, connVars
  <1> QED
    BY <1>1, <1>2, <1>3, Zenon DEF IInv, LoaderKept
-----------------------------------------------------------------------------
(***************************************************************************)
(* The theorems.                                                           *)
(***************************************************************************)
LEMMA InitIInv == Init => IInv
  <1> SUFFICES ASSUME Init PROVE IInv
    BY Zenon
  <1>0. NBlocks \in Nat /\ NBlocks # 0 /\ 1 \in DOMAIN Conns /\ MaxRequests \in Nat
    BY Constants
  <1>1. StoresOK
    <2>1. Absent \in Entry
      BY Zenon DEF Entry
    <2>2. \A n \in Servers, s \in Shards, b \in Blocks : hot[n][s][b] = Absent /\ cold[s][b] = Absent
      BY Zenon DEF Init, PathInit
    <2>3. HotOK /\ ColdOK
      BY <2>1, <2>2, Zenon DEF Init, PathInit, HotOK, ColdOK, EntryOK
    <2>4. EnvOK
      <3>1. MaxLosses \in Nat /\ \A s \in Shards : 0 <= PeerWrites[s]
        BY ReadPathAssumption
      <3>2. /\ env.peerWrites = [s \in Shards |-> 0] /\ env.losses = 0
            /\ env \in [peerWrites : [Shards -> Nat], losses : Nat]
        BY Zenon DEF Init, PathInit
      <3> QED
        BY <3>1, <3>2 DEF EnvOK
    <2> QED
      BY <2>3, <2>4, Zenon DEF Init, PathInit, StoresOK, OrphansOK
  <1>2. CallsOK
    <2>1. ASSUME NEW c \in Callers PROVE CallOK(c, NoCall, Nothing)
      BY NoCallFacts, NothingFacts, Zenon DEF CallOK, ReceivedOK
    <2> QED
      BY NoCallFacts, NothingFacts, Zenon DEF Init, PathInit, CallsOK, CallOK, ReceivedOK
  <1>3. EngineOK
    <2>1. <<>> \in Seq(Nat) /\ Len(<<>>) = 0
      OBVIOUS
    <2>2. engine.phase = "idle" /\ EngineType
      BY <1>0, <2>1 DEF Init, ConnInit, NoRequest, EngineType, Batches
    <2>3. WorkersType
      <3>1. 0 \in 0..NBlocks + 1
        BY <1>0
      <3>2. worker \in [Ranks -> [at : {"idle", "ready", "rpc"}, next : 0..NBlocks + 1]]
        BY <3>1, Zenon DEF Init, ConnInit
      <3>3. /\ slot \in [Ranks -> [Blocks -> {"empty", "good", "bad"}]]
            /\ loadErrors \in [Ranks -> SUBSET Blocks]
        BY Zenon DEF Init, ConnInit
      <3>4. unloaded \in BOOLEAN /\ wrong \in BOOLEAN
        BY Zenon DEF Init, ConnInit
      <3> QED
        BY <3>2, <3>3, <3>4, Zenon DEF WorkersType
    <2>4. ASSUME NEW r \in Ranks PROVE RankOK(r)
      BY <2>2, Zenon DEF Init, ConnInit, RankOK
    <2> QED
      BY <2>2, <2>3, <2>4, Zenon DEF EngineOK, SchedulerOK, SomethingLeftToCompute
  <1>4. LoaderOK
    <2>1. load.at = "idle" /\ load.violations = 0
      BY Zenon DEF Init, LoadInit
    <2>2. LoadType
      BY <1>0 DEF Init, LoadInit, LoadType
    <2> QED
      BY <2>1, <2>2, Zenon DEF LoaderOK, NoViolation
  <1>5. Unspoilt
    <2>1. GoodStores
      BY Zenon DEF Init, PathInit, GoodStores, GoodHot, GoodCold, GoodOrphans, GoodEntry
    <2>2. GoodCalls
      BY NoCallFacts, NothingFacts DEF Init, PathInit, GoodCalls, GoodCall
    <2>3. GoodSlots /\ ~wrong
      BY Zenon DEF Init, ConnInit, NoRequest, GoodSlots
    <2> QED
      BY <2>1, <2>2, <2>3, Zenon DEF Unspoilt
  <1> QED
    BY <1>1, <1>2, <1>3, <1>4, <1>5, Zenon DEF IInv

LEMMA RunningFacts == Running \subseteq Callers /\ Running \subseteq Shards
  BY Constants, Zenon DEF Running

LEMMA StepIInv == IInv /\ [Next]_vars => IInv'
  <1> SUFFICES ASSUME IInv, [Next]_vars PROVE IInv'
    BY Zenon
  <1>1. CASE EngineStep
    BY <1>1, EngineStepKeeps, Zenon DEF EngineStep
  <1>2. CASE LoadStep
    BY <1>2, LoadStepKeeps, Zenon DEF LoadStep
  <1>3. CASE CallStep
    BY <1>3, RunningFacts, CallStepKeeps, Zenon DEF CallStep
  <1>4. CASE StoreStep
    BY <1>4, RunningFacts, StoreStepKeeps, Zenon DEF StoreStep
  <1>5. CASE UNCHANGED vars
    <2>1. UNCHANGED pathVars /\ UNCHANGED connVars /\ UNCHANGED load
      BY <1>5, Zenon DEF vars
    <2>2. /\ StoresOK' /\ CallsOK' /\ got' = got
          /\ GoodStores => GoodStores'
          /\ GoodCalls => GoodCalls'
      BY <2>1, QuietCalls, Zenon
    <2>3. EngineOK' /\ (GoodSlots => GoodSlots') /\ LoaderOK'
      BY <2>1, <2>2, EngineStays, LoaderStays, Zenon DEF IInv
    <2>4. Unspoilt'
      BY <2>1, <2>2, <2>3, Zenon DEF IInv, Unspoilt, connVars
    <2> QED
      BY <2>2, <2>3, <2>4, Zenon DEF IInv
  <1> QED
    BY <1>1, <1>2, <1>3, <1>4, <1>5, Zenon DEF Next

THEOREM InductiveInvariant == Spec => []IInv
  <1> QED
    BY InitIInv, StepIInv, PTL DEF Spec

\* What a client accepts for a block is the whole payload of one write of that block under
\* the model ID it asked for: streamKV and streamBatchKV send the snapshot they were given
\* whatever becomes of the entry, and batch_fetch and fetch take only what came to its last
\* frame.
THEOREM WholeOrNothing == Spec => []AcceptedIsWhole
  <1>1. IInv => AcceptedIsWhole
    <2> SUFFICES ASSUME IInv, NEW c \in Callers, got[c].kind \in {"fetch", "batch"},
                        NEW i \in DOMAIN got[c].want, Accepted(c, i)
                 PROVE  WholeBlock(c, got[c].want[i].block, got[c].buf[i])
      BY Zenon DEF AcceptedIsWhole, WholeBlock
    <2>1. got[c] \in Gots /\ ReceivedOK(c, got[c])
      BY Zenon DEF IInv, CallsOK, CallOK
    <2>2. i \in 1..Len(got[c].want)
      BY <2>1 DEF Gots
    <2> QED
      BY <2>1, <2>2, Zenon DEF ReceivedOK, Accepted
  <1> QED
    BY <1>1, InductiveInvariant, PTL

\* get_num_new_matched_tokens never reports a match of the whole of an exact prompt.
THEOREM AlwaysSomethingToCompute == Spec => []SomethingLeftToCompute
  <1>1. IInv => SomethingLeftToCompute
    BY Zenon DEF IInv, EngineOK
  <1> QED
    BY <1>1, InductiveInvariant, PTL

\* As long as _load_plan loaded or reported every block that was promised, no forward pass
\* used a block that was not there, and no payload in a store, in the bucket or on its way
\* is spoilt: what wait_for_save writes is as good as what was computed.
THEOREM PromisesKeptSpoilNothing == Spec => []OnlyUnloadedSpoils
  <1>1. IInv => OnlyUnloadedSpoils
    BY Constants, Zenon
    DEF IInv, Unspoilt, OnlyUnloadedSpoils, GoodStores, GoodHot, GoodCold, GoodOrphans, GoodEntry
  <1> QED
    BY <1>1, InductiveInvariant, PTL

\* The verifying load generator never counts a violation.
THEOREM VerifiedReads == Spec => []NoViolation
  <1>1. IInv => NoViolation
    BY Zenon DEF IInv, LoaderOK
  <1> QED
    BY <1>1, InductiveInvariant, PTL

\* Type correctness of the read path and of both its clients: in particular a client waits
\* for an answer exactly while its handler runs, and no handler is past its blocks or its
\* chunks.
THEOREM ClientsTypeCorrect == Spec => []TypeOK
  <1>1. ASSUME IInv PROVE PathTypeOK
    <2>1. ASSUME NEW c \in Callers
          PROVE  /\ rpc[c].kind \in {"none", "lookup", "fetch", "batch", "write"}
                 /\ rpc[c].idx \in 0..Len(rpc[c].want) /\ rpc[c].sent \in 0..rpc[c].kv.len
                 /\ got[c].status \in {"none", "pending", "ok", "notfound", "error"}
                 /\ (got[c].status = "pending") <=> (rpc[c].kind # "none")
      <3>1. rpc[c] \in Rpcs /\ got[c] \in Gots /\ CallOK(c, rpc[c], got[c])
        BY <1>1, CallFacts, Zenon DEF IInv
      <3>2. rpc[c].kind \in {"none", "lookup", "fetch", "batch", "write"}
        BY <3>1, Zenon DEF Rpcs
      <3>3. got[c].status \in {"none", "pending", "ok", "notfound", "error"}
        BY <3>1, Zenon DEF Gots
      <3>4. (got[c].status = "pending") <=> (rpc[c].kind # "none")
        BY <3>1, Zenon DEF CallOK, UntilNow
      <3>5. CASE rpc[c].kind = "none"
        <4>1. rpc[c] = NoCall
          BY <3>1, <3>5, Zenon DEF CallOK
        <4>2. rpc[c].idx = 0 /\ rpc[c].want = <<>> /\ rpc[c].sent = 0 /\ rpc[c].kv.len = 0
          BY <4>1 DEF NoCall, NoKV
        <4>3. 0 \in 0..Len(<<>>) /\ 0 \in 0..0
          OBVIOUS
        <4> QED
          BY <3>2, <3>3, <3>4, <4>2, <4>3, Zenon
      <3>6. CASE rpc[c].kind # "none"
        <4>1. HandlerOK(c, rpc[c])
          BY <3>1, <3>6, Zenon DEF CallOK
        <4>2. rpc[c].idx \in 0..Len(rpc[c].want)
          <5>1. rpc[c].want \in Seq(Wants) /\ rpc[c].idx \in 1..Len(rpc[c].want)
            BY <3>1, <4>1, Zenon DEF Rpcs, HandlerOK
          <5> QED
            BY <5>1
        <4>3. rpc[c].sent \in 0..rpc[c].kv.len
          <5>1. rpc[c].sent \in Nat /\ rpc[c].kv \in Payload \cup {NoKV}
            BY <3>1, Zenon DEF Rpcs
          <5>2. rpc[c].kv.len \in Nat
            BY <5>1 DEF Payload, NoKV
          <5>3. rpc[c].sent = 0 \/ rpc[c].sent < rpc[c].kv.len \/ rpc[c].sent = rpc[c].kv.len
            BY <3>2, <3>6, <4>1, Zenon DEF HandlerOK
          <5> QED
            BY <5>1, <5>2, <5>3
        <4> QED
          BY <3>2, <3>3, <3>4, <4>2, <4>3, Zenon
      <3> QED
        BY <3>5, <3>6, Zenon
    <2> QED
      BY <1>1, <2>1, Zenon DEF PathTypeOK, IInv, StoresOK, HotOK, ColdOK, EnvOK
  <1>2. ASSUME IInv PROVE ConnTypeOK
    BY <1>2, Zenon DEF IInv, EngineOK, EngineType, WorkersType, ConnTypeOK
  <1>3. ASSUME IInv PROVE LoadTypeOK
    BY <1>3, LoadFacts, Zenon DEF IInv, LoaderOK, LoadType, LoadTypeOK
  <1>4. Init => deployed \in Deployments
    BY Zenon DEF Init
  <1>5. deployed \in Deployments /\ [Next]_vars => (deployed \in Deployments)'
    BY Zenon DEF Next, vars
  <1>6. Spec => [](deployed \in Deployments)
    BY <1>4, <1>5, PTL DEF Spec
  <1>7. IInv /\ deployed \in Deployments => TypeOK
    BY <1>1, <1>2, <1>3, Zenon DEF TypeOK
  <1> QED
    BY <1>6, <1>7, InductiveInvariant, PTL
=============================================================================
