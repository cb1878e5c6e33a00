--------------------------- MODULE RelayTerminalsProofs ---------------------------
(***************************************************************************)
(* Proofs about RelayTerminals, for any number of windows, shells,         *)
(* connections and chunks.                                                 *)
(***************************************************************************)
EXTENDS RelayTerminals, SequenceTheorems, TLAPS

Down == [kind : {"open", "input", "close"}, id : Viewers]
UpFrames == [kind : {"exit", "error"}, id : Viewers]
            \cup [kind : {"output"}, id : Viewers, chunk : Chunk]

In(q) == {q[i] : i \in DOMAIN q}

\* At most MaxReplay chunks, and none without a session.
StoredType(s) ==
  /\ s \in [id : Ids, replay : Seq(Chunk)] /\ Len(s.replay) <= MaxReplay
  /\ s.id = Nobody => s.replay = <<>>

WindowTypes ==
  /\ view \in [Viewers -> {"none", "live", "left", "over"}]
  /\ idOf \in [Viewers -> Ids]
  /\ seen \in [Viewers -> Seq(Chunk)]
StoreTypes ==
  /\ buffer \in [Viewers -> [replay : Seq(Chunk), seeded : BOOLEAN]]
  /\ \A v \in Viewers : Len(buffer[v].replay) <= MaxReplay
  /\ StoredType(row) /\ StoredType(pending)
ClockTypes ==
  /\ alarm \in {"none", "later", "soon"} /\ aged \in BOOLEAN /\ slept \in BOOLEAN
  /\ events \in 0 .. MaxEvents
LinkTypes ==
  /\ socket \in [Conns -> {"none", "accepted", "active", "replaced", "closed"}]
  /\ dropping \subseteq Conns /\ conn \in 0 .. MaxConns
FrameTypes ==
  /\ toCli \in [Conns -> Seq(Down)]
  /\ toGateway \in [Conns -> Seq(UpFrames)]
ShellTypes ==
  /\ shell \in [id : Ids, gen : 0 .. MaxShells, out : 0 .. MaxOut]
  /\ shell.id = Nobody => shell = NoShell
  /\ shell.id # Nobody => shell.gen \in 1 .. shells
  /\ shells \in 0 .. MaxShells /\ ending \subseteq Viewers
GateTypes == held \subseteq Viewers /\ crossed \in BOOLEAN
Types ==
  WindowTypes /\ StoreTypes /\ ClockTypes /\ LinkTypes /\ FrameTypes /\ ShellTypes /\ GateTypes

\* The machine takes one frame, the oldest or another.
Served == Handle \/ Overtakes

\* One window at a time, of the session that is stored; output is queued
\* only for nobody.
IdsInv ==
  /\ \A v, w \in Live : v = w
  /\ \A v \in Live : idOf[v] \in Viewers /\ row.id = idOf[v] /\ pending = NoSession
  /\ pending.id \in {Nobody, row.id}
  /\ pending # NoSession => alarm = "soon"

\* A window that has not come yet is the name of nothing.
FreshInv == \A v \in Viewers : view[v] = "none" =>
  /\ row.id # v /\ shell.id # v /\ v \notin ending
  /\ \A c \in Conns : \A f \in In(toCli[c]) \cup In(toGateway[c]) : f.id # v

\* The CLI's connection is the newest, it has terminals only once greeted,
\* and the relay asks for them there alone.
ConnInv ==
  /\ conn # 0 => socket[conn] \in {"accepted", "active"}
  /\ conn = 0 \/ socket[conn] = "accepted" => shell = NoShell /\ ending = {}
  /\ \A c \in Conns : socket[c] \in {"none", "accepted"} => toCli[c] = <<>> /\ toGateway[c] = <<>>
  /\ \A c, d \in Executor : c = d

\* A session that was closed is not listed again.
CloseInv == \A c \in Conns : \A f \in In(toCli[c]) : f.kind = "close" => f.id # row.id

Opens(q, i) == q[i].kind = "open"
NoOpens(q) == \A j \in DOMAIN q : ~Opens(q, j)

\* The last terminal asked for is this one.
LastOpens(q, id) == \E i \in DOMAIN q :
  Opens(q, i) /\ q[i].id = id /\ \A j \in DOMAIN q : j > i => ~Opens(q, j)

Ends(f, id) == f.kind \in {"exit", "error"} /\ f.id = id

\* The listed session is what the CLI makes of its frames, or its end is on
\* its way.
PathInv == conn # 0 /\ socket[conn] = "active" /\ row.id # Nobody =>
  \/ \E f \in In(toGateway[conn]) : Ends(f, row.id)
  \/ LastOpens(toCli[conn], row.id)
  \/ shell.id = row.id /\ NoOpens(toCli[conn])

\* The way is lost once a frame of another session came in between.
ShownInv == IdsInv /\ FreshInv /\ ConnInv /\ CloseInv /\ (crossed \/ PathInv)

\* Chunk b was written after a.
Later(a, b) == b[1] > a[1] \/ (b[1] = a[1] /\ b[2] > a[2])

\* It is the first of its shell, or comes right after one of these.
Follows(b, S) == b[2] = 1 \/ <<b[1], b[2] - 1>> \in S

\* Unless some may be missing.
Comes(a, b, S, skips) == Later(a, b) /\ (skips \/ Follows(b, S))

Chain(s, skips) == \A i \in 1 .. Len(s) - 1 : Comes(s[i], s[i + 1], {s[i]}, skips)

\* Output of the listed session that is on its way from its machine, and what
\* its shell says next.
IsOut(f, id) == f.kind = "output" /\ f.id = id
OutputOf(c) == {f \in In(toGateway[c]) : IsOut(f, row.id)}
Outs == {f.chunk : f \in UNION {OutputOf(c) : c \in Conns}}
Upcoming == IF shell.id = row.id THEN {<<shell.gen, shell.out + 1>>} ELSE {}

\* With output O on its way, N to come next, and `top` shells so far: all of
\* it comes after a, one right after another.
Leads(a, O, N, top, skips) ==
  a[1] <= top /\ \A b \in O \cup N : Comes(a, b, O \cup {a}, skips)
Runs(s, O, N, top, skips) == Chain(s, skips) /\ (s # <<>> => Leads(s[Len(s)], O, N, top, skips))
Ordered(O, N, top, skips) == \A o \in O :
  /\ o[1] <= top /\ \A n \in N : Later(o, n)
  /\ \A b \in O \cup N : Later(o, b) => Comes(o, b, O, skips)

\* The output of a session in a queue.
Increasing(q, id) == \A i, j \in DOMAIN q :
  i < j /\ IsOut(q[i], id) /\ IsOut(q[j], id) => Later(q[i].chunk, q[j].chunk)

QueueInv == row.id # Nobody => \A c \in Conns :
  (OutputOf(c) # {} => c \in Executor) /\ Increasing(toGateway[c], row.id)

\* What the object would store now, and what the windows show.
KeptReplays == IF Live = {} THEN {Flushed(row, pending).replay} ELSE {Merged(row, v) : v \in Live}
Shown == {seen[v] : v \in {w \in Viewers : view[w] = "live"}}

\* What is stored may lack what is still in memory.
HeldInv == row.id # Nobody =>
  /\ Ordered(Outs, Upcoming, shells, slept)
  /\ Runs(row.replay, Outs, Upcoming, shells, TRUE)
  /\ \A s \in KeptReplays \cup Shown : Runs(s, Outs, Upcoming, shells, slept)

\* The session has written something.
Begun == Outs # {} \/ \E s \in {row.replay} \cup KeptReplays \cup Shown : s # <<>>

OpensOnly(q, id) == \A j \in DOMAIN q : Opens(q, j) => q[j].id = id
OpensAfter(q, id) == \A i, j \in DOMAIN q :
  i < j /\ Opens(q, i) /\ q[i].id = id /\ Opens(q, j) => q[j].id = id

\* The shell took the session's name before it wrote, and no older session
\* takes it over.
BegunInv == row.id # Nobody =>
  /\ Begun => shell.id \in {Nobody, row.id}
  /\ \A c \in Executor : OpensAfter(toCli[c], row.id)
  /\ (shell.id = row.id \/ Begun) => \A c \in Executor : OpensOnly(toCli[c], row.id)

SeenInv == \A v \in Viewers : Chain(seen[v], slept)

StreamInv == QueueInv /\ HeldInv /\ BegunInv /\ SeenInv


LEMMA Constants ==
  /\ Nobody \notin Viewers /\ Viewers \subseteq Ids
  /\ MaxOut \in Nat /\ MaxShells \in Nat /\ MaxConns \in Nat
  /\ MaxEvents \in Nat /\ MaxReplay \in Nat \ {0} /\ Conns \subseteq Nat \ {0}
  BY ConstantsAssumption DEF ConstantsAssumption, Ids, Conns

LEMMA Chunks ==
  ASSUME NEW a \in Chunk
  PROVE  a[1] \in 1 .. MaxShells /\ a[2] \in 1 .. MaxOut /\ a = <<a[1], a[2]>>
  BY DEF Chunk

LEMMA NewChunk ==
  ASSUME NEW g \in 1 .. MaxShells, NEW n \in 1 .. MaxOut
  PROVE  <<g, n>> \in Chunk
  BY DEF Chunk

LEMMA InAppend ==
  ASSUME NEW S, NEW q \in Seq(S), NEW x \in S
  PROVE  In(Append(q, x)) = In(q) \cup {x}
  <1> DEFINE a == Append(q, x)
  <1>1. /\ DOMAIN a = 1 .. Len(q) + 1 /\ DOMAIN q = 1 .. Len(q) /\ Len(q) \in Nat
        /\ a[Len(q) + 1] = x /\ \A i \in 1 .. Len(q) : a[i] = q[i]
    OBVIOUS
  <1> HIDE DEF a
  <1>2. /\ Len(q) + 1 \in DOMAIN a /\ \A i \in DOMAIN q : i \in DOMAIN a /\ a[i] = q[i]
        /\ \A i \in DOMAIN a : i # Len(q) + 1 => i \in DOMAIN q /\ a[i] = q[i]
    BY <1>1, SMT
  <1>3. In(a) = In(q) \cup {x}
    BY <1>1, <1>2, Zenon DEF In
  <1> QED BY <1>3 DEF a

LEMMA InTail ==
  ASSUME NEW S, NEW q \in Seq(S), q # <<>>
  PROVE  /\ Head(q) \in In(q) /\ In(Tail(q)) \subseteq In(q) /\ Head(q) = q[1]
         /\ In(q) = In(Tail(q)) \cup {Head(q)}
  <1>1. /\ Tail(q) \in Seq(S) /\ Len(Tail(q)) = Len(q) - 1
        /\ \A i \in 1 .. Len(Tail(q)) : Tail(q)[i] = q[i + 1]
        /\ Head(q) = q[1] /\ Len(q) \in Nat \ {0}
    BY HeadTailProperties, EmptySeq, SMT
  <1>2. DOMAIN q = 1 .. Len(q) /\ DOMAIN Tail(q) = 1 .. Len(Tail(q))
    BY <1>1, SMT
  <1>3. \A i \in DOMAIN Tail(q) : i + 1 \in DOMAIN q /\ Tail(q)[i] = q[i + 1]
    BY <1>1, <1>2, SMT
  <1>4. \A i \in DOMAIN q : i # 1 => i - 1 \in DOMAIN Tail(q) /\ Tail(q)[i - 1] = q[i]
    BY <1>1, <1>2, SMT
  <1>5. 1 \in DOMAIN q
    BY <1>1, <1>2, SMT
  <1>6. In(Tail(q)) \subseteq In(q)
    BY <1>3, Zenon DEF In
  <1>7. Head(q) \in In(q)
    BY <1>1, <1>5, Zenon DEF In
  <1>8. \A i \in DOMAIN q : q[i] = Head(q) \/ q[i] \in In(Tail(q))
    BY <1>1, <1>4, Zenon DEF In
  <1> QED BY <1>1, <1>6, <1>7, <1>8, Zenon DEF In

LEMMA InEmpty == In(<<>>) = {}
  BY DEF In

LEMMA InSeq ==
  ASSUME NEW S, NEW q \in Seq(S)
  PROVE  In(q) \subseteq S
  BY DEF In

LEMMA InConcat ==
  ASSUME NEW S, NEW q \in Seq(S), NEW p \in Seq(S)
  PROVE  In(q \o p) = In(q) \cup In(p) /\ q \o p \in Seq(S)
  <1>1. /\ DOMAIN (q \o p) = 1 .. Len(q) + Len(p) /\ DOMAIN q = 1 .. Len(q) /\ DOMAIN p = 1 .. Len(p)
        /\ Len(q) \in Nat /\ Len(p) \in Nat
    OBVIOUS
  <1>a. \A i \in 1 .. Len(q) + Len(p) : (q \o p)[i] = IF i <= Len(q) THEN q[i] ELSE p[i - Len(q)]
    OBVIOUS
  <1>2. \A i \in DOMAIN (q \o p) : \/ i \in DOMAIN q /\ (q \o p)[i] = q[i]
                                   \/ i - Len(q) \in DOMAIN p /\ (q \o p)[i] = p[i - Len(q)]
    BY <1>1, <1>a, SMT
  <1>3. \A i \in DOMAIN q : i \in DOMAIN (q \o p) /\ (q \o p)[i] = q[i]
    BY <1>1, SMT
  <1>4. \A i \in DOMAIN p : i + Len(q) \in DOMAIN (q \o p) /\ (q \o p)[i + Len(q)] = p[i]
    BY <1>1, SMT
  <1>5. In(q) \subseteq In(q \o p) /\ In(p) \subseteq In(q \o p)
    BY <1>3, <1>4, Zenon DEF In
  <1>6. In(q \o p) \subseteq In(q) \cup In(p)
    BY <1>2, Zenon DEF In
  <1>7. q \o p \in Seq(S)
    OBVIOUS
  <1> QED BY <1>5, <1>6, <1>7, Zenon

\* AppendReplay keeps the last of what it is given.
LEMMA Replayed ==
  ASSUME NEW r \in Seq(Chunk), NEW s \in Seq(Chunk), Len(r) <= MaxReplay
  PROVE  /\ AppendReplay(r, s) \in Seq(Chunk) /\ Len(AppendReplay(r, s)) <= MaxReplay
         /\ Len(AppendReplay(r, s)) =
              IF Len(r) + Len(s) > MaxReplay THEN MaxReplay ELSE Len(r) + Len(s)
         /\ \A i \in 1 .. Len(AppendReplay(r, s)) :
              AppendReplay(r, s)[i] = (r \o s)[Len(r) + Len(s) - Len(AppendReplay(r, s)) + i]
  <1> DEFINE all == r \o s
             from == IF Len(all) > MaxReplay THEN Len(all) - MaxReplay + 1 ELSE 1
  <1>1. all \in Seq(Chunk) /\ Len(all) = Len(r) + Len(s) /\ Len(r) \in Nat /\ Len(s) \in Nat
    OBVIOUS
  <1>2. from \in 1 .. Len(all) + 1 /\ Len(all) \in Nat
    BY <1>1, Constants, SMT
  <1>3. AppendReplay(r, s) = SubSeq(all, from, Len(all))
    BY Zenon DEF AppendReplay
  <1>4. /\ SubSeq(all, from, Len(all)) \in Seq(Chunk)
        /\ Len(SubSeq(all, from, Len(all))) = IF from <= Len(all) THEN Len(all) - from + 1 ELSE 0
        /\ \A i \in 1 .. Len(all) - from + 1 : SubSeq(all, from, Len(all))[i] = all[from + i - 1]
    <2> HIDE DEF all, from
    <2> QED BY <1>1, <1>2, SubSeqProperties, SMT
  <1>5. /\ AppendReplay(r, s) \in Seq(Chunk) /\ Len(AppendReplay(r, s)) = Len(all) - from + 1
        /\ \A i \in 1 .. Len(AppendReplay(r, s)) : AppendReplay(r, s)[i] = all[from + i - 1]
    <2> HIDE DEF all, from
    <2> QED BY <1>2, <1>3, <1>4, SMT
  <1>6. Len(all) - from + 1 = IF Len(r) + Len(s) > MaxReplay THEN MaxReplay ELSE Len(r) + Len(s)
    BY <1>1, Constants, SMT
  <1>7. \A i \in 1 .. Len(AppendReplay(r, s)) :
          from + i - 1 = Len(r) + Len(s) - Len(AppendReplay(r, s)) + i
    BY <1>1, <1>2, <1>5, SMT
  <1>8. Len(AppendReplay(r, s)) <= MaxReplay
    BY <1>5, <1>6, <1>1, Constants, SMT
  <1> QED BY <1>5, <1>6, <1>7, <1>8, Zenon

LEMMA ReplayedNothing ==
  ASSUME NEW r \in Seq(Chunk), Len(r) <= MaxReplay
  PROVE  AppendReplay(r, <<>>) = r
  <1> DEFINE a == AppendReplay(r, <<>>)
  <1>1. <<>> \in Seq(Chunk) /\ Len(<<>>) = 0 /\ Len(r) \in Nat
    OBVIOUS
  <1>2. r \o <<>> = r
    BY SMT
  <1>3. /\ a \in Seq(Chunk) /\ Len(a) = IF Len(r) + 0 > MaxReplay THEN MaxReplay ELSE Len(r) + 0
        /\ \A i \in 1 .. Len(a) : a[i] = r[Len(r) + 0 - Len(a) + i]
    <2>1. /\ a \in Seq(Chunk)
          /\ Len(a) = IF Len(r) + Len(<<>>) > MaxReplay THEN MaxReplay ELSE Len(r) + Len(<<>>)
          /\ \A i \in 1 .. Len(a) : a[i] = (r \o <<>>)[Len(r) + Len(<<>>) - Len(a) + i]
      BY <1>1, Replayed, Zenon
    <2> HIDE DEF a
    <2> QED BY <2>1, <1>1, <1>2, Zenon
  <1>4. Len(a) = Len(r) /\ \A i \in 1 .. Len(a) : a[i] = r[i]
    <2> HIDE DEF a
    <2> QED BY <1>1, <1>3, Constants, SMT
  <1> QED
    <2> HIDE DEF a
    <2>1. a = r
      BY <1>3, <1>4, SeqEqual
    <2> QED BY <2>1 DEF a

LEMMA ReplayedOne ==
  ASSUME NEW r \in Seq(Chunk), Len(r) <= MaxReplay, NEW x \in Chunk
  PROVE  LET a == AppendReplay(r, <<x>>)
         IN  /\ a \in Seq(Chunk) /\ Len(a) <= MaxReplay /\ a # <<>> /\ Len(a) > 0 /\ a[Len(a)] = x
             /\ \A i \in 1 .. Len(a) - 1 : /\ a[i] = r[Len(r) + 1 - Len(a) + i]
                                           /\ Len(r) + 1 - Len(a) + i \in 1 .. Len(r)
  <1> DEFINE a == AppendReplay(r, <<x>>)
             all == r \o <<x>>
  <1>1. <<x>> \in Seq(Chunk) /\ Len(<<x>>) = 1 /\ Len(r) \in Nat
    OBVIOUS
  <1>2. /\ a \in Seq(Chunk) /\ Len(a) <= MaxReplay
        /\ Len(a) = IF Len(r) + 1 > MaxReplay THEN MaxReplay ELSE Len(r) + 1
        /\ \A i \in 1 .. Len(a) : a[i] = all[Len(r) + 1 - Len(a) + i]
    <2>1. /\ a \in Seq(Chunk) /\ Len(a) <= MaxReplay
          /\ Len(a) = IF Len(r) + Len(<<x>>) > MaxReplay THEN MaxReplay ELSE Len(r) + Len(<<x>>)
          /\ \A i \in 1 .. Len(a) : a[i] = all[Len(r) + Len(<<x>>) - Len(a) + i]
      BY <1>1, Replayed, Zenon
    <2> HIDE DEF a, all
    <2> QED BY <2>1, <1>1, Zenon
  <1>3. all[Len(r) + 1] = x /\ \A i \in 1 .. Len(r) : all[i] = r[i]
    BY <1>1, SMT
  <1>4. Len(a) \in 1 .. Len(r) + 1
    BY <1>1, <1>2, Constants, SMT
  <1> HIDE DEF a, all
  <1>5. a[Len(a)] = x
    <2>1. Len(a) \in 1 .. Len(a) /\ Len(r) + 1 - Len(a) + Len(a) = Len(r) + 1
      BY <1>1, <1>4, SMT
    <2> QED BY <2>1, <1>2, <1>3, Zenon
  <1>6. \A i \in 1 .. Len(a) - 1 : /\ a[i] = r[Len(r) + 1 - Len(a) + i]
                                   /\ Len(r) + 1 - Len(a) + i \in 1 .. Len(r)
    <2> SUFFICES ASSUME NEW i \in 1 .. Len(a) - 1
                 PROVE  /\ a[i] = r[Len(r) + 1 - Len(a) + i]
                        /\ Len(r) + 1 - Len(a) + i \in 1 .. Len(r)
      OBVIOUS
    <2>1. i \in 1 .. Len(a) /\ Len(r) + 1 - Len(a) + i \in 1 .. Len(r)
      BY <1>1, <1>4, SMT
    <2> QED BY <2>1, <1>2, <1>3, Zenon
  <1>7. a # <<>> /\ Len(a) > 0
    BY <1>4, <1>2, <1>1, SMT
  <1> QED BY <1>2, <1>5, <1>6, <1>7 DEF a

----------------------------------------------------------------------------
(* What the handlers leave behind *)

LEMMA StoredRecord ==
  ASSUME NEW s, StoredType(s)
  PROVE  /\ s = [id |-> s.id, replay |-> s.replay]
         /\ s = NoSession <=> s.id = Nobody
         /\ s.id \in Ids /\ s.replay \in Seq(Chunk) /\ Len(s.replay) <= MaxReplay
         /\ s.id = Nobody => s.replay = <<>>
  BY DEF StoredType, NoSession

LEMMA MadeSession ==
  ASSUME NEW id \in Ids, NEW r \in Seq(Chunk), Len(r) <= MaxReplay, id = Nobody => r = <<>>
  PROVE  StoredType([id |-> id, replay |-> r])
  BY DEF StoredType

LEMMA NoSessionType ==
  /\ StoredType(NoSession) /\ NoSession.id = Nobody /\ NoSession.replay = <<>>
  /\ NoBuffer.replay = <<>> /\ NoBuffer.seeded = FALSE
  /\ NoBuffer \in [replay : Seq(Chunk), seeded : BOOLEAN]
  BY Constants, SMT DEF StoredType, NoSession, NoBuffer, Ids

LEMMA BufferRecord ==
  ASSUME StoreTypes, NEW v \in Viewers
  PROVE  /\ buffer[v].replay \in Seq(Chunk) /\ Len(buffer[v].replay) <= MaxReplay
         /\ buffer[v].seeded \in BOOLEAN
  BY DEF StoreTypes

LEMMA BufferGrows ==
  ASSUME NEW b \in [replay : Seq(Chunk), seeded : BOOLEAN], NEW r \in Seq(Chunk)
  PROVE  /\ [b EXCEPT !.replay = r] \in [replay : Seq(Chunk), seeded : BOOLEAN]
         /\ [b EXCEPT !.replay = r].replay = r /\ [b EXCEPT !.replay = r].seeded = b.seeded
  OBVIOUS

\* What the object would store of a session and its window.
LEMMA MergedType ==
  ASSUME StoreTypes, NEW v \in Viewers, NEW s, StoredType(s)
  PROVE  Merged(s, v) \in Seq(Chunk) /\ Len(Merged(s, v)) <= MaxReplay
  <1>1. CASE buffer[v].seeded
    BY <1>1, BufferRecord, Zenon DEF Merged
  <1>2. CASE ~buffer[v].seeded
    <2>1. s.replay \in Seq(Chunk) /\ Len(s.replay) <= MaxReplay
      BY StoredRecord, Zenon
    <2> QED BY <1>2, <2>1, BufferRecord, Replayed, Zenon DEF Merged
  <1> QED BY <1>1, <1>2, Zenon

LEMMA PersistedType ==
  ASSUME StoreTypes, WindowTypes, IdsInv, NEW v \in Live
  PROVE  /\ Persisted(v) = [id |-> row.id, replay |-> Merged(row, v)]
         /\ StoredType(Persisted(v)) /\ row.id \in Viewers
  <1>1. v \in Viewers /\ idOf[v] \in Viewers /\ row.id = idOf[v] /\ StoredType(row)
    BY Zenon DEF IdsInv, Live, StoreTypes
  <1>2. Persisted(v) = [id |-> row.id, replay |-> Merged(row, v)]
    BY <1>1, Zenon DEF Persisted
  <1>3. row.id \in Ids /\ row.id # Nobody
    BY <1>1, Constants, Zenon
  <1> QED BY <1>1, <1>2, <1>3, MergedType, MadeSession, Zenon

LEMMA FlushedType ==
  ASSUME StoreTypes, IdsInv
  PROVE  StoredType(Flushed(row, pending)) /\ Flushed(row, pending).id = row.id
  BY Zenon DEF Flushed, StoreTypes, IdsInv

LEMMA ForgottenType ==
  ASSUME NEW s, StoredType(s), NEW id \in Viewers
  PROVE  /\ StoredType(Forgotten(s, id)) /\ Forgotten(s, id).id # id
         /\ Forgotten(s, id) = s \/ Forgotten(s, id) = NoSession
         /\ s.id # id => Forgotten(s, id) = s
         /\ s.id = id => Forgotten(s, id) = NoSession
  BY NoSessionType, Constants, Zenon DEF Forgotten

LEMMA Sent ==
  ASSUME FrameTypes, NEW f \in Down, ToExecutor(f)
  PROVE  /\ toCli' \in [Conns -> Seq(Down)]
         /\ \A c \in Executor : toCli'[c] = Append(toCli[c], f)
         /\ \A c \in Conns \ Executor : toCli'[c] = toCli[c]
         /\ \A c \in Conns : In(toCli'[c]) \subseteq In(toCli[c]) \cup {f}
  <1>1. \A c \in Conns : toCli'[c] = IF c \in Executor THEN Append(toCli[c], f) ELSE toCli[c]
    BY DEF ToExecutor
  <1>2. \A c \in Conns : toCli[c] \in Seq(Down) /\ Append(toCli[c], f) \in Seq(Down)
    BY DEF FrameTypes
  <1>3. toCli' \in [Conns -> Seq(Down)]
    BY <1>2, SMT DEF ToExecutor
  <1>4. Executor \subseteq Conns
    BY DEF Executor
  <1>5. \A c \in Conns : In(Append(toCli[c], f)) = In(toCli[c]) \cup {f}
    BY <1>2, InAppend, Zenon
  <1> QED BY <1>1, <1>3, <1>4, <1>5, Zenon

LEMMA DownFrames ==
  ASSUME NEW id \in Viewers
  PROVE  /\ Frame("open", id) \in Down /\ Frame("close", id) \in Down /\ Frame("input", id) \in Down
         /\ Frame("exit", id) \in UpFrames /\ Frame("error", id) \in UpFrames
         /\ \A x \in Chunk : [kind |-> "output", id |-> id, chunk |-> x] \in UpFrames
  BY DEF Frame, Down, UpFrames

LEMMA FrameFields ==
  ASSUME NEW kind, NEW id
  PROVE  Frame(kind, id).kind = kind /\ Frame(kind, id).id = id
  BY DEF Frame

LEMMA UpFrameFields ==
  ASSUME NEW f \in UpFrames
  PROVE  /\ f.id \in Viewers /\ f.kind \in {"exit", "error", "output"}
         /\ f.kind = "output" => f.chunk \in Chunk
  BY DEF UpFrames

LEMMA DownFields ==
  ASSUME NEW f \in Down
  PROVE  f.id \in Viewers /\ f.kind \in {"open", "input", "close"}
  BY DEF Down

\* The windows that are told, and what is kept for them.
LEMMA SettledWindows ==
  ASSUME WindowTypes, StoreTypes, NEW W, W \subseteq Live, Settle(W)
  PROVE  /\ view' \in [Viewers -> {"none", "live", "left", "over"}]
         /\ Live' = Live \ W
         /\ \A v \in Viewers : /\ v \notin W => view'[v] = view[v] /\ buffer'[v] = buffer[v]
                               /\ v \in W => view'[v] = "over"
                               /\ view'[v] = "none" <=> view[v] = "none"
                               /\ view'[v] = "live" => view[v] = "live"
         /\ buffer' \in [Viewers -> [replay : Seq(Chunk), seeded : BOOLEAN]]
         /\ \A v \in Viewers : Len(buffer'[v].replay) <= MaxReplay
  <1>1. \A v \in Viewers : /\ view'[v] = IF v \in W THEN "over" ELSE view[v]
                           /\ buffer'[v] = IF v \in W THEN NoBuffer ELSE buffer[v]
    BY DEF Settle
  <1>2. view' \in [Viewers -> {"none", "live", "left", "over"}]
    BY DEF Settle, WindowTypes
  <1>3. buffer' \in [Viewers -> [replay : Seq(Chunk), seeded : BOOLEAN]]
    <2>1. \A v \in Viewers : (IF v \in W THEN NoBuffer ELSE buffer[v]) \in [replay : Seq(Chunk), seeded : BOOLEAN]
      BY NoSessionType, Zenon DEF StoreTypes
    <2> QED BY <2>1, SMT DEF Settle
  <1>4. \A v \in Viewers : Len(buffer'[v].replay) <= MaxReplay
    <2>1. Len(NoBuffer.replay) <= MaxReplay
      BY NoSessionType, Constants, SMT
    <2> QED BY <2>1, <1>1, Zenon DEF StoreTypes
  <1>5. Live' = {v \in Viewers : view'[v] \in {"live", "left"}}
    BY DEF Live
  <1>6. \A v \in Viewers : view'[v] \in {"live", "left"} <=> view[v] \in {"live", "left"} /\ v \notin W
    BY <1>1, SMT
  <1>7. Live' = Live \ W
    BY <1>5, <1>6, Zenon DEF Live
  <1>8. \A v \in W : view[v] # "none"
    BY SMT DEF Live
  <1> QED BY <1>1, <1>2, <1>3, <1>4, <1>7, <1>8, SMT

LEMMA LiveSubset == Live \subseteq Viewers /\ \A id : Watching(id) \subseteq Live
  BY DEF Live, Watching

LEMMA OneWatches ==
  ASSUME IdsInv
  PROVE  /\ Watching(row.id) = Live
         /\ \A id : id # row.id => Watching(id) = {}
  BY DEF IdsInv, Watching

NewId(s, v) == IF s.id = Nobody THEN v ELSE s.id

\* A window that comes shows what is stored for its session.
LEMMA AcceptEffect ==
  ASSUME Types, IdsInv, NEW v \in Viewers, Accept(v)
  PROVE  /\ view[v] = "none" /\ Executor # {}
         /\ \E s :
              /\ StoredType(s) /\ s.id = row.id /\ NewId(s, v) \in Viewers
              /\ Live = {} => s = Flushed(row, pending)
              /\ \A p \in Live : s.replay = Merged(row, p)
              /\ view' = [p \in Viewers |-> IF p = v THEN "live" ELSE IF p \in Live THEN "over" ELSE view[p]]
              /\ idOf' = [idOf EXCEPT ![v] = NewId(s, v)]
              /\ seen' = [seen EXCEPT ![v] = s.replay]
              /\ row' = [id |-> NewId(s, v), replay |-> s.replay]
              /\ StoredType(row')
              /\ buffer' = [p \in Viewers |-> IF p = v THEN [replay |-> s.replay, seeded |-> TRUE] ELSE NoBuffer]
              /\ pending' = NoSession /\ alarm' = "later"
              /\ ToExecutor(Frame("open", NewId(s, v)))
         /\ Live' = {v} /\ aged' \in BOOLEAN
         /\ UNCHANGED <<links, toGateway, cli, events, slept>>
  <1> DEFINE kept == IF Live = {} THEN row ELSE Persisted(CHOOSE p \in Live : TRUE)
             s == Flushed(kept, IF Live = {} THEN pending ELSE Forgotten(pending, kept.id))
             id == IF s = NoSession THEN v ELSE s.id
  <1>1. WindowTypes /\ StoreTypes /\ ClockTypes /\ StoredType(row) /\ StoredType(pending)
    BY Zenon DEF Types, StoreTypes
  <1>2. /\ view[v] = "none" /\ Executor # {}
        /\ view' = [p \in Viewers |-> IF p = v THEN "live" ELSE IF p \in Live THEN "over" ELSE view[p]]
        /\ idOf' = [idOf EXCEPT ![v] = id]
        /\ seen' = [seen EXCEPT ![v] = s.replay]
        /\ row' = [id |-> id, replay |-> s.replay]
        /\ buffer' = [p \in Viewers |-> IF p = v THEN [replay |-> s.replay, seeded |-> TRUE] ELSE NoBuffer]
        /\ pending' = NoSession /\ alarm' = "later"
        /\ ToExecutor(Frame("open", id))
        /\ aged' = (aged /\ s # NoSession)
        /\ UNCHANGED <<links, toGateway, cli, events, slept>>
    BY Zenon DEF Accept
  <1>3. /\ StoredType(s) /\ s.id = row.id /\ (Live = {} => s = Flushed(row, pending))
        /\ \A p \in Live : s.replay = Merged(row, p)
    <2>1. CASE Live = {}
      <3>1. s = Flushed(row, pending)
        BY <2>1, Zenon
      <3> HIDE DEF s, kept
      <3> QED BY <2>1, <3>1, <1>1, FlushedType, Zenon
    <2>2. CASE Live # {}
      <3>1. PICK p \in Live : p = CHOOSE q \in Live : TRUE
        BY <2>2, Zenon
      <3>2. kept = Persisted(p) /\ s = Flushed(kept, Forgotten(pending, kept.id))
        BY <2>2, <3>1, Zenon
      <3>3. /\ Persisted(p) = [id |-> row.id, replay |-> Merged(row, p)]
            /\ StoredType(Persisted(p)) /\ row.id \in Viewers
        BY <1>1, PersistedType, Zenon
      <3>4. Persisted(p).id = row.id /\ Persisted(p).replay = Merged(row, p)
        BY <3>3, SMT
      <3>5. pending = NoSession /\ Forgotten(pending, row.id) = NoSession /\ \A q \in Live : q = p
        BY <1>1, <3>3, ForgottenType, Zenon DEF IdsInv
      <3> HIDE DEF s, kept
      <3>6. s = Persisted(p)
        BY <3>2, <3>4, <3>5, NoSessionType, Zenon DEF Flushed
      <3> QED BY <2>2, <3>3, <3>4, <3>5, <3>6, Zenon
    <2> QED BY <2>1, <2>2, Zenon
  <1> HIDE DEF s, kept
  <1>4. id = NewId(s, v)
    BY <1>3, StoredRecord, Zenon DEF NewId
  <1>5. NewId(s, v) \in Viewers
    BY <1>3, StoredRecord, Constants, Zenon DEF NewId, Ids
  <1>6. aged' \in BOOLEAN
    BY <1>1, <1>2, SMT DEF ClockTypes
  <1>7. Live' = {v}
    <2>1. Live' = {p \in Viewers : view'[p] \in {"live", "left"}}
      BY DEF Live
    <2>2. \A p \in Viewers : view'[p] \in {"live", "left"} <=> p = v
      <3>1. \A p \in Viewers : view'[p] = IF p = v THEN "live" ELSE IF p \in Live THEN "over" ELSE view[p]
        BY <1>2, SMT
      <3> QED BY <3>1, SMT DEF Live
    <2> QED BY <2>1, <2>2, Zenon
  <1>8. StoredType(row')
    <2>1. s.replay \in Seq(Chunk) /\ Len(s.replay) <= MaxReplay
      BY <1>3, StoredRecord, Zenon
    <2> QED BY <2>1, <1>2, <1>4, <1>5, Constants, MadeSession, Zenon
  <1> HIDE DEF id
  <1> QED BY <1>2, <1>3, <1>4, <1>5, <1>6, <1>7, <1>8, Zenon

\* Output that nobody asked for changes nothing; of the listed session it is
\* for the window, or it is stored or queued.
LEMMA OutputCases ==
  ASSUME Types, IdsInv, NEW id \in Viewers, NEW x \in Chunk, Output(id, x)
  PROVE  \/ /\ id # row.id
            /\ UNCHANGED <<seen, buffer, row, pending, alarm>>
         \/ /\ id = row.id
            /\ \E v \in Live :
                 /\ seen' = [seen EXCEPT ![v] = IF view[v] = "live" THEN Append(@, x) ELSE @]
                 /\ buffer' = [buffer EXCEPT ![v].replay = AppendReplay(@, <<x>>)]
            /\ UNCHANGED <<row, pending, alarm>>
         \/ /\ id = row.id /\ Live = {}
            /\ LET next == [id |-> id, replay |-> AppendReplay(Flushed(row, pending).replay, <<x>>)]
               IN  \/ row' = next /\ pending' = NoSession
                   \/ pending' = next /\ row' = row /\ alarm' = "soon"
            /\ alarm' \in {"soon", "later"} /\ UNCHANGED <<seen, buffer>>
  <1>0. /\ id # Nobody /\ pending.id \in {Nobody, row.id} /\ StoredType(row) /\ StoredType(pending)
        /\ alarm \in {"none", "later", "soon"} /\ (pending # NoSession => alarm = "soon")
    BY Constants, Zenon DEF Types, StoreTypes, ClockTypes, IdsInv
  <1>1. CASE id # row.id
    <2>1. Watching(id) = {}
      BY <1>1, OneWatches, Zenon
    <2>2. UNCHANGED <<seen, buffer>> /\ Detached(id, x)
      BY <2>1, Zenon DEF Output
    <2>3. pending.id # id
      BY <1>0, <1>1, Zenon
    <2>4. UNCHANGED <<row, pending, alarm>>
      BY <2>2, <2>3, <1>1, Zenon DEF Detached
    <2> QED BY <2>2, <2>4, <1>1, Zenon
  <1>2. CASE id = row.id /\ Live # {}
    <2>1. Watching(id) = Live
      BY <1>2, OneWatches, Zenon
    <2>2. PICK v \in Live : v = CHOOSE w \in Watching(id) : TRUE
      BY <1>2, <2>1, Zenon
    <2>3. /\ seen' = [seen EXCEPT ![v] = IF view[v] = "live" THEN Append(@, x) ELSE @]
          /\ buffer' = [buffer EXCEPT ![v].replay = AppendReplay(@, <<x>>)]
          /\ UNCHANGED <<row, pending, alarm>>
      BY <2>1, <2>2, <1>2, Zenon DEF Output
    <2> QED BY <2>3, <1>2, Zenon
  <1>3. CASE id = row.id /\ Live = {}
    <2>1. Watching(id) = {}
      BY <1>3, OneWatches, Zenon
    <2>2. UNCHANGED <<seen, buffer>> /\ Detached(id, x)
      BY <2>1, Zenon DEF Output
    <2>3. Flushed(row, pending) = IF pending.id = id THEN pending ELSE IF row.id = id THEN row ELSE NoSession
      BY <1>0, <1>3, Zenon DEF Flushed
    <2>4. Flushed(row, pending) # NoSession
      <3>1. Flushed(row, pending).id = row.id
        BY FlushedType, Zenon DEF Types
      <3> QED BY <3>1, <1>0, <1>3, NoSessionType, Zenon
    <2> DEFINE next == [id |-> id, replay |-> AppendReplay(Flushed(row, pending).replay, <<x>>)]
           base == IF pending.id = id THEN pending ELSE IF row.id = id THEN row ELSE NoSession
    <2>7. \/ base = NoSession
          \/ /\ row' = [id |-> id, replay |-> AppendReplay(base.replay, <<x>>)]
             /\ pending' = NoSession /\ alarm' = "later"
          \/ /\ pending' = [id |-> id, replay |-> AppendReplay(base.replay, <<x>>)]
             /\ alarm' = Trailing /\ row' = row
      BY <2>2, Zenon DEF Detached
    <2>8. base = Flushed(row, pending)
      BY <2>3, Zenon
    <2> HIDE DEF base
    <2>5. \/ row' = next /\ pending' = NoSession /\ alarm' = "later"
          \/ pending' = next /\ alarm' = Trailing /\ row' = row
      BY <2>7, <2>8, <2>4, Zenon
    <2>6. Trailing = "soon"
      BY <1>0, Zenon DEF Trailing
    <2> QED BY <2>2, <2>5, <2>6, <1>3, Zenon
  <1> QED BY <1>1, <1>2, <1>3, Zenon

\* The next session that is stored or queued.
LEMMA NextStored ==
  ASSUME Types, IdsInv, NEW x \in Chunk, row.id # Nobody
  PROVE  StoredType([id |-> row.id, replay |-> AppendReplay(Flushed(row, pending).replay, <<x>>)])
  <1>1. Flushed(row, pending).replay \in Seq(Chunk) /\ Len(Flushed(row, pending).replay) <= MaxReplay
    BY FlushedType, StoredRecord, Zenon DEF Types
  <1>2. row.id \in Ids
    BY Zenon DEF Types, StoreTypes, StoredType
  <1>3. /\ AppendReplay(Flushed(row, pending).replay, <<x>>) \in Seq(Chunk)
        /\ Len(AppendReplay(Flushed(row, pending).replay, <<x>>)) <= MaxReplay
    BY <1>1, ReplayedOne, Zenon
  <1> QED BY <1>2, <1>3, MadeSession, Zenon

LEMMA ForgetEffect ==
  ASSUME Types, IdsInv, NEW id \in Viewers, Forget(id)
  PROVE  /\ StoredType(row') /\ StoredType(pending')
         /\ row.id = id => row' = NoSession /\ pending' = NoSession
         /\ row.id # id => row' = row /\ pending' = pending
         /\ row'.id # id
  <1>1. StoredType(row) /\ StoredType(pending) /\ pending.id \in {Nobody, row.id}
    BY Zenon DEF Types, StoreTypes, IdsInv
  <1>2. row' = Forgotten(row, id) /\ pending' = Forgotten(pending, id)
    BY Zenon DEF Forget
  <1>3. pending.id = Nobody => pending' = NoSession
    BY <1>1, <1>2, StoredRecord, ForgottenType, Zenon
  <1>4. id # Nobody
    BY Constants, Zenon
  <1> QED BY <1>1, <1>2, <1>3, <1>4, ForgottenType, Zenon

\* A frame of the machine is the first that it sent on that connection.
LEMMA FirstFrame ==
  ASSUME FrameTypes, NEW c \in Conns, Receive(c)
  PROVE  /\ toGateway[c] # <<>> /\ socket[c] \in {"active", "replaced"}
         /\ Head(toGateway[c]) \in UpFrames /\ Head(toGateway[c]) \in In(toGateway[c])
         /\ toGateway' = [toGateway EXCEPT ![c] = Tail(@)]
         /\ toGateway' \in [Conns -> Seq(UpFrames)]
         /\ \A d \in Conns : In(toGateway'[d]) \subseteq In(toGateway[d])
         /\ UNCHANGED <<idOf, aged, links, cli, events, slept>>
  <1>1. /\ toGateway[c] # <<>> /\ socket[c] \in {"active", "replaced"}
        /\ toGateway' = [toGateway EXCEPT ![c] = Tail(@)]
        /\ UNCHANGED <<idOf, aged, links, cli, events, slept>>
    BY Zenon DEF Receive
  <1>2. \A d \in Conns : toGateway[d] \in Seq(UpFrames)
    BY DEF FrameTypes
  <1>3. Head(toGateway[c]) \in In(toGateway[c]) /\ In(Tail(toGateway[c])) \subseteq In(toGateway[c])
    BY <1>1, <1>2, InTail, Zenon
  <1>4. Head(toGateway[c]) \in UpFrames
    BY <1>2, <1>3, InSeq, Zenon
  <1>5. Tail(toGateway[c]) \in Seq(UpFrames)
    BY <1>1, <1>2, HeadTailProperties, Zenon
  <1>6. \A d \in Conns : toGateway'[d] = IF d = c THEN Tail(toGateway[c]) ELSE toGateway[d]
    BY <1>1 DEF FrameTypes
  <1>7. toGateway' \in [Conns -> Seq(UpFrames)]
    BY <1>1, <1>2, <1>5, SMT DEF FrameTypes
  <1> QED BY <1>1, <1>3, <1>4, <1>6, <1>7, Zenon

\* The end of a session, said by its machine, takes the window and what is
\* stored with it.
LEMMA ReceiveCases ==
  ASSUME Types, IdsInv, NEW c \in Conns, Receive(c)
  PROVE  \E f \in UpFrames :
           /\ f = Head(toGateway[c])
           /\ \/ f.kind = "output" /\ f.chunk \in Chunk /\ Output(f.id, f.chunk) /\ UNCHANGED <<view, toCli>>
              \/ /\ f.kind \in {"exit", "error"}
                 /\ Settle(Watching(f.id)) /\ Forget(f.id) /\ UNCHANGED <<seen, alarm>>
                 /\ toCli' = toCli \/ ToExecutor(Frame("close", f.id))
  <1>1. Head(toGateway[c]) \in UpFrames
    BY FirstFrame, Zenon DEF Types
  <1>2. Head(toGateway[c]).kind = "output" => Head(toGateway[c]).chunk \in Chunk
    BY <1>1, UpFrameFields, Zenon
  <1>3. \/ /\ Head(toGateway[c]).kind = "output"
           /\ Output(Head(toGateway[c]).id, Head(toGateway[c]).chunk) /\ UNCHANGED <<view, toCli>>
        \/ /\ Head(toGateway[c]).kind = "exit" /\ Settle(Watching(Head(toGateway[c]).id))
           /\ Forget(Head(toGateway[c]).id) /\ UNCHANGED <<seen, alarm, toCli>>
        \/ /\ Head(toGateway[c]).kind = "error" /\ Settle(Watching(Head(toGateway[c]).id))
           /\ Forget(Head(toGateway[c]).id) /\ ToExecutor(Frame("close", Head(toGateway[c]).id))
           /\ UNCHANGED <<seen, alarm>>
    BY Zenon DEF Receive
  <1> QED BY <1>1, <1>2, <1>3, Zenon

\* The alarm of the object: a session past its time is ended, and output
\* that waited is stored.
LEMMA ExpireCases ==
  ASSUME Types, IdsInv, Expire
  PROVE  /\ pending' = NoSession /\ alarm' \in {"none", "later"}
         /\ UNCHANGED <<idOf, seen, aged, links, toGateway, cli, events, slept>>
         /\ \/ /\ row.id \in Viewers /\ Settle(Watching(row.id)) /\ row' = NoSession
               /\ ToExecutor(Frame("close", row.id))
            \/ row' = Flushed(row, pending) /\ UNCHANGED <<view, buffer, toCli>>
         /\ StoredType(row')
  <1> DEFINE stored == Flushed(row, pending)
  <1>1. StoredType(stored) /\ stored.id = row.id
    BY FlushedType, Zenon DEF Types
  <1>2. /\ pending' = NoSession /\ alarm' = Deadline(row', pending')
        /\ UNCHANGED <<idOf, seen, aged, links, toGateway, cli, events, slept>>
        /\ \/ /\ stored # NoSession /\ Settle(Watching(stored.id)) /\ row' = NoSession
              /\ ToExecutor(Frame("close", stored.id))
           \/ row' = stored /\ UNCHANGED <<view, buffer, toCli>>
    BY Zenon DEF Expire
  <1>3. alarm' \in {"none", "later"}
    BY <1>2, Zenon DEF Deadline
  <1>4. stored # NoSession => row.id \in Viewers
    BY <1>1, StoredRecord, Zenon DEF Ids
  <1> HIDE DEF stored
  <1> QED BY <1>1, <1>2, <1>3, <1>4, NoSessionType, Zenon DEF stored

LEMMA Quiet ==
  ASSUME NEW s, NEW q
  PROVE  Deadline(s, q) \in {"none", "later", "soon"} /\ (q # NoSession => Deadline(s, q) = "soon")
  BY DEF Deadline

----------------------------------------------------------------------------
(* Types *)

LEMMA OwnWindow ==
  ASSUME NEW v \in Viewers, view[v] \in {"live", "left"}
  PROVE  {v} \subseteq Live
  BY DEF Live

\* Who settles which windows.
LEMMA SettlingSteps ==
  /\ \A v \in Viewers : CloseSeen(v) \/ CloseShell(v) => {v} \subseteq Live /\ Settle({v}) /\ UNCHANGED <<idOf, seen>>
  /\ CloseTarget => Settle(Live) /\ UNCHANGED <<idOf, seen>>
  /\ \A c \in Conns : Hello(c) \/ DropFinishes(c) =>
       Settle(Live) /\ row' = NoSession /\ pending' = NoSession /\ UNCHANGED <<idOf, seen>>
  <1>1. \A v \in Viewers : CloseSeen(v) => {v} \subseteq Live /\ Settle({v}) /\ UNCHANGED <<idOf, seen>>
    BY OwnWindow DEF CloseSeen
  <1>2. \A v \in Viewers : CloseShell(v) => {v} \subseteq Live /\ Settle({v}) /\ UNCHANGED <<idOf, seen>>
    BY OwnWindow DEF CloseShell
  <1>3. CloseTarget => Settle(Live) /\ UNCHANGED <<idOf, seen>>
    BY Zenon DEF CloseTarget
  <1>4. \A c \in Conns : Hello(c) \/ DropFinishes(c) =>
          Settle(Live) /\ row' = NoSession /\ pending' = NoSession /\ UNCHANGED <<idOf, seen>>
    BY Zenon DEF Hello, DropFinishes, FailTerminals, ForgetAll
  <1> QED BY <1>1, <1>2, <1>3, <1>4, Zenon

\* Steps of the machine, of the connections and of time leave the windows be.
LEMMA WindowsStay ==
  /\ \A c \in Conns : Dial(c) \/ SocketEnds(c) => UNCHANGED <<windows, relay, slept>>
  /\ ConnectionEnds \/ Served \/ Waits \/ Write \/ Exit => UNCHANGED <<windows, relay, slept>>
  /\ \A id \in Viewers : KilledExits(id) => UNCHANGED <<windows, relay, slept>>
  /\ \A v \in Viewers : Input(v) => UNCHANGED <<windows, relay, slept>>
  /\ Ages => UNCHANGED <<windows, buffer, row, pending, alarm, slept>>
  /\ Hibernate \/ Evict => UNCHANGED <<windows, row, alarm, aged>> /\ Wiped
  BY Zenon DEF Dial, SocketEnds, ConnectionEnds, Handle, Write, Exit, KilledExits, Input, Ages,
               Hibernate, Evict, Wiped, cli, Served, Overtakes, Overtake, Waits, Hold, Release

LEMMA WindowTypesStep ==
  ASSUME Types, IdsInv, Next
  PROVE  WindowTypes'
  <1>0. WindowTypes /\ StoreTypes
    BY Zenon DEF Types
  <1>s. ASSUME NEW W, W \subseteq Live, Settle(W), UNCHANGED <<idOf, seen>>
        PROVE  WindowTypes'
    BY <1>0, <1>s, SettledWindows, Zenon DEF WindowTypes
  <1>u. ASSUME UNCHANGED windows PROVE WindowTypes'
    BY <1>0, <1>u, Zenon DEF WindowTypes, windows
  <1>1. ASSUME NEW v \in Viewers, Accept(v) PROVE WindowTypes'
    <2>1. PICK s : /\ StoredType(s) /\ NewId(s, v) \in Viewers
                   /\ view' = [p \in Viewers |-> IF p = v THEN "live" ELSE IF p \in Live THEN "over" ELSE view[p]]
                   /\ idOf' = [idOf EXCEPT ![v] = NewId(s, v)]
                   /\ seen' = [seen EXCEPT ![v] = s.replay]
      BY <1>1, AcceptEffect, Zenon
    <2>2. s.replay \in Seq(Chunk) /\ NewId(s, v) \in Ids
      BY <2>1, StoredRecord, Constants, Zenon
    <2> QED BY <2>1, <2>2, <1>0, SMT DEF WindowTypes
  <1>2. ASSUME NEW v \in Viewers, Leave(v) \/ NoExecutor(v) PROVE WindowTypes'
    <2>1. view' = [view EXCEPT ![v] = "left"] /\ UNCHANGED <<idOf, seen>>
      BY <1>2, Zenon DEF Leave, NoExecutor
    <2> QED BY <2>1, <1>0, SMT DEF WindowTypes
  <1>3. ASSUME NEW v \in Viewers, CloseSeen(v) \/ CloseShell(v) PROVE WindowTypes'
    BY <1>3, <1>s, SettlingSteps, Zenon
  <1>4. ASSUME CloseTarget \/ \E c \in Conns : Hello(c) \/ DropFinishes(c) PROVE WindowTypes'
    BY <1>4, <1>s, SettlingSteps, Zenon
  <1>5. ASSUME NEW c \in Conns, Receive(c) PROVE WindowTypes'
    <2>0. UNCHANGED idOf
      BY <1>5, FirstFrame, Zenon DEF Types
    <2>1. PICK f \in UpFrames :
            \/ f.kind = "output" /\ f.chunk \in Chunk /\ Output(f.id, f.chunk) /\ UNCHANGED <<view, toCli>>
            \/ Settle(Watching(f.id)) /\ UNCHANGED <<seen, alarm>>
      BY <1>5, ReceiveCases, Zenon
    <2>2. CASE f.chunk \in Chunk /\ Output(f.id, f.chunk) /\ UNCHANGED <<view, toCli>>
      <3>1. \/ UNCHANGED seen
            \/ \E v \in Live : seen' = [seen EXCEPT ![v] = IF view[v] = "live" THEN Append(@, f.chunk) ELSE @]
        BY <2>2, OutputCases, UpFrameFields, Zenon
      <3>2. CASE UNCHANGED seen
        BY <3>2, <2>2, <2>0, <1>0, Zenon DEF WindowTypes
      <3>3. ASSUME NEW v \in Live, seen' = [seen EXCEPT ![v] = IF view[v] = "live" THEN Append(@, f.chunk) ELSE @]
            PROVE  WindowTypes'
        <4>1. v \in Viewers /\ seen \in [Viewers -> Seq(Chunk)]
          BY <1>0, LiveSubset, Zenon DEF WindowTypes
        <4>2. Append(seen[v], f.chunk) \in Seq(Chunk) /\ seen[v] \in Seq(Chunk)
          BY <4>1, <2>2, SMT
        <4>3. seen' \in [Viewers -> Seq(Chunk)]
          BY <3>3, <4>1, <4>2, SMT
        <4> QED BY <4>3, <2>2, <2>0, <1>0, Zenon DEF WindowTypes
      <3> QED BY <3>1, <3>2, <3>3, Zenon
    <2>3. CASE Settle(Watching(f.id)) /\ UNCHANGED <<seen, alarm>>
      BY <2>3, <2>0, <1>s, LiveSubset, Zenon
    <2> QED BY <2>1, <2>2, <2>3, Zenon
  <1>6. ASSUME Expire PROVE WindowTypes'
    <2>1. UNCHANGED <<idOf, seen>> /\ (Settle(Watching(row.id)) \/ UNCHANGED view)
      BY <1>6, ExpireCases, Zenon
    <2> QED BY <2>1, <1>s, <1>0, LiveSubset, Zenon DEF WindowTypes
  <1> QED BY <1>1, <1>2, <1>3, <1>4, <1>5, <1>6, <1>u, WindowsStay, Zenon DEF Next, Served

LEMMA StoreTypesStep ==
  ASSUME Types, IdsInv, Next
  PROVE  StoreTypes'
  <1>0. WindowTypes /\ StoreTypes /\ StoredType(row) /\ StoredType(pending)
    BY Zenon DEF Types, StoreTypes
  <1>s. ASSUME NEW W, W \subseteq Live, Settle(W), StoredType(row'), StoredType(pending')
        PROVE  StoreTypes'
    BY <1>0, <1>s, SettledWindows, Zenon DEF StoreTypes, StoredType
  <1>b. ASSUME UNCHANGED buffer, StoredType(row'), StoredType(pending')
        PROVE  StoreTypes'
    BY <1>0, <1>b, Zenon DEF StoreTypes, StoredType
  <1>u. ASSUME UNCHANGED relay PROVE StoreTypes'
    BY <1>0, <1>u, Zenon DEF StoreTypes, StoredType, relay
  <1>1. ASSUME NEW v \in Viewers, Accept(v) PROVE StoreTypes'
    <2>1. PICK s : /\ StoredType(s)
                   /\ buffer' = [p \in Viewers |-> IF p = v THEN [replay |-> s.replay, seeded |-> TRUE] ELSE NoBuffer]
                   /\ pending' = NoSession /\ StoredType(row')
      BY <1>1, AcceptEffect, ZenonT(60)
    <2> DEFINE made == [replay |-> s.replay, seeded |-> TRUE]
    <2>2. made \in [replay : Seq(Chunk), seeded : BOOLEAN] /\ Len(made.replay) <= MaxReplay
      BY <2>1, StoredRecord, SMT
    <2>3. Len(NoBuffer.replay) <= MaxReplay
      BY NoSessionType, Constants, SMT
    <2>4. buffer' = [p \in Viewers |-> IF p = v THEN made ELSE NoBuffer]
      BY <2>1
    <2> HIDE DEF made
    <2>5. buffer' \in [Viewers -> [replay : Seq(Chunk), seeded : BOOLEAN]]
      BY <2>4, <2>2, NoSessionType, SMT
    <2>6. \A p \in Viewers : buffer'[p] = made \/ buffer'[p] = NoBuffer
      BY <2>4, SMT
    <2>7. StoredType(pending')
      BY <2>1, NoSessionType, Zenon
    <2>8. \A p \in Viewers : Len(buffer'[p].replay) <= MaxReplay
      BY <2>2, <2>3, <2>6, Zenon
    <2> QED BY <2>1, <2>5, <2>7, <2>8, Zenon DEF StoreTypes, StoredType
  <1>2. ASSUME NEW v \in Viewers, Leave(v) \/ NoExecutor(v) PROVE StoreTypes'
    BY <1>2, <1>u, Zenon DEF Leave, NoExecutor
  <1>3. ASSUME NEW v \in Viewers, CloseSeen(v) PROVE StoreTypes'
    <2>1. {v} \subseteq Live /\ Settle({v})
      BY <1>3, SettlingSteps, Zenon
    <2>2. row' = Persisted(v) /\ pending' = Forgotten(pending, idOf[v])
      BY <1>3, Zenon DEF CloseSeen
    <2>3. v \in Live /\ idOf[v] \in Viewers
      BY <2>1, Zenon DEF IdsInv
    <2>4. StoredType(row') /\ StoredType(pending')
      BY <2>2, <2>3, <1>0, PersistedType, ForgottenType, Zenon
    <2> QED BY <2>1, <2>4, <1>s, Zenon
  <1>4. ASSUME NEW v \in Viewers, CloseShell(v) PROVE StoreTypes'
    <2>1. {v} \subseteq Live /\ Settle({v}) /\ Forget(idOf[v]) /\ idOf[v] \in Viewers
      BY <1>4, SettlingSteps, Zenon DEF CloseShell, IdsInv
    <2> QED BY <2>1, <1>s, ForgetEffect, Zenon
  <1>5. ASSUME CloseTarget PROVE StoreTypes'
    <2>1. Settle(Live) /\ Forget(row.id) /\ row # NoSession
      BY <1>5, Zenon DEF CloseTarget
    <2>2. row.id \in Viewers
      BY <2>1, <1>0, StoredRecord, Zenon DEF Ids
    <2> QED BY <2>1, <2>2, <1>s, ForgetEffect, Zenon
  <1>6. ASSUME NEW c \in Conns, Hello(c) \/ DropFinishes(c) PROVE StoreTypes'
    <2>1. Settle(Live) /\ row' = NoSession /\ pending' = NoSession
      BY <1>6, SettlingSteps, Zenon
    <2> QED BY <2>1, <1>s, NoSessionType, Zenon
  <1>7. ASSUME NEW c \in Conns, Receive(c) PROVE StoreTypes'
    <2>1. PICK f \in UpFrames :
            \/ f.kind = "output" /\ f.chunk \in Chunk /\ Output(f.id, f.chunk)
            \/ Settle(Watching(f.id)) /\ Forget(f.id)
      BY <1>7, ReceiveCases, Zenon
    <2>2. f.id \in Viewers /\ f.id # Nobody
      BY UpFrameFields, Constants, Zenon
    <2>3. CASE f.chunk \in Chunk /\ Output(f.id, f.chunk)
      <3>1. \/ UNCHANGED <<seen, buffer, row, pending, alarm>>
            \/ /\ \E v \in Live : buffer' = [buffer EXCEPT ![v].replay = AppendReplay(@, <<f.chunk>>)]
               /\ UNCHANGED <<row, pending, alarm>>
            \/ /\ f.id = row.id /\ UNCHANGED <<seen, buffer>>
               /\ LET next == [id |-> f.id, replay |-> AppendReplay(Flushed(row, pending).replay, <<f.chunk>>)]
                  IN  (row' = next /\ pending' = NoSession) \/ (pending' = next /\ row' = row)
        <4>1. \/ /\ f.id # row.id
                 /\ UNCHANGED <<seen, buffer, row, pending, alarm>>
              \/ /\ f.id = row.id
                 /\ \E v \in Live :
                      /\ seen' = [seen EXCEPT ![v] = IF view[v] = "live" THEN Append(@, f.chunk) ELSE @]
                      /\ buffer' = [buffer EXCEPT ![v].replay = AppendReplay(@, <<f.chunk>>)]
                 /\ UNCHANGED <<row, pending, alarm>>
              \/ /\ f.id = row.id /\ Live = {}
                 /\ LET next == [id |-> f.id, replay |-> AppendReplay(Flushed(row, pending).replay, <<f.chunk>>)]
                    IN  \/ row' = next /\ pending' = NoSession
                        \/ pending' = next /\ row' = row /\ alarm' = "soon"
                 /\ alarm' \in {"soon", "later"} /\ UNCHANGED <<seen, buffer>>
          BY <2>2, <2>3, OutputCases, Zenon
        <4>2. CASE f.id # row.id /\ UNCHANGED <<seen, buffer, row, pending, alarm>>
          BY <4>2, Zenon
        <4>3. CASE /\ \E v \in Live :
                        /\ seen' = [seen EXCEPT ![v] = IF view[v] = "live" THEN Append(@, f.chunk) ELSE @]
                        /\ buffer' = [buffer EXCEPT ![v].replay = AppendReplay(@, <<f.chunk>>)]
                   /\ UNCHANGED <<row, pending, alarm>>
          BY <4>3, Zenon
        <4>4. CASE /\ f.id = row.id
                   /\ LET next == [id |-> f.id, replay |-> AppendReplay(Flushed(row, pending).replay, <<f.chunk>>)]
                      IN  \/ row' = next /\ pending' = NoSession
                          \/ pending' = next /\ row' = row /\ alarm' = "soon"
                   /\ UNCHANGED <<seen, buffer>>
          <5> DEFINE next == [id |-> f.id, replay |-> AppendReplay(Flushed(row, pending).replay, <<f.chunk>>)]
          <5>1. /\ f.id = row.id /\ UNCHANGED <<seen, buffer>>
                /\ (row' = next /\ pending' = NoSession) \/ (pending' = next /\ row' = row)
            BY <4>4, Zenon
          <5> QED BY <5>1, Zenon
        <4> QED BY <4>1, <4>2, <4>3, <4>4, Zenon
      <3>2. CASE UNCHANGED <<seen, buffer, row, pending, alarm>>
        BY <3>2, <1>b, <1>0, Zenon
      <3>3. ASSUME NEW v \in Live, buffer' = [buffer EXCEPT ![v].replay = AppendReplay(@, <<f.chunk>>)],
                   UNCHANGED <<row, pending, alarm>>
            PROVE  StoreTypes'
        <4>1. v \in Viewers /\ buffer[v].replay \in Seq(Chunk) /\ Len(buffer[v].replay) <= MaxReplay
          BY <1>0, LiveSubset, BufferRecord, Zenon
        <4>2. /\ AppendReplay(buffer[v].replay, <<f.chunk>>) \in Seq(Chunk)
              /\ Len(AppendReplay(buffer[v].replay, <<f.chunk>>)) <= MaxReplay
          BY <4>1, <2>3, ReplayedOne, Zenon
        <4> DEFINE more == AppendReplay(buffer[v].replay, <<f.chunk>>)
        <4>3. buffer' = [buffer EXCEPT ![v].replay = more] /\ buffer \in [Viewers -> [replay : Seq(Chunk), seeded : BOOLEAN]]
          BY <3>3, <1>0, Zenon DEF StoreTypes
        <4> HIDE DEF more
        <4>4. more \in Seq(Chunk) /\ Len(more) <= MaxReplay
          BY <4>2 DEF more
        <4>a. /\ [buffer[v] EXCEPT !.replay = more] \in [replay : Seq(Chunk), seeded : BOOLEAN]
              /\ [buffer[v] EXCEPT !.replay = more].replay = more
          BY <4>1, <4>3, <4>4, BufferGrows, Zenon
        <4>b. buffer' = [buffer EXCEPT ![v] = [buffer[v] EXCEPT !.replay = more]]
          BY <4>1, <4>3, SMT
        <4>5. buffer' \in [Viewers -> [replay : Seq(Chunk), seeded : BOOLEAN]]
          BY <4>1, <4>3, <4>a, <4>b, Zenon
        <4>6. \A p \in Viewers : buffer'[p].replay = more \/ buffer'[p] = buffer[p]
          <5>1. \A p \in Viewers : buffer'[p] = IF p = v THEN [buffer[v] EXCEPT !.replay = more] ELSE buffer[p]
            BY <4>3, <4>b, Zenon
          <5> QED BY <5>1, <4>a, Zenon
        <4>7. \A p \in Viewers : Len(buffer'[p].replay) <= MaxReplay
          BY <4>4, <4>6, <1>0, Zenon DEF StoreTypes
        <4> QED BY <4>5, <4>7, <3>3, <1>0, Zenon DEF StoreTypes, StoredType
      <3>4. CASE /\ f.id = row.id /\ UNCHANGED <<seen, buffer>>
                 /\ LET next == [id |-> f.id, replay |-> AppendReplay(Flushed(row, pending).replay, <<f.chunk>>)]
                    IN  (row' = next /\ pending' = NoSession) \/ (pending' = next /\ row' = row)
        <4>1. StoredType([id |-> f.id, replay |-> AppendReplay(Flushed(row, pending).replay, <<f.chunk>>)])
          BY <3>4, <2>2, <2>3, NextStored, Zenon
        <4>2. StoredType(row') /\ StoredType(pending')
          BY <4>1, <3>4, <1>0, NoSessionType, Zenon
        <4> QED BY <4>2, <3>4, <1>b, Zenon
      <3> QED BY <3>1, <3>2, <3>3, <3>4, Zenon
    <2>4. CASE Settle(Watching(f.id)) /\ Forget(f.id)
      BY <2>2, <2>4, <1>s, LiveSubset, ForgetEffect, Zenon
    <2> QED BY <2>1, <2>3, <2>4, Zenon
  <1>8. ASSUME Expire PROVE StoreTypes'
    <2>1. StoredType(row') /\ pending' = NoSession /\ (Settle(Watching(row.id)) \/ UNCHANGED buffer)
      BY <1>8, ExpireCases, Zenon
    <2>2. StoredType(pending')
      BY <2>1, NoSessionType, Zenon
    <2> QED BY <2>1, <2>2, <1>s, <1>b, LiveSubset, Zenon
  <1>9. ASSUME Ages PROVE StoreTypes'
    BY <1>9, <1>b, <1>0, WindowsStay, Zenon
  <1>10. ASSUME Hibernate \/ Evict PROVE StoreTypes'
    <2>1. row' = row /\ pending' = NoSession /\ buffer' = [v \in Viewers |-> NoBuffer]
      BY <1>10, WindowsStay, Zenon DEF Wiped
    <2>2. buffer' \in [Viewers -> [replay : Seq(Chunk), seeded : BOOLEAN]]
      BY <2>1, NoSessionType, SMT
    <2>3. \A v \in Viewers : Len(buffer'[v].replay) <= MaxReplay
      BY <2>1, NoSessionType, Constants, SMT
    <2>4. StoredType(pending')
      BY <2>1, NoSessionType, Zenon
    <2> QED BY <2>1, <2>2, <2>3, <2>4, <1>0, Zenon DEF StoreTypes, StoredType
  <1> QED BY <1>1, <1>2, <1>3, <1>4, <1>5, <1>6, <1>7, <1>8, <1>9, <1>10, <1>u, WindowsStay, Zenon DEF Next, Served

LEMMA ClockTypesStep ==
  ASSUME Types, IdsInv, Next
  PROVE  ClockTypes'
  <1>0. ClockTypes
    BY Zenon DEF Types
  <1>f. Event => events' \in 0 .. MaxEvents
    BY <1>0, Constants, SMT DEF Event, ClockTypes
  <1>u. ASSUME UNCHANGED <<alarm, aged, slept, events>> PROVE ClockTypes'
    BY <1>0, <1>u, Zenon DEF ClockTypes
  <1>d. \A s, q : Deadline(s, q) \in {"none", "later", "soon"}
    BY Quiet, Zenon
  <1>1. ASSUME NEW v \in Viewers, Accept(v) PROVE ClockTypes'
    <2>1. alarm' = "later" /\ aged' \in BOOLEAN /\ UNCHANGED <<events, slept>>
      BY <1>1, AcceptEffect, Zenon
    <2> QED BY <2>1, <1>0, Zenon DEF ClockTypes
  <1>2. ASSUME NEW v \in Viewers, Leave(v) \/ NoExecutor(v) \/ CloseShell(v) PROVE ClockTypes'
    BY <1>2, <1>u, Zenon DEF Leave, NoExecutor, CloseShell, relay
  <1>3. ASSUME NEW v \in Viewers, CloseSeen(v) PROVE ClockTypes'
    <2>1. alarm' = Deadline(row', pending') /\ UNCHANGED <<aged, events, slept>>
      BY <1>3, Zenon DEF CloseSeen
    <2> QED BY <2>1, <1>d, <1>0, Zenon DEF ClockTypes
  <1>4. ASSUME NEW v \in Viewers, Input(v) PROVE ClockTypes'
    <2>1. Event /\ UNCHANGED <<alarm, aged, slept>>
      BY <1>4, Zenon DEF Input, relay
    <2> QED BY <2>1, <1>f, <1>0, Zenon DEF ClockTypes
  <1>5. ASSUME CloseTarget PROVE ClockTypes'
    <2>1. alarm' = Deadline(row', pending') /\ UNCHANGED <<aged, events, slept>>
      BY <1>5, Zenon DEF CloseTarget
    <2> QED BY <2>1, <1>d, <1>0, Zenon DEF ClockTypes
  <1>6. ASSUME NEW c \in Conns, Receive(c) PROVE ClockTypes'
    <2>1. UNCHANGED <<aged, events, slept>>
      BY <1>6, FirstFrame, Zenon DEF Types
    <2>2. PICK f \in UpFrames :
            \/ f.chunk \in Chunk /\ Output(f.id, f.chunk)
            \/ UNCHANGED alarm
      BY <1>6, ReceiveCases, Zenon
    <2>3. f.id \in Viewers
      BY UpFrameFields, Zenon
    <2>4. UNCHANGED alarm \/ alarm' \in {"soon", "later"}
      BY <2>2, <2>3, OutputCases, Zenon
    <2> QED BY <2>1, <2>4, <1>0, Zenon DEF ClockTypes
  <1>7. ASSUME NEW c \in Conns, Dial(c) \/ SocketEnds(c) PROVE ClockTypes'
    BY <1>7, <1>u, Zenon DEF Dial, SocketEnds, relay
  <1>8. ASSUME NEW c \in Conns, Hello(c) PROVE ClockTypes'
    <2>1. alarm' = "none" /\ UNCHANGED <<aged, events, slept>>
      BY <1>8, Zenon DEF Hello
    <2> QED BY <2>1, <1>0, Zenon DEF ClockTypes
  <1>9. ASSUME NEW c \in Conns, DropFinishes(c) PROVE ClockTypes'
    BY <1>9, <1>u, Zenon DEF DropFinishes
  <1>10. ASSUME Ages PROVE ClockTypes'
    <2>1. aged' = TRUE /\ UNCHANGED <<alarm, events, slept>>
      BY <1>10, Zenon DEF Ages
    <2> QED BY <2>1, <1>0, Zenon DEF ClockTypes
  <1>11. ASSUME Expire PROVE ClockTypes'
    <2>1. alarm' \in {"none", "later"} /\ UNCHANGED <<aged, events, slept>>
      BY <1>11, ExpireCases, Zenon
    <2> QED BY <2>1, <1>0, Zenon DEF ClockTypes
  <1>12. ASSUME Hibernate PROVE ClockTypes'
    <2>1. slept' = (slept \/ Unstored) /\ UNCHANGED <<alarm, aged, events>>
      BY <1>12, Zenon DEF Hibernate, Wiped
    <2>2. slept' \in BOOLEAN
      BY <2>1, SMT
    <2> QED BY <2>1, <2>2, <1>0, Zenon DEF ClockTypes
  <1>13. ASSUME Evict PROVE ClockTypes'
    <2>1. slept' = TRUE /\ Event /\ UNCHANGED <<alarm, aged>>
      BY <1>13, Zenon DEF Evict, Wiped
    <2> QED BY <2>1, <1>f, <1>0, Zenon DEF ClockTypes
  <1>14. ASSUME ConnectionEnds PROVE ClockTypes'
    <2>1. Event /\ UNCHANGED <<alarm, aged, slept>>
      BY <1>14, Zenon DEF ConnectionEnds, relay
    <2> QED BY <2>1, <1>f, <1>0, Zenon DEF ClockTypes
  <1>15. ASSUME Served \/ Waits PROVE ClockTypes'
    <2>1. (Event \/ UNCHANGED events) /\ UNCHANGED <<alarm, aged, slept>>
      BY <1>15, Zenon DEF Served, Handle, Overtakes, Overtake, Serve, Open, Waits, Hold, Release, relay
    <2> QED BY <2>1, <1>f, <1>0, Zenon DEF ClockTypes
  <1>16. ASSUME Write \/ \E id \in Viewers : KilledExits(id) PROVE ClockTypes'
    BY <1>16, <1>u, Zenon DEF Write, KilledExits, relay
  <1>17. ASSUME Exit PROVE ClockTypes'
    <2>1. (Event \/ UNCHANGED events) /\ UNCHANGED <<alarm, aged, slept>>
      BY <1>17, Zenon DEF Exit, relay
    <2> QED BY <2>1, <1>f, <1>0, Zenon DEF ClockTypes
  <1> QED BY <1>1, <1>2, <1>3, <1>4, <1>5, <1>6, <1>7, <1>8, <1>9, <1>10, <1>11, <1>12, <1>13, <1>14,
             <1>15, <1>16, <1>17, Zenon DEF Next, Served

\* A connection that ends leaves the CLI without one.
LEMMA OwnConn ==
  ASSUME LinkTypes
  PROVE  /\ Executor \subseteq Conns /\ (conn # 0 => conn \in Conns) /\ 0 \notin Conns
         /\ 0 \in 0 .. MaxConns /\ Conns \subseteq 0 .. MaxConns
         /\ \A c \in Conns : socket[c] = "active" <=> c \in Executor
  BY Constants, SMT DEF LinkTypes, Executor, Conns

LEMMA LinkTypesStep ==
  ASSUME Types, IdsInv, Next
  PROVE  LinkTypes'
  <1>0. LinkTypes /\ 0 \in 0 .. MaxConns /\ Conns \subseteq 0 .. MaxConns
    BY OwnConn, Zenon DEF Types
  <1>u. ASSUME UNCHANGED links PROVE LinkTypes'
    BY <1>0, <1>u, Zenon DEF LinkTypes, links
  <1>1. ASSUME NEW c \in Conns, Dial(c) PROVE LinkTypes'
    BY <1>1, <1>0, SMT DEF LinkTypes, Dial
  <1>2. ASSUME NEW c \in Conns, Hello(c) PROVE LinkTypes'
    <2>1. /\ socket' = [d \in Conns |-> IF d = c THEN "active"
                                ELSE IF socket[d] \in {"accepted", "active"} THEN "replaced" ELSE socket[d]]
          /\ UNCHANGED <<dropping, conn>>
      BY <1>2, Zenon DEF Hello
    <2> QED BY <2>1, <1>0, SMT DEF LinkTypes
  <1>3. ASSUME NEW c \in Conns, SocketEnds(c) PROVE LinkTypes'
    <2>1. /\ socket' = [socket EXCEPT ![c] = "closed"] /\ conn' = conn
          /\ dropping' = dropping \/ dropping' = dropping \cup {c}
      BY <1>3, Zenon DEF SocketEnds
    <2>2. dropping' \subseteq Conns
      BY <2>1, <1>0, Zenon DEF LinkTypes
    <2>3. socket' \in [Conns -> {"none", "accepted", "active", "replaced", "closed"}]
      BY <2>1, <1>0, SMT DEF LinkTypes
    <2> QED BY <2>1, <2>2, <2>3, <1>0, Zenon DEF LinkTypes
  <1>4. ASSUME NEW c \in Conns, DropFinishes(c) PROVE LinkTypes'
    <2>1. dropping' = dropping \ {c} /\ UNCHANGED <<socket, conn>>
      BY <1>4, Zenon DEF DropFinishes
    <2>2. dropping' \subseteq Conns
      BY <2>1, <1>0, Zenon DEF LinkTypes
    <2> QED BY <2>1, <2>2, <1>0, Zenon DEF LinkTypes
  <1>5. ASSUME ConnectionEnds PROVE LinkTypes'
    <2>1. conn' = 0 /\ UNCHANGED <<socket, dropping>>
      BY <1>5, Zenon DEF ConnectionEnds
    <2> QED BY <2>1, <1>0, Zenon DEF LinkTypes
  <1>6. ASSUME Hibernate \/ Evict PROVE LinkTypes'
    <2>1. UNCHANGED <<socket, conn>> /\ (dropping' = {} \/ UNCHANGED dropping)
      BY <1>6, Zenon DEF Hibernate, Evict, Wiped
    <2>2. dropping' \subseteq Conns
      BY <2>1, <1>0, Zenon DEF LinkTypes
    <2> QED BY <2>1, <2>2, <1>0, Zenon DEF LinkTypes
  <1>7. ASSUME NEW v \in Viewers, Accept(v) \/ Leave(v) \/ CloseSeen(v) \/ NoExecutor(v) \/ Input(v) \/ CloseShell(v)
        PROVE  LinkTypes'
    BY <1>7, <1>u, Zenon DEF Accept, Leave, CloseSeen, NoExecutor, Input, CloseShell
  <1>8. ASSUME CloseTarget \/ Ages \/ Expire \/ Served \/ Waits \/ Write \/ Exit PROVE LinkTypes'
    BY <1>8, <1>u, Zenon DEF CloseTarget, Ages, Expire, Served, Handle, Overtakes, Overtake, Waits, Hold, Release,
                             Write, Exit
  <1>9. ASSUME NEW c \in Conns, Receive(c) PROVE LinkTypes'
    BY <1>9, <1>u, Zenon DEF Receive
  <1>10. ASSUME NEW id \in Viewers, KilledExits(id) PROVE LinkTypes'
    BY <1>10, <1>u, Zenon DEF KilledExits
  <1> QED BY <1>1, <1>2, <1>3, <1>4, <1>5, <1>6, <1>7, <1>8, <1>9, <1>10, Zenon DEF Next, Served

----------------------------------------------------------------------------
(* Frames *)

LEMMA InFew ==
  /\ In(<<>>) = {}
  /\ \A x : In(<<x>>) = {x}
  /\ \A x, y : In(<<x, y>>) = {x, y}
  BY DEF In

LEMMA OneFrame ==
  ASSUME NEW f, NEW e \in In(<<f>>)
  PROVE  e = f
  BY InFew

LEMMA TwoFrames ==
  ASSUME NEW f, NEW g, NEW e \in In(<<f, g>>)
  PROVE  e = f \/ e = g
  BY InFew

LEMMA Said ==
  ASSUME FrameTypes, conn \in Conns, NEW fs \in Seq(UpFrames), Says(fs)
  PROVE  /\ toGateway' \in [Conns -> Seq(UpFrames)]
         /\ toGateway'[conn] = toGateway[conn] \o fs
         /\ \A c \in Conns : c # conn => toGateway'[c] = toGateway[c]
         /\ \A c \in Conns : /\ In(toGateway[c]) \subseteq In(toGateway'[c])
                             /\ In(toGateway'[c]) \subseteq In(toGateway[c]) \cup In(fs)
         /\ In(fs) \subseteq In(toGateway'[conn])
  <1>1. \A c \in Conns : toGateway[c] \in Seq(UpFrames)
    BY DEF FrameTypes
  <1>2. /\ toGateway[conn] \o fs \in Seq(UpFrames)
        /\ In(toGateway[conn] \o fs) = In(toGateway[conn]) \cup In(fs)
    BY <1>1, InConcat, Zenon
  <1> DEFINE more == toGateway[conn] \o fs
  <1>3. toGateway' = [toGateway EXCEPT ![conn] = more]
    BY DEF Says
  <1> HIDE DEF more
  <1>4. \A c \in Conns : toGateway'[c] = IF c = conn THEN more ELSE toGateway[c]
    BY <1>3 DEF FrameTypes
  <1>5. toGateway' \in [Conns -> Seq(UpFrames)]
    BY <1>1, <1>2, <1>3, SMT DEF FrameTypes, more
  <1> QED BY <1>2, <1>4, <1>5, Zenon DEF more

LEMMA SaidNothing ==
  ASSUME FrameTypes, Says(<<>>)
  PROVE  toGateway' = toGateway
  <1>1. \A c \in Conns : toGateway[c] \in Seq(UpFrames) /\ toGateway[c] \o <<>> = toGateway[c]
    BY SMT DEF FrameTypes
  <1>2. toGateway' = [toGateway EXCEPT ![conn] = toGateway[conn] \o <<>>]
    BY DEF Says
  <1> QED
    <2> DEFINE more == toGateway[conn] \o <<>>
    <2>1. conn \in Conns => more = toGateway[conn]
      BY <1>1
    <2> HIDE DEF more
    <2>2. toGateway' = [toGateway EXCEPT ![conn] = more]
      BY <1>2 DEF more
    <2> QED BY <2>1, <2>2, SMT DEF FrameTypes

LEMMA FirstTaken ==
  ASSUME FrameTypes, conn \in Conns, toCli[conn] # <<>>, toCli' = [toCli EXCEPT ![conn] = Tail(@)]
  PROVE  /\ toCli' \in [Conns -> Seq(Down)]
         /\ \A c \in Conns : In(toCli'[c]) \subseteq In(toCli[c]) /\ (c # conn => toCli'[c] = toCli[c])
         /\ toCli'[conn] = Tail(toCli[conn])
         /\ Head(toCli[conn]) \in Down /\ Head(toCli[conn]) \in In(toCli[conn])
  <1>1. \A c \in Conns : toCli[c] \in Seq(Down)
    BY DEF FrameTypes
  <1>2. Head(toCli[conn]) \in In(toCli[conn]) /\ In(Tail(toCli[conn])) \subseteq In(toCli[conn])
    BY <1>1, InTail, Zenon
  <1>3. Head(toCli[conn]) \in Down
    BY <1>1, <1>2, InSeq, Zenon
  <1>4. Tail(toCli[conn]) \in Seq(Down)
    BY <1>1, HeadTailProperties, Zenon
  <1>5. \A c \in Conns : toCli'[c] = IF c = conn THEN Tail(toCli[conn]) ELSE toCli[c]
    BY DEF FrameTypes
  <1>6. toCli' \in [Conns -> Seq(Down)]
    BY <1>1, <1>4, SMT DEF FrameTypes
  <1> QED BY <1>2, <1>3, <1>5, <1>6, Zenon

LEMMA OtherTaken ==
  ASSUME FrameTypes, conn \in Conns, NEW i \in DOMAIN toCli[conn],
         toCli' = [toCli EXCEPT ![conn] = Without(@, i)]
  PROVE  /\ toCli' \in [Conns -> Seq(Down)]
         /\ \A c \in Conns : In(toCli'[c]) \subseteq In(toCli[c]) /\ (c # conn => toCli'[c] = toCli[c])
         /\ toCli[conn][i] \in Down /\ toCli[conn][i] \in In(toCli[conn])
  <1> DEFINE q == toCli[conn]
             w == Without(q, i)
  <1>1. q \in Seq(Down) /\ \A c \in Conns : toCli'[c] = IF c = conn THEN w ELSE toCli[c]
    BY DEF FrameTypes
  <1> HIDE DEF q
  <1>2. i \in 1 .. Len(q) /\ Len(q) \in Nat /\ q \in [1 .. Len(q) -> Down]
    BY <1>1 DEF q
  <1>3. w \in Seq(Down) /\ DOMAIN w = 1 .. Len(q) - 1
    BY <1>2, SMT DEF Without
  <1>4. In(w) \subseteq In(q)
    <2> SUFFICES ASSUME NEW j \in 1 .. Len(q) - 1 PROVE w[j] \in In(q)
      BY <1>3, Zenon DEF In
    <2>1. PICK k \in DOMAIN q : w[j] = q[k]
      BY <1>2, SMT DEF Without
    <2> QED BY <2>1, Zenon DEF In
  <1>5. q[i] \in Down /\ q[i] \in In(q)
    BY <1>2, SMT DEF In
  <1>6. \A c \in Conns : In(toCli'[c]) \subseteq In(toCli[c]) /\ (c # conn => toCli'[c] = toCli[c])
    BY <1>1, <1>4, Zenon DEF q
  <1>7. toCli' \in [Conns -> Seq(Down)]
    <2> HIDE DEF w
    <2>1. toCli' = [toCli EXCEPT ![conn] = w]
      BY DEF w, q
    <2> QED BY <2>1, <1>3, SMT DEF FrameTypes
  <1> QED BY <1>5, <1>6, <1>7, Zenon DEF q

\* What the CLI does with a frame of the object.
Answers(f) ==
  \/ /\ f.kind = "open" /\ shell # NoShell /\ shell' = [shell EXCEPT !.id = f.id]
     /\ UNCHANGED <<shells, ending, toGateway>>
  \/ /\ f.kind = "open" /\ shell = NoShell
     /\ shells < MaxShells /\ shells' = shells + 1
     /\ shell' = [id |-> f.id, gen |-> shells + 1, out |-> 0]
     /\ UNCHANGED <<ending, toGateway>>
  \/ /\ f.kind = "open" /\ shell = NoShell
     /\ Says(<<Frame("error", f.id)>>) /\ UNCHANGED cli
  \/ /\ f.kind = "input" /\ UNCHANGED cli
     /\ toGateway' = toGateway \/ Says(<<Frame("error", f.id)>>)
  \/ /\ f.kind = "close" /\ shell.id = f.id
     /\ shell' = NoShell /\ ending' = ending \cup {f.id}
     /\ UNCHANGED <<shells, toGateway>>
  \/ f.kind = "close" /\ shell.id # f.id /\ UNCHANGED <<cli, toGateway>>

LEMMA ServeCases ==
  ASSUME FrameTypes, NEW f, Serve(f)
  PROVE  Answers(f)
  <1>1. \/ f.kind = "open" /\ Open(f.id) /\ UNCHANGED ending
        \/ /\ f.kind = "input" /\ UNCHANGED cli
           /\ Says(<<>>) \/ Says(<<Frame("error", f.id)>>)
        \/ /\ f.kind = "close" /\ UNCHANGED <<shells, toGateway>>
           /\ IF shell.id = f.id THEN shell' = NoShell /\ ending' = ending \cup {f.id}
              ELSE UNCHANGED <<shell, ending>>
    BY Zenon DEF Serve
  <1>2. Says(<<>>) => toGateway' = toGateway
    BY SaidNothing
  <1> QED BY <1>1, <1>2, Zenon DEF Open, cli, Answers

LEMMA HandleCases ==
  ASSUME Types, Handle
  PROVE  /\ conn \in Conns /\ toCli[conn] # <<>>
         /\ toCli' = [toCli EXCEPT ![conn] = Tail(@)] /\ toCli' \in [Conns -> Seq(Down)]
         /\ \A c \in Conns : In(toCli'[c]) \subseteq In(toCli[c]) /\ (c # conn => toCli'[c] = toCli[c])
         /\ UNCHANGED <<windows, relay, links, slept>>
         /\ \E f \in Down : f = Head(toCli[conn]) /\ f \in In(toCli[conn]) /\ Answers(f)
  <1>0. FrameTypes /\ LinkTypes
    BY Zenon DEF Types
  <1>1. /\ conn # 0 /\ toCli[conn] # <<>> /\ toCli' = [toCli EXCEPT ![conn] = Tail(@)]
        /\ UNCHANGED <<windows, relay, links, slept>> /\ Serve(Head(toCli[conn]))
    BY Zenon DEF Handle
  <1>2. conn \in Conns
    BY <1>0, <1>1, OwnConn, Zenon
  <1>3. /\ toCli' \in [Conns -> Seq(Down)] /\ Head(toCli[conn]) \in Down /\ Head(toCli[conn]) \in In(toCli[conn])
        /\ \A c \in Conns : In(toCli'[c]) \subseteq In(toCli[c]) /\ (c # conn => toCli'[c] = toCli[c])
    BY <1>0, <1>1, <1>2, FirstTaken, Zenon
  <1>4. Answers(Head(toCli[conn]))
    BY <1>0, <1>1, ServeCases, Zenon
  <1> QED BY <1>1, <1>2, <1>3, <1>4, Zenon

LEMMA ServedCases ==
  ASSUME Types, Served
  PROVE  /\ conn \in Conns /\ toCli[conn] # <<>> /\ toCli' \in [Conns -> Seq(Down)]
         /\ \A c \in Conns : In(toCli'[c]) \subseteq In(toCli[c]) /\ (c # conn => toCli'[c] = toCli[c])
         /\ UNCHANGED <<windows, relay, links, slept>>
         /\ \E f \in Down : f \in In(toCli[conn]) /\ Answers(f)
  <1>1. CASE Handle
    BY <1>1, HandleCases, Zenon
  <1>2. CASE Overtakes
    <2>0. FrameTypes /\ LinkTypes
      BY Zenon DEF Types
    <2>1. PICK i \in DOMAIN toCli[conn] :
            /\ conn # 0 /\ toCli' = [toCli EXCEPT ![conn] = Without(@, i)]
            /\ UNCHANGED <<windows, relay, links, slept>> /\ Serve(toCli[conn][i])
      BY <1>2, Zenon DEF Overtakes, Overtake
    <2>2. conn \in Conns
      BY <2>0, <2>1, OwnConn, Zenon
    <2>3. /\ toCli' \in [Conns -> Seq(Down)] /\ toCli[conn][i] \in Down /\ toCli[conn][i] \in In(toCli[conn])
          /\ \A c \in Conns : In(toCli'[c]) \subseteq In(toCli[c]) /\ (c # conn => toCli'[c] = toCli[c])
      BY <2>0, <2>1, <2>2, OtherTaken, Zenon
    <2>4. Answers(toCli[conn][i])
      BY <2>0, <2>1, ServeCases, Zenon
    <2>5. toCli[conn] # <<>>
      BY <2>3, InFew, Zenon
    <2> QED BY <2>1, <2>2, <2>3, <2>4, <2>5, Zenon
  <1> QED BY <1>1, <1>2, Zenon DEF Served

\* A session that waits at the gate, or no longer does, changes nothing else.
LEMMA WaitsCases ==
  /\ Waits => UNCHANGED <<windows, relay, links, frames, cli, slept>>
  /\ Waits => UNCHANGED <<view, idOf, seen, buffer, row, pending, alarm, aged, socket, dropping, conn,
                          toCli, toGateway, shell, shells, ending, slept>>
  BY Zenon DEF Waits, Hold, Release, windows, relay, links, frames, cli

LEMMA GateTypesStep ==
  ASSUME Types, Next
  PROVE  GateTypes' /\ (crossed' \/ (~crossed /\ ~Overtakes))
  <1>0. GateTypes /\ FrameTypes /\ LinkTypes
    BY Zenon DEF Types
  <1>1. ASSUME NEW i \in DOMAIN toCli[conn], conn # 0, Hold(i)
        PROVE  held' \subseteq Viewers /\ crossed' = crossed
    <2>1. conn \in Conns
      BY <1>0, <1>1, OwnConn, Zenon
    <2>2. toCli[conn][i].id \in Viewers
      <3>1. toCli[conn] \in Seq(Down)
        BY <1>0, <2>1 DEF FrameTypes
      <3>2. toCli[conn][i] \in Down
        BY <3>1, SMT
      <3> QED BY <3>2, DownFields, Zenon
    <2>3. held' = held \cup {toCli[conn][i].id} /\ crossed' = crossed
      BY <1>1, Zenon DEF Hold
    <2> QED BY <2>2, <2>3, <1>0, Zenon DEF GateTypes
  <1>2. ASSUME NEW id, Release(id) PROVE held' \subseteq Viewers /\ crossed' = crossed
    BY <1>2, <1>0, Zenon DEF Release, GateTypes
  <1>3. Overtakes => held' = held /\ crossed' = TRUE
    BY Zenon DEF Overtakes, Overtake
  <1>4. ConnectionEnds => held' = {} /\ crossed' = crossed
    BY Zenon DEF ConnectionEnds
  <1>5. ASSUME NEW v \in Viewers, Accept(v) \/ Leave(v) \/ CloseSeen(v) \/ NoExecutor(v) \/ Input(v) \/ CloseShell(v)
        PROVE  UNCHANGED gate
    BY <1>5, Zenon DEF Accept, Leave, CloseSeen, NoExecutor, Input, CloseShell
  <1>6. ASSUME NEW c \in Conns, Receive(c) \/ Dial(c) \/ Hello(c) \/ SocketEnds(c) \/ DropFinishes(c)
        PROVE  UNCHANGED gate
    BY <1>6, Zenon DEF Receive, Dial, Hello, SocketEnds, DropFinishes
  <1>7. ASSUME CloseTarget \/ Ages \/ Expire \/ Hibernate \/ Evict PROVE UNCHANGED gate
    BY <1>7, Zenon DEF CloseTarget, Ages, Expire, Hibernate, Evict, Wiped
  <1>8. ASSUME Handle \/ Write \/ Exit \/ \E id \in Viewers : KilledExits(id) PROVE UNCHANGED gate
    BY <1>8, Zenon DEF Handle, Write, Exit, KilledExits
  <1>9. Overtakes \/ (held' \subseteq Viewers /\ crossed' = crossed)
    <2>1. UNCHANGED gate => held' \subseteq Viewers /\ crossed' = crossed
      BY <1>0, Zenon DEF gate, GateTypes
    <2> QED BY <2>1, <1>1, <1>2, <1>4, <1>5, <1>6, <1>7, <1>8, Zenon DEF Next, Waits
  <1>10. crossed = TRUE \/ crossed = FALSE
    BY <1>0, Zenon DEF GateTypes
  <1>11. crossed' = crossed => crossed' \in BOOLEAN
    BY <1>10
  <1>12. crossed = FALSE => ~crossed
    BY Zenon
  <1>13. ASSUME crossed' = crossed, crossed = TRUE PROVE crossed'
    <2>1. crossed' = TRUE
      BY <1>13
    <2> QED BY <2>1, Zenon
  <1>14. crossed' = TRUE => crossed' /\ crossed' \in BOOLEAN
    BY Zenon
  <1>15. GateTypes'
    BY <1>0, <1>3, <1>9, <1>11, <1>14, Zenon DEF GateTypes
  <1> QED BY <1>3, <1>9, <1>10, <1>12, <1>13, <1>14, <1>15, Zenon

LEMMA ListedId ==
  ASSUME Types, IdsInv
  PROVE  /\ row # NoSession => row.id \in Viewers
         /\ row.id # Nobody => row.id \in Viewers /\ row # NoSession
         /\ \A v \in Live : idOf[v] \in Viewers
         /\ Viewers \cap {Nobody} = {}
  <1>1. StoredType(row)
    BY Zenon DEF Types, StoreTypes
  <1> QED BY <1>1, StoredRecord, Constants, NoSessionType, Zenon DEF Ids, IdsInv

\* What a shell, or a thread that waits for one, says.
LEMMA ShellSpeaks ==
  ASSUME Types, ConnInv
  PROVE  /\ Write => /\ conn \in Conns /\ shell # NoShell /\ shell.out < MaxOut
                     /\ shell.id \in Viewers /\ shell.gen \in 1 .. shells /\ shell.gen \in 1 .. MaxShells
                     /\ shell.out + 1 \in 1 .. MaxOut
                     /\ <<shell.gen, shell.out + 1>> \in Chunk
                     /\ <<[kind |-> "output", id |-> shell.id, chunk |-> <<shell.gen, shell.out + 1>>]>>
                          \in Seq(UpFrames)
         /\ Exit => /\ conn \in Conns /\ shell # NoShell /\ shell.id \in Viewers
                    /\ \E fs \in Seq(UpFrames) :
                         /\ Says(fs) /\ Frame("exit", shell.id) \in In(fs)
                         /\ fs = <<Frame("exit", shell.id)>> \/ fs = <<Frame("error", shell.id), Frame("exit", shell.id)>>
         /\ \A id \in Viewers : KilledExits(id) =>
              /\ conn \in Conns /\ id \in ending
              /\ <<Frame("exit", id)>> \in Seq(UpFrames) /\ Says(<<Frame("exit", id)>>)
  <1>0. ShellTypes /\ LinkTypes
    BY Zenon DEF Types
  <1>1. shell # NoShell => conn \in Conns /\ shell.id \in Viewers /\ shell.gen \in 1 .. shells
    BY <1>0, OwnConn, Zenon DEF ConnInv, ShellTypes, Ids, NoShell
  <1>2. ASSUME Write
        PROVE  /\ conn \in Conns /\ shell # NoShell /\ shell.out < MaxOut
               /\ shell.id \in Viewers /\ shell.gen \in 1 .. shells /\ shell.gen \in 1 .. MaxShells
               /\ shell.out + 1 \in 1 .. MaxOut
               /\ <<shell.gen, shell.out + 1>> \in Chunk
               /\ <<[kind |-> "output", id |-> shell.id, chunk |-> <<shell.gen, shell.out + 1>>]>> \in Seq(UpFrames)
    <2>1. shell # NoShell /\ shell.out < MaxOut
      BY <1>2, Zenon DEF Write
    <2>2. shell.gen \in 1 .. MaxShells /\ shell.out + 1 \in 1 .. MaxOut
      BY <2>1, <1>0, <1>1, Constants, SMT DEF ShellTypes
    <2>3. <<shell.gen, shell.out + 1>> \in Chunk
      BY <2>2, NewChunk, Zenon
    <2> DEFINE f == [kind |-> "output", id |-> shell.id, chunk |-> <<shell.gen, shell.out + 1>>]
    <2>4. f \in UpFrames
      BY <2>1, <2>3, <1>1, DownFrames, Zenon
    <2> HIDE DEF f
    <2>5. <<f>> \in Seq(UpFrames)
      BY <2>4, SMT
    <2> QED BY <2>1, <2>2, <2>3, <2>5, <1>1, Zenon DEF f
  <1>3. ASSUME Exit
        PROVE  /\ conn \in Conns /\ shell # NoShell /\ shell.id \in Viewers
               /\ \E fs \in Seq(UpFrames) :
                    /\ Says(fs) /\ Frame("exit", shell.id) \in In(fs)
                    /\ fs = <<Frame("exit", shell.id)>> \/ fs = <<Frame("error", shell.id), Frame("exit", shell.id)>>
    <2>1. /\ shell # NoShell
          /\ Says(<<Frame("exit", shell.id)>>) \/ Says(<<Frame("error", shell.id), Frame("exit", shell.id)>>)
      BY <1>3, Zenon DEF Exit
    <2>2. Frame("exit", shell.id) \in UpFrames /\ Frame("error", shell.id) \in UpFrames
      BY <2>1, <1>1, DownFrames, Zenon
    <2>3. /\ <<Frame("exit", shell.id)>> \in Seq(UpFrames)
          /\ <<Frame("error", shell.id), Frame("exit", shell.id)>> \in Seq(UpFrames)
      BY <2>2, SMT
    <2>4. /\ Frame("exit", shell.id) \in In(<<Frame("exit", shell.id)>>)
          /\ Frame("exit", shell.id) \in In(<<Frame("error", shell.id), Frame("exit", shell.id)>>)
      <3>1. /\ In(<<Frame("exit", shell.id)>>) = {Frame("exit", shell.id)}
            /\ In(<<Frame("error", shell.id), Frame("exit", shell.id)>>)
                 = {Frame("error", shell.id), Frame("exit", shell.id)}
        BY InFew, Zenon
      <3> QED BY <3>1
    <2> QED BY <2>1, <2>3, <2>4, <1>1, Zenon
  <1>4. ASSUME NEW id \in Viewers, KilledExits(id)
        PROVE  /\ conn \in Conns /\ id \in ending
               /\ <<Frame("exit", id)>> \in Seq(UpFrames) /\ Says(<<Frame("exit", id)>>)
    <2>1. id \in ending /\ Says(<<Frame("exit", id)>>)
      BY <1>4, Zenon DEF KilledExits
    <2>2. conn \in Conns
      BY <2>1, <1>0, OwnConn, Zenon DEF ConnInv
    <2>3. Frame("exit", id) \in UpFrames
      BY DownFrames, Zenon
    <2>4. <<Frame("exit", id)>> \in Seq(UpFrames)
      BY <2>3, SMT
    <2> QED BY <2>1, <2>2, <2>4, Zenon
  <1> QED BY <1>2, <1>3, <1>4, Zenon

\* The frames that a step sends to the machine, and to whom.
LEMMA SendingSteps ==
  ASSUME Types, IdsInv
  PROVE  /\ \A v \in Viewers : Input(v) => idOf[v] \in Viewers /\ ToExecutor(Frame("input", idOf[v]))
         /\ \A v \in Viewers : CloseShell(v) => /\ idOf[v] \in Viewers /\ idOf[v] = row.id
                                                /\ Forget(row.id) /\ ToExecutor(Frame("close", row.id))
         /\ CloseTarget => /\ row.id \in Viewers /\ Forget(row.id)
                           /\ ToExecutor(Frame("close", row.id))
  <1>1. \A v \in Viewers : view[v] = "live" => v \in Live
    BY DEF Live
  <1>2. \A v \in Viewers : Input(v) => view[v] = "live" /\ ToExecutor(Frame("input", idOf[v]))
    BY Zenon DEF Input
  <1>3. \A v \in Viewers : CloseShell(v) => /\ view[v] = "live" /\ ToExecutor(Frame("close", idOf[v]))
                                            /\ Forget(idOf[v])
    BY Zenon DEF CloseShell
  <1>4. CloseTarget => row # NoSession /\ Forget(row.id) /\ ToExecutor(Frame("close", row.id))
    BY Zenon DEF CloseTarget
  <1>5. \A v \in Live : idOf[v] \in Viewers /\ idOf[v] = row.id
    BY Zenon DEF IdsInv
  <1> QED BY <1>1, <1>2, <1>3, <1>4, <1>5, ListedId, Zenon

LEMMA FrameTypesStep ==
  ASSUME Types, IdsInv, ConnInv, Next
  PROVE  FrameTypes'
  <1>0. FrameTypes /\ LinkTypes /\ toCli \in [Conns -> Seq(Down)] /\ toGateway \in [Conns -> Seq(UpFrames)]
    BY Zenon DEF Types, FrameTypes
  <1>u. ASSUME UNCHANGED frames PROVE FrameTypes'
    BY <1>0, <1>u, Zenon DEF FrameTypes, frames
  <1>s. ASSUME NEW f \in Down, ToExecutor(f), UNCHANGED toGateway PROVE FrameTypes'
    BY <1>0, <1>s, Sent, Zenon DEF FrameTypes
  <1>t. ASSUME NEW fs \in Seq(UpFrames), conn \in Conns, Says(fs), UNCHANGED toCli PROVE FrameTypes'
    BY <1>0, <1>t, Said, Zenon DEF FrameTypes
  <1>1. ASSUME NEW v \in Viewers, Accept(v) PROVE FrameTypes'
    <2>1. PICK s : NewId(s, v) \in Viewers /\ ToExecutor(Frame("open", NewId(s, v)))
      BY <1>1, AcceptEffect, Zenon
    <2>2. UNCHANGED toGateway
      BY <1>1, Zenon DEF Accept
    <2> QED BY <2>1, <2>2, <1>s, DownFrames, Zenon
  <1>2. ASSUME NEW v \in Viewers, Leave(v) \/ CloseSeen(v) \/ NoExecutor(v) PROVE FrameTypes'
    BY <1>2, <1>u, Zenon DEF Leave, CloseSeen, NoExecutor
  <1>3. ASSUME NEW v \in Viewers, Input(v) PROVE FrameTypes'
    BY <1>3, <1>s, SendingSteps, DownFrames, Zenon DEF Input
  <1>4. ASSUME NEW v \in Viewers, CloseShell(v) PROVE FrameTypes'
    BY <1>4, <1>s, SendingSteps, DownFrames, Zenon DEF CloseShell
  <1>5. ASSUME CloseTarget PROVE FrameTypes'
    BY <1>5, <1>s, SendingSteps, DownFrames, Zenon DEF CloseTarget
  <1>6. ASSUME NEW c \in Conns, Receive(c) PROVE FrameTypes'
    <2>1. toGateway' \in [Conns -> Seq(UpFrames)]
      BY <1>6, <1>0, FirstFrame, Zenon
    <2>2. PICK f \in UpFrames : toCli' = toCli \/ ToExecutor(Frame("close", f.id))
      BY <1>6, ReceiveCases, Zenon
    <2>3. Frame("close", f.id) \in Down
      BY UpFrameFields, DownFrames, Zenon
    <2>4. toCli' \in [Conns -> Seq(Down)]
      BY <2>2, <2>3, <1>0, Sent, Zenon
    <2> QED BY <2>1, <2>4, Zenon DEF FrameTypes
  <1>7. ASSUME NEW c \in Conns, Dial(c) \/ Hello(c) \/ DropFinishes(c) PROVE FrameTypes'
    BY <1>7, <1>u, Zenon DEF Dial, Hello, DropFinishes
  <1>8. ASSUME NEW c \in Conns, SocketEnds(c) PROVE FrameTypes'
    <2>1. /\ toGateway' = [toGateway EXCEPT ![c] = <<>>] /\ toCli' = [toCli EXCEPT ![c] = <<>>]
          /\ <<>> \in Seq(Down) /\ <<>> \in Seq(UpFrames)
      BY <1>8, EmptySeq, Zenon DEF SocketEnds
    <2> QED BY <2>1, <1>0, Zenon DEF FrameTypes
  <1>9. ASSUME ConnectionEnds PROVE FrameTypes'
    <2>1. UNCHANGED toGateway /\ toCli' = [toCli EXCEPT ![conn] = <<>>] /\ <<>> \in Seq(Down)
      BY <1>9, EmptySeq, Zenon DEF ConnectionEnds
    <2> QED BY <2>1, <1>0, Zenon DEF FrameTypes
  <1>10. ASSUME Served PROVE FrameTypes'
    <2>1. conn \in Conns /\ toCli' \in [Conns -> Seq(Down)]
      BY <1>10, ServedCases, Zenon
    <2>2. PICK f \in Down : toGateway' = toGateway \/ Says(<<Frame("error", f.id)>>)
      BY <1>10, ServedCases, Zenon DEF Answers
    <2>3. Frame("error", f.id) \in UpFrames
      BY DownFields, DownFrames, Zenon
    <2>4. <<Frame("error", f.id)>> \in Seq(UpFrames)
      BY <2>3, SMT
    <2>5. toGateway' \in [Conns -> Seq(UpFrames)]
      BY <2>1, <2>2, <2>4, <1>0, Said, Zenon
    <2> QED BY <2>1, <2>5, Zenon DEF FrameTypes
  <1>11. ASSUME Write PROVE FrameTypes'
    BY <1>11, <1>t, ShellSpeaks, Zenon DEF Write
  <1>12. ASSUME Exit PROVE FrameTypes'
    <2>1. PICK fs \in Seq(UpFrames) : conn \in Conns /\ Says(fs)
      BY <1>12, ShellSpeaks, Zenon
    <2>2. UNCHANGED toCli
      BY <1>12, Zenon DEF Exit
    <2> QED BY <2>1, <2>2, <1>t, Zenon
  <1>13. ASSUME NEW id \in Viewers, KilledExits(id) PROVE FrameTypes'
    BY <1>13, <1>t, ShellSpeaks, Zenon DEF KilledExits
  <1>14. ASSUME Expire PROVE FrameTypes'
    <2>1. (row.id \in Viewers /\ ToExecutor(Frame("close", row.id))) \/ UNCHANGED toCli
      BY <1>14, ExpireCases, Zenon
    <2>2. UNCHANGED toGateway
      BY <1>14, Zenon DEF Expire
    <2> QED BY <2>1, <2>2, <1>s, <1>u, DownFrames, Zenon DEF frames
  <1>15. ASSUME Ages \/ Hibernate \/ Evict \/ Waits PROVE FrameTypes'
    BY <1>15, <1>u, WaitsCases, Zenon DEF Ages, Hibernate, Evict, Wiped
  <1> QED BY <1>1, <1>2, <1>3, <1>4, <1>5, <1>6, <1>7, <1>8, <1>9, <1>10, <1>11, <1>12, <1>13, <1>14,
             <1>15, Zenon DEF Next, Served

\* Only the CLI's own steps change its shell.
LEMMA ShellStays ==
  ASSUME Next
  PROVE  ConnectionEnds \/ Served \/ Write \/ Exit \/ (\E id \in Viewers : KilledExits(id)) \/ UNCHANGED cli
  <1>1. ASSUME NEW v \in Viewers, Accept(v) \/ Leave(v) \/ CloseSeen(v) \/ NoExecutor(v) \/ Input(v) \/ CloseShell(v)
        PROVE  UNCHANGED cli
    BY <1>1, Zenon DEF Accept, Leave, CloseSeen, NoExecutor, Input, CloseShell
  <1>2. ASSUME NEW c \in Conns, Receive(c) \/ Dial(c) \/ Hello(c) \/ SocketEnds(c) \/ DropFinishes(c)
        PROVE  UNCHANGED cli
    BY <1>2, Zenon DEF Receive, Dial, Hello, SocketEnds, DropFinishes
  <1>3. ASSUME CloseTarget \/ Ages \/ Expire \/ Hibernate \/ Evict \/ Waits
        PROVE  UNCHANGED cli
    BY <1>3, WaitsCases, Zenon DEF CloseTarget, Ages, Expire, Hibernate, Evict, Wiped
  <1> QED BY <1>1, <1>2, <1>3, Zenon DEF Next, Served

LEMMA ShellTypesStep ==
  ASSUME Types, IdsInv, ConnInv, Next
  PROVE  ShellTypes'
  <1>0. /\ ShellTypes /\ LinkTypes
        /\ shell \in [id : Ids, gen : 0 .. MaxShells, out : 0 .. MaxOut]
        /\ shell.id = Nobody => shell = NoShell
        /\ shell.id # Nobody => shell.gen \in 1 .. shells
        /\ shells \in 0 .. MaxShells /\ ending \subseteq Viewers
    BY Zenon DEF Types, ShellTypes
  <1>n. /\ NoShell \in [id : Ids, gen : 0 .. MaxShells, out : 0 .. MaxOut] /\ NoShell.id = Nobody
        /\ \A i \in Ids, g \in 0 .. MaxShells, n \in 0 .. MaxOut :
             LET s == [id |-> i, gen |-> g, out |-> n]
             IN  s \in [id : Ids, gen : 0 .. MaxShells, out : 0 .. MaxOut] /\ s.id = i /\ s.gen = g /\ s.out = n
    BY Constants, SMT DEF NoShell, Ids
  <1>1. ASSUME ConnectionEnds PROVE ShellTypes'
    <2>1. shell' = NoShell /\ ending' = {} /\ shells' = shells
      BY <1>1, Zenon DEF ConnectionEnds
    <2> QED BY <2>1, <1>0, <1>n, Zenon DEF ShellTypes
  <1>2. ASSUME Served PROVE ShellTypes'
    <2>1. PICK f \in Down :
            \/ shell # NoShell /\ shell' = [shell EXCEPT !.id = f.id] /\ UNCHANGED <<shells, ending>>
            \/ /\ shells < MaxShells /\ shells' = shells + 1
               /\ shell' = [id |-> f.id, gen |-> shells + 1, out |-> 0] /\ UNCHANGED ending
            \/ UNCHANGED cli
            \/ shell' = NoShell /\ ending' = ending \cup {f.id} /\ UNCHANGED shells
      BY <1>2, ServedCases, Zenon DEF cli, Answers
    <2>2. f.id \in Viewers /\ f.id \in Ids /\ f.id # Nobody
      BY DownFields, Constants, Zenon
    <2>3. CASE shell # NoShell /\ shell' = [shell EXCEPT !.id = f.id] /\ UNCHANGED <<shells, ending>>
      <3>1. /\ [shell EXCEPT !.id = f.id] \in [id : Ids, gen : 0 .. MaxShells, out : 0 .. MaxOut]
            /\ [shell EXCEPT !.id = f.id].id = f.id /\ [shell EXCEPT !.id = f.id].gen = shell.gen
        BY <1>0, <2>2, SMT
      <3> QED BY <3>1, <2>2, <2>3, <1>0, Zenon DEF ShellTypes
    <2>4. CASE /\ shells < MaxShells /\ shells' = shells + 1
               /\ shell' = [id |-> f.id, gen |-> shells + 1, out |-> 0] /\ UNCHANGED ending
      <3>1. shells + 1 \in 0 .. MaxShells /\ shells + 1 \in 1 .. shells + 1 /\ 0 \in 0 .. MaxOut
        BY <2>4, <1>0, Constants, SMT
      <3>2. /\ shell' \in [id : Ids, gen : 0 .. MaxShells, out : 0 .. MaxOut]
            /\ shell'.id = f.id /\ shell'.gen = shells + 1
        BY <3>1, <2>4, <2>2, <1>n, Zenon
      <3> QED BY <3>1, <3>2, <2>2, <2>4, <1>0, Zenon DEF ShellTypes
    <2>5. CASE UNCHANGED cli
      BY <2>5, <1>0, Zenon DEF ShellTypes, cli
    <2>6. CASE shell' = NoShell /\ ending' = ending \cup {f.id} /\ UNCHANGED shells
      <3>1. ending' \subseteq Viewers
        BY <2>6, <2>2, <1>0, Zenon
      <3> QED BY <3>1, <2>6, <1>0, <1>n, Zenon DEF ShellTypes
    <2> QED BY <2>1, <2>3, <2>4, <2>5, <2>6, Zenon
  <1>3. ASSUME Write PROVE ShellTypes'
    <2>1. /\ shell' = [shell EXCEPT !.out = shell.out + 1] /\ UNCHANGED <<shells, ending>>
          /\ shell.out + 1 \in 1 .. MaxOut
      BY <1>3, ShellSpeaks, Zenon DEF Write
    <2>2. /\ [shell EXCEPT !.out = shell.out + 1] \in [id : Ids, gen : 0 .. MaxShells, out : 0 .. MaxOut]
          /\ [shell EXCEPT !.out = shell.out + 1].id = shell.id
          /\ [shell EXCEPT !.out = shell.out + 1].gen = shell.gen
      BY <2>1, <1>0, Constants, SMT
    <2>3. shell.id # Nobody
      BY <1>3, <1>0, Zenon DEF Write
    <2> QED BY <2>1, <2>2, <2>3, <1>0, Zenon DEF ShellTypes
  <1>4. ASSUME Exit PROVE ShellTypes'
    <2>1. shell' = NoShell /\ UNCHANGED <<shells, ending>>
      BY <1>4, Zenon DEF Exit
    <2> QED BY <2>1, <1>0, <1>n, Zenon DEF ShellTypes
  <1>5. ASSUME NEW id \in Viewers, KilledExits(id) PROVE ShellTypes'
    <2>1. ending' = ending \ {id} /\ UNCHANGED <<shells, shell>>
      BY <1>5, Zenon DEF KilledExits
    <2>2. ending' \subseteq Viewers
      BY <2>1, <1>0, Zenon
    <2> QED BY <2>1, <2>2, <1>0, Zenon DEF ShellTypes
  <1>6. ASSUME UNCHANGED cli PROVE ShellTypes'
    BY <1>6, <1>0, Zenon DEF ShellTypes, cli
  <1> QED BY <1>1, <1>2, <1>3, <1>4, <1>5, <1>6, ShellStays, Zenon

----------------------------------------------------------------------------
(* One session at a time *)

LEMMA IdsStep ==
  ASSUME Types, IdsInv, ConnInv, Next
  PROVE  IdsInv'
  <1>0. /\ WindowTypes /\ StoreTypes /\ StoredType(row) /\ StoredType(pending)
        /\ \A v, w \in Live : v = w
        /\ \A v \in Live : idOf[v] \in Viewers /\ row.id = idOf[v] /\ pending = NoSession
        /\ pending.id \in {Nobody, row.id} /\ (pending # NoSession => alarm = "soon")
    BY Zenon DEF Types, StoreTypes, IdsInv
  <1>e. ASSUME Live' = {}, pending' = NoSession PROVE IdsInv'
    BY <1>e, NoSessionType, Zenon DEF IdsInv
  <1>l. UNCHANGED view => Live' = Live
    BY DEF Live
  <1>u. ASSUME UNCHANGED <<view, idOf, row, pending, alarm>> PROVE IdsInv'
    BY <1>u, <1>l, <1>0, Zenon DEF IdsInv
  <1>f. ASSUME NEW id \in Viewers, Settle(Watching(id)) \/ (Settle(Live) /\ id = row.id),
               Forget(id), UNCHANGED idOf, UNCHANGED alarm \/ alarm' = Deadline(row', pending')
        PROVE  IdsInv'
    <2>1. \/ Live' = Live \ Watching(id)
          \/ Live' = {} /\ id = row.id
      <3>1. Watching(id) \subseteq Live /\ Live \subseteq Live /\ Live \ Live = {}
        BY LiveSubset, Zenon
      <3> QED BY <3>1, <1>f, <1>0, SettledWindows, Zenon
    <2>2. CASE id = row.id
      <3>1. Live' = {} /\ row' = NoSession /\ pending' = NoSession
        BY <2>1, <2>2, <1>f, OneWatches, ForgetEffect, Zenon
      <3> QED BY <3>1, <1>e, Zenon
    <2>3. CASE id # row.id
      <3>1. Live' = Live /\ row' = row /\ pending' = pending
        BY <2>1, <2>3, <1>f, OneWatches, ForgetEffect, Zenon
      <3>2. pending' # NoSession => alarm' = "soon"
        BY <3>1, <1>f, <1>0, Quiet, Zenon
      <3> QED BY <3>1, <3>2, <1>f, <1>0, Zenon DEF IdsInv
    <2> QED BY <2>2, <2>3, Zenon
  <1>1. ASSUME NEW v \in Viewers, Accept(v) PROVE IdsInv'
    <2>1. PICK s : /\ NewId(s, v) \in Viewers
                   /\ idOf' = [idOf EXCEPT ![v] = NewId(s, v)]
                   /\ row' = [id |-> NewId(s, v), replay |-> s.replay]
                   /\ pending' = NoSession
      BY <1>1, AcceptEffect, Zenon
    <2>2. Live' = {v}
      BY <1>1, AcceptEffect, Zenon
    <2>3. idOf'[v] = NewId(s, v) /\ row'.id = NewId(s, v)
      BY <2>1, <1>0, SMT DEF WindowTypes
    <2> QED BY <2>1, <2>2, <2>3, NoSessionType, Zenon DEF IdsInv
  <1>2. ASSUME NEW v \in Viewers, Leave(v) \/ NoExecutor(v) PROVE IdsInv'
    <2>1. view[v] = "live" /\ view' = [view EXCEPT ![v] = "left"] /\ UNCHANGED <<idOf, row, pending, alarm>>
      BY <1>2, Zenon DEF Leave, NoExecutor, relay
    <2>2. \A p \in Viewers : view'[p] = IF p = v THEN "left" ELSE view[p]
      BY <2>1, <1>0, SMT DEF WindowTypes
    <2>3. Live' = Live
      BY <2>1, <2>2, SMT DEF Live
    <2> QED BY <2>1, <2>3, <1>0, Zenon DEF IdsInv
  <1>3. ASSUME NEW v \in Viewers, CloseSeen(v) PROVE IdsInv'
    <2>1. {v} \subseteq Live /\ Settle({v}) /\ pending' = Forgotten(pending, idOf[v])
      BY <1>3, SettlingSteps, Zenon DEF CloseSeen
    <2>2. v \in Live /\ Live \ {v} = {}
      BY <2>1, <1>0, Zenon
    <2>3. Live' = {}
      BY <2>1, <2>2, <1>0, SettledWindows, Zenon
    <2>4. pending' = NoSession
      BY <2>1, <2>2, <1>0, Zenon DEF Forgotten
    <2> QED BY <2>3, <2>4, <1>e, Zenon
  <1>4. ASSUME NEW v \in Viewers, CloseShell(v) PROVE IdsInv'
    <2>1. {v} \subseteq Live /\ Settle({v}) /\ Forget(row.id) /\ row.id \in Viewers
      BY <1>4, SettlingSteps, SendingSteps, Zenon
    <2>2. Live = {v}
      BY <2>1, <1>0, Zenon
    <2> QED BY <2>1, <2>2, <1>4, <1>f, Zenon DEF CloseShell
  <1>5. ASSUME CloseTarget PROVE IdsInv'
    <2>1. Settle(Live) /\ Forget(row.id) /\ row.id \in Viewers
      BY <1>5, SettlingSteps, SendingSteps, Zenon
    <2> QED BY <2>1, <1>5, <1>f, Zenon DEF CloseTarget
  <1>6. ASSUME NEW c \in Conns, Hello(c) \/ DropFinishes(c) PROVE IdsInv'
    <2>1. Settle(Live) /\ pending' = NoSession
      BY <1>6, SettlingSteps, Zenon
    <2>2. Live' = {}
      BY <2>1, <1>0, SettledWindows, Zenon
    <2> QED BY <2>1, <2>2, <1>e, Zenon
  <1>7. ASSUME NEW c \in Conns, Receive(c) PROVE IdsInv'
    <2>0. UNCHANGED idOf
      BY <1>7, FirstFrame, Zenon DEF Types
    <2>1. PICK f \in UpFrames :
            \/ f.chunk \in Chunk /\ Output(f.id, f.chunk) /\ UNCHANGED view
            \/ Settle(Watching(f.id)) /\ Forget(f.id) /\ UNCHANGED alarm
      BY <1>7, ReceiveCases, Zenon
    <2>2. f.id \in Viewers
      BY UpFrameFields, Zenon
    <2>3. CASE f.chunk \in Chunk /\ Output(f.id, f.chunk) /\ UNCHANGED view
      <3>1. \/ UNCHANGED <<row, pending, alarm>>
            \/ /\ f.id = row.id /\ Live = {}
               /\ LET next == [id |-> f.id, replay |-> AppendReplay(Flushed(row, pending).replay, <<f.chunk>>)]
                  IN  \/ row' = next /\ pending' = NoSession
                      \/ pending' = next /\ row' = row /\ alarm' = "soon"
        BY <2>2, <2>3, OutputCases, Zenon
      <3>2. CASE UNCHANGED <<row, pending, alarm>>
        BY <3>2, <2>0, <2>3, <1>u, Zenon
      <3>3. CASE /\ f.id = row.id /\ Live = {}
                 /\ LET next == [id |-> f.id, replay |-> AppendReplay(Flushed(row, pending).replay, <<f.chunk>>)]
                    IN  \/ row' = next /\ pending' = NoSession
                        \/ pending' = next /\ row' = row /\ alarm' = "soon"
        <4>1. Live' = {}
          BY <3>3, <2>3, <1>l, Zenon
        <4>2. pending' = NoSession \/ (pending'.id = f.id /\ row' = row /\ alarm' = "soon")
          BY <3>3, SMT
        <4> QED BY <4>1, <4>2, <3>3, <1>e, Zenon DEF IdsInv
      <3> QED BY <3>1, <3>2, <3>3, Zenon
    <2>4. CASE Settle(Watching(f.id)) /\ Forget(f.id) /\ UNCHANGED alarm
      BY <2>0, <2>2, <2>4, <1>f, Zenon
    <2> QED BY <2>1, <2>3, <2>4, Zenon
  <1>8. ASSUME Expire PROVE IdsInv'
    <2>1. /\ pending' = NoSession /\ UNCHANGED idOf
          /\ \/ Settle(Watching(row.id))
             \/ row' = Flushed(row, pending) /\ UNCHANGED view
      BY <1>8, ExpireCases, Zenon
    <2>2. CASE Settle(Watching(row.id))
      <3>1. Watching(row.id) = Live /\ Live \ Live = {} /\ Live \subseteq Live
        BY OneWatches, Zenon
      <3>2. Live' = {}
        BY <2>2, <3>1, <1>0, SettledWindows, Zenon
      <3> QED BY <3>2, <2>1, <1>e, Zenon
    <2>3. CASE row' = Flushed(row, pending) /\ UNCHANGED view
      <3>1. row'.id = row.id
        BY <2>3, <1>0, FlushedType, Zenon
      <3> QED BY <3>1, <2>1, <2>3, <1>l, <1>0, NoSessionType, Zenon DEF IdsInv
    <2> QED BY <2>1, <2>2, <2>3, Zenon
  <1>9. ASSUME Hibernate \/ Evict PROVE IdsInv'
    <2>1. UNCHANGED <<view, idOf, row>> /\ pending' = NoSession
      BY <1>9, WindowsStay, Zenon DEF Wiped, windows
    <2> QED BY <2>1, <1>l, <1>0, NoSessionType, Zenon DEF IdsInv
  <1>10. ASSUME UNCHANGED <<windows, row, pending, alarm>> PROVE IdsInv'
    BY <1>10, <1>u, Zenon DEF windows
  <1> QED BY <1>1, <1>2, <1>3, <1>4, <1>5, <1>6, <1>7, <1>8, <1>9, <1>10, WindowsStay, Zenon
          DEF Next, Served, relay

LEMMA ConnStep ==
  ASSUME Types, IdsInv, ConnInv, Next
  PROVE  ConnInv'
  <1>0. /\ LinkTypes /\ FrameTypes /\ socket \in [Conns -> {"none", "accepted", "active", "replaced", "closed"}]
        /\ conn # 0 => conn \in Conns /\ socket[conn] \in {"accepted", "active"}
        /\ conn = 0 \/ socket[conn] = "accepted" => shell = NoShell /\ ending = {}
        /\ \A c \in Conns : socket[c] \in {"none", "accepted"} => toCli[c] = <<>> /\ toGateway[c] = <<>>
        /\ \A c, d \in Executor : c = d
        /\ 0 \notin Conns
    BY OwnConn, Zenon DEF Types, LinkTypes, ConnInv
  <1>x. UNCHANGED socket => Executor' = Executor
    BY DEF Executor
  <1>u. ASSUME UNCHANGED <<socket, conn, cli, frames>> PROVE ConnInv'
    BY <1>u, <1>x, <1>0, Zenon DEF ConnInv, cli, frames
  <1>s. ASSUME NEW f \in Down, ToExecutor(f), UNCHANGED <<socket, conn, cli>>,
               \A c \in Conns : toGateway'[c] = toGateway[c] \/ socket[c] \in {"active", "replaced"}
        PROVE  ConnInv'
    <2>1. \A c \in Conns : socket[c] \in {"none", "accepted"} => c \notin Executor /\ socket[c] \notin {"active", "replaced"}
      BY SMT DEF Executor
    <2>2. \A c \in Conns : c \notin Executor => toCli'[c] = toCli[c]
      BY <1>s, <1>0, Sent, Zenon
    <2> QED BY <2>1, <2>2, <1>s, <1>x, <1>0, Zenon DEF ConnInv, cli
  <1>1. ASSUME NEW v \in Viewers, Accept(v) PROVE ConnInv'
    <2>1. PICK s : NewId(s, v) \in Viewers /\ ToExecutor(Frame("open", NewId(s, v)))
      BY <1>1, AcceptEffect, Zenon
    <2>2. UNCHANGED <<socket, conn, cli, toGateway>>
      BY <1>1, Zenon DEF Accept, links
    <2> QED BY <2>1, <2>2, <1>s, DownFrames, Zenon
  <1>2. ASSUME NEW v \in Viewers, Leave(v) \/ CloseSeen(v) \/ NoExecutor(v) PROVE ConnInv'
    BY <1>2, <1>u, Zenon DEF Leave, CloseSeen, NoExecutor, links
  <1>3. ASSUME NEW v \in Viewers, Input(v) \/ CloseShell(v) PROVE ConnInv'
    <2>1. UNCHANGED <<socket, conn, cli, toGateway>>
      BY <1>3, Zenon DEF Input, CloseShell, links
    <2>2. \E f \in Down : ToExecutor(f)
      BY <1>3, SendingSteps, DownFrames, Zenon
    <2> QED BY <2>1, <2>2, <1>s, Zenon
  <1>3a. ASSUME CloseTarget PROVE ConnInv'
    <2>1. UNCHANGED <<socket, conn, cli, toGateway>>
      BY <1>3a, Zenon DEF CloseTarget, links
    <2>2. \E f \in Down : ToExecutor(f)
      BY <1>3a, SendingSteps, DownFrames, Zenon
    <2> QED BY <2>1, <2>2, <1>s, Zenon
  <1>4. ASSUME NEW c \in Conns, Receive(c) PROVE ConnInv'
    <2>1. /\ socket[c] \in {"active", "replaced"} /\ UNCHANGED <<socket, conn, cli>>
          /\ toGateway' = [toGateway EXCEPT ![c] = Tail(@)]
      BY <1>4, <1>0, FirstFrame, Zenon DEF links
    <2>2. \A d \in Conns : d # c => toGateway'[d] = toGateway[d]
      BY <2>1, <1>0 DEF FrameTypes
    <2>3. \A d \in Conns : toGateway'[d] = toGateway[d] \/ socket[d] \in {"active", "replaced"}
      BY <2>1, <2>2, Zenon
    <2>4. PICK f \in UpFrames : toCli' = toCli \/ ToExecutor(Frame("close", f.id))
      BY <1>4, ReceiveCases, Zenon
    <2>5. CASE toCli' = toCli
      <3>1. \A d \in Conns : socket[d] \in {"none", "accepted"} => socket[d] \notin {"active", "replaced"}
        OBVIOUS
      <3> QED BY <3>1, <2>5, <2>1, <2>3, <1>x, <1>0, Zenon DEF ConnInv, cli
    <2>6. CASE ToExecutor(Frame("close", f.id))
      <3>1. Frame("close", f.id) \in Down
        BY UpFrameFields, DownFrames, Zenon
      <3> QED BY <3>1, <2>6, <2>1, <2>3, <1>s, Zenon
    <2> QED BY <2>4, <2>5, <2>6, Zenon
  <1>5. ASSUME NEW c \in Conns, Dial(c) PROVE ConnInv'
    <2>1. /\ conn = 0 /\ socket[c] = "none" /\ conn' = c
          /\ socket' = [socket EXCEPT ![c] = "accepted"]
          /\ UNCHANGED <<cli, frames>>
      BY <1>5, Zenon DEF Dial
    <2>2. \A d \in Conns : socket'[d] = IF d = c THEN "accepted" ELSE socket[d]
      BY <2>1, <1>0, Zenon
    <2>3. Executor' = Executor
      BY <2>1, <2>2, SMT DEF Executor
    <2>4. /\ socket'[conn'] \in {"accepted", "active"}
          /\ \A d \in Conns : socket'[d] \in {"none", "accepted"} => socket[d] \in {"none", "accepted"}
      BY <2>1, <2>2, SMT
    <2> QED BY <2>1, <2>3, <2>4, <1>0, Zenon DEF ConnInv, cli, frames
  <1>6. ASSUME NEW c \in Conns, Hello(c) PROVE ConnInv'
    <2>1. /\ conn = c /\ socket[c] = "accepted" /\ UNCHANGED <<conn, cli, frames>>
          /\ socket' = [d \in Conns |-> IF d = c THEN "active"
                                ELSE IF socket[d] \in {"accepted", "active"} THEN "replaced" ELSE socket[d]]
      BY <1>6, Zenon DEF Hello
    <2>2. Executor' = {c}
      <3>1. \A d \in Conns : socket'[d] = "active" <=> d = c
        BY <2>1, SMT
      <3>2. Executor' = {d \in Conns : socket'[d] = "active"}
        BY DEF Executor
      <3> QED BY <3>1, <3>2, Zenon
    <2>3. /\ socket'[c] = "active"
          /\ \A d \in Conns : socket'[d] \in {"none", "accepted"} => socket[d] \in {"none", "accepted"}
      BY <2>1, SMT
    <2>4. \A d, e \in {c} : d = e
      OBVIOUS
    <2>5. ~(conn' = 0 \/ socket'[conn'] = "accepted") /\ socket'[conn'] \in {"accepted", "active"}
      BY <2>1, <2>3, <1>0, SMT
    <2> QED BY <2>1, <2>2, <2>3, <2>4, <2>5, <1>0, Zenon DEF ConnInv, cli, frames
  <1>7. ASSUME NEW c \in Conns, SocketEnds(c) PROVE ConnInv'
    <2>1. /\ conn # c /\ socket' = [socket EXCEPT ![c] = "closed"] /\ UNCHANGED <<conn, cli>>
          /\ toGateway' = [toGateway EXCEPT ![c] = <<>>] /\ toCli' = [toCli EXCEPT ![c] = <<>>]
      BY <1>7, Zenon DEF SocketEnds
    <2>2. \A d \in Conns : /\ d # c => socket'[d] = socket[d] /\ toCli'[d] = toCli[d] /\ toGateway'[d] = toGateway[d]
                           /\ d = c => socket'[d] = "closed"
      BY <2>1, <1>0, Zenon DEF FrameTypes
    <2>3. Executor' \subseteq Executor
      BY <2>2, SMT DEF Executor
    <2>4. \A d \in Conns : socket'[d] \in {"none", "accepted"} => d # c
      BY <2>2, SMT
    <2>5. conn # 0 => socket'[conn] = socket[conn]
      BY <2>1, <2>2, <1>0, Zenon
    <2> QED BY <2>1, <2>2, <2>3, <2>4, <2>5, <1>0, Zenon DEF ConnInv, cli
  <1>8. ASSUME NEW c \in Conns, DropFinishes(c) PROVE ConnInv'
    BY <1>8, <1>u, Zenon DEF DropFinishes
  <1>9. ASSUME ConnectionEnds PROVE ConnInv'
    <2>1. /\ conn # 0 /\ conn' = 0 /\ shell' = NoShell /\ ending' = {}
          /\ toCli' = [toCli EXCEPT ![conn] = <<>>] /\ UNCHANGED <<socket, toGateway>>
      BY <1>9, Zenon DEF ConnectionEnds
    <2>2. \A c \in Conns : toCli'[c] = <<>> \/ toCli'[c] = toCli[c]
      BY <2>1, <1>0, Zenon DEF FrameTypes
    <2> QED BY <2>1, <2>2, <1>x, <1>0, Zenon DEF ConnInv
  <1>10. ASSUME Served PROVE ConnInv'
    <2>0. /\ conn \in Conns /\ toCli[conn] # <<>> /\ UNCHANGED <<socket, conn>>
          /\ \A c \in Conns : c # conn => toCli'[c] = toCli[c]
      BY <1>10, ServedCases, Zenon DEF links
    <2>1. ~(socket[conn] \in {"none", "accepted"}) /\ conn # 0
      BY <2>0, <1>0, Zenon
    <2>2. PICK f \in Down : toGateway' = toGateway \/ Says(<<Frame("error", f.id)>>)
      BY <1>10, ServedCases, Zenon DEF Answers
    <2>3. Frame("error", f.id) \in UpFrames
      BY DownFields, DownFrames, Zenon
    <2>4. <<Frame("error", f.id)>> \in Seq(UpFrames)
      BY <2>3, SMT
    <2>5. \A c \in Conns : c # conn => toCli'[c] = toCli[c] /\ toGateway'[c] = toGateway[c]
      BY <2>0, <2>2, <2>4, <1>0, Said, Zenon
    <2>6. socket[conn] # "accepted"
      BY <2>1, SMT
    <2> QED BY <2>0, <2>1, <2>5, <2>6, <1>x, <1>0, Zenon DEF ConnInv
  <1>11. ASSUME Write \/ Exit \/ \E id \in Viewers : KilledExits(id) PROVE ConnInv'
    <2>1. UNCHANGED <<socket, conn, toCli>>
      BY <1>11, Zenon DEF Write, Exit, KilledExits, links
    <2>2. PICK fs \in Seq(UpFrames) : Says(fs)
      BY <1>11, ShellSpeaks, Zenon DEF Write
    <2>3. conn \in Conns /\ (shell # NoShell \/ ending # {})
      BY <1>11, ShellSpeaks, Zenon
    <2>4. conn # 0 /\ socket[conn] # "accepted" /\ socket[conn] \notin {"none", "accepted"}
      <3>1. conn # 0 /\ socket[conn] # "accepted"
        BY <2>3, <1>0, Zenon
      <3> QED BY <3>1, <1>0, SMT
    <2>5. \A c \in Conns : c # conn => toGateway'[c] = toGateway[c]
      BY <2>2, <2>3, <1>0, Said, Zenon
    <2> QED BY <2>1, <2>4, <2>5, <1>x, <1>0, Zenon DEF ConnInv
  <1>12. ASSUME Ages \/ Hibernate \/ Evict \/ Waits PROVE ConnInv'
    BY <1>12, <1>u, WaitsCases, Zenon DEF Ages, Hibernate, Evict, Wiped, links
  <1>13. ASSUME Expire PROVE ConnInv'
    <2>1. UNCHANGED <<socket, conn, cli, toGateway>>
      BY <1>13, Zenon DEF Expire, links
    <2>2. (row.id \in Viewers /\ ToExecutor(Frame("close", row.id))) \/ UNCHANGED toCli
      BY <1>13, ExpireCases, Zenon
    <2> QED BY <2>1, <2>2, <1>s, <1>u, DownFrames, Zenon DEF frames
  <1> QED BY <1>1, <1>2, <1>3, <1>3a, <1>4, <1>5, <1>6, <1>7, <1>8, <1>9, <1>10, <1>11, <1>12, <1>13, Zenon
          DEF Next, Served

\* No window comes twice.
LEMMA NoneStays ==
  ASSUME Types, IdsInv, Next, NEW x \in Viewers, view'[x] = "none"
  PROVE  view[x] = "none"
  <1>0. WindowTypes /\ StoreTypes /\ \A id : Watching(id) \subseteq Live
    BY LiveSubset, Zenon DEF Types
  <1>s. ASSUME NEW W, W \subseteq Live, Settle(W) PROVE view[x] = "none"
    BY <1>s, <1>0, SettledWindows, Zenon
  <1>1. ASSUME NEW v \in Viewers, Accept(v) PROVE view[x] = "none"
    <2>1. view' = [p \in Viewers |-> IF p = v THEN "live" ELSE IF p \in Live THEN "over" ELSE view[p]]
      BY <1>1, Zenon DEF Accept
    <2> QED BY <2>1, SMT
  <1>2. ASSUME NEW v \in Viewers, Leave(v) \/ NoExecutor(v) PROVE view[x] = "none"
    <2>1. view' = [view EXCEPT ![v] = "left"]
      BY <1>2, Zenon DEF Leave, NoExecutor
    <2> QED BY <2>1, <1>0, SMT DEF WindowTypes
  <1>3. ASSUME NEW v \in Viewers, CloseSeen(v) \/ CloseShell(v) PROVE view[x] = "none"
    BY <1>3, <1>s, SettlingSteps, Zenon
  <1>4. ASSUME CloseTarget \/ \E c \in Conns : Hello(c) \/ DropFinishes(c) PROVE view[x] = "none"
    BY <1>4, <1>s, SettlingSteps, Zenon
  <1>5. ASSUME NEW c \in Conns, Receive(c) PROVE view[x] = "none"
    <2>1. PICK f \in UpFrames : UNCHANGED view \/ Settle(Watching(f.id))
      BY <1>5, ReceiveCases, Zenon
    <2> QED BY <2>1, <1>s, <1>0, Zenon
  <1>6. ASSUME Expire PROVE view[x] = "none"
    <2>1. UNCHANGED view \/ Settle(Watching(row.id))
      BY <1>6, ExpireCases, Zenon
    <2> QED BY <2>1, <1>s, <1>0, Zenon
  <1>7. UNCHANGED windows => view[x] = "none"
    BY Zenon DEF windows
  <1> QED BY <1>1, <1>2, <1>3, <1>4, <1>5, <1>6, <1>7, WindowsStay, Zenon DEF Next, Served

NotNamed(x) ==
  /\ row.id # x /\ shell.id # x /\ x \notin ending
  /\ \A c \in Conns : \A f \in In(toCli[c]) \cup In(toGateway[c]) : f.id # x

LEMMA FreshStep ==
  ASSUME Types, IdsInv, ConnInv, FreshInv, Next
  PROVE  FreshInv'
  <1> SUFFICES ASSUME NEW x \in Viewers, view'[x] = "none"
               PROVE  NotNamed(x)'
    BY Zenon DEF FreshInv, NotNamed
  <1>0. /\ row.id # x /\ shell.id # x /\ x \notin ending /\ x # Nobody /\ view[x] = "none"
        /\ \A c \in Conns : \A f \in In(toCli[c]) : f.id # x
        /\ \A c \in Conns : \A f \in In(toGateway[c]) : f.id # x
        /\ FrameTypes /\ LinkTypes /\ WindowTypes /\ StoreTypes /\ ShellTypes
        /\ \A v \in Live : idOf[v] # x
    BY NoneStays, Constants, Zenon DEF FreshInv, Types, IdsInv
  <1>n. NoSession.id # x /\ NoShell.id # x
    BY Constants, SMT DEF NoSession, NoShell
  <1>g. ASSUME row'.id # x, shell'.id # x, x \notin ending',
               \A c \in Conns : \A f \in In(toCli'[c]) : f.id # x,
               \A c \in Conns : \A f \in In(toGateway'[c]) : f.id # x
        PROVE  NotNamed(x)'
    BY <1>g, Zenon DEF NotNamed
  <1>t. ASSUME toCli' = toCli \/ \E f \in Down : ToExecutor(f) /\ f.id # x
        PROVE  \A c \in Conns : \A f \in In(toCli'[c]) : f.id # x
    <2>1. CASE toCli' = toCli
      BY <2>1, <1>0, Zenon
    <2>2. ASSUME NEW f \in Down, ToExecutor(f), f.id # x
          PROVE  \A c \in Conns : \A e \in In(toCli'[c]) : e.id # x
      <3>1. \A c \in Conns : In(toCli'[c]) \subseteq In(toCli[c]) \cup {f}
        BY <2>2, <1>0, Sent, Zenon
      <3> QED BY <3>1, <2>2, <1>0, Zenon
    <2> QED BY <1>t, <2>1, <2>2, Zenon
  <1>v. ASSUME conn \in Conns, NEW fs \in Seq(UpFrames), Says(fs), \A f \in In(fs) : f.id # x
        PROVE  \A c \in Conns : \A f \in In(toGateway'[c]) : f.id # x
    <2>1. \A c \in Conns : In(toGateway'[c]) \subseteq In(toGateway[c]) \cup In(fs)
      BY <1>v, <1>0, Said, Zenon
    <2> QED BY <2>1, <1>v, <1>0, Zenon
  <1>u. ASSUME row'.id # x, UNCHANGED <<cli, toGateway>>,
               toCli' = toCli \/ \E f \in Down : ToExecutor(f) /\ f.id # x
        PROVE  NotNamed(x)'
    BY <1>u, <1>t, <1>g, <1>0, Zenon DEF cli
  <1>d. \A kind, id : Frame(kind, id).id = id
    BY FrameFields, Zenon
  <1>1. ASSUME NEW v \in Viewers, Accept(v) PROVE NotNamed(x)'
    <2>1. PICK s : /\ s.id = row.id /\ NewId(s, v) \in Viewers
                   /\ row' = [id |-> NewId(s, v), replay |-> s.replay]
                   /\ view' = [p \in Viewers |-> IF p = v THEN "live" ELSE IF p \in Live THEN "over" ELSE view[p]]
                   /\ ToExecutor(Frame("open", NewId(s, v)))
      BY <1>1, AcceptEffect, Zenon
    <2>2. x # v
      BY <2>1, SMT
    <2>3. NewId(s, v) # x
      BY <2>1, <2>2, <1>0, Zenon DEF NewId
    <2>4. row'.id = NewId(s, v) /\ Frame("open", NewId(s, v)).id = NewId(s, v)
      BY <2>1, <1>d, SMT
    <2>5. Frame("open", NewId(s, v)) \in Down /\ UNCHANGED <<cli, toGateway>>
      BY <2>1, <1>1, DownFrames, Zenon DEF Accept
    <2> QED BY <2>1, <2>3, <2>4, <2>5, <1>u, Zenon
  <1>2. ASSUME NEW v \in Viewers, Leave(v) \/ NoExecutor(v) PROVE NotNamed(x)'
    BY <1>2, <1>u, <1>0, Zenon DEF Leave, NoExecutor, relay, frames
  <1>3. ASSUME NEW v \in Viewers, CloseSeen(v) PROVE NotNamed(x)'
    <2>1. v \in Live /\ row' = Persisted(v) /\ UNCHANGED <<cli, frames>>
      BY <1>3, SettlingSteps, Zenon DEF CloseSeen
    <2>2. row'.id = row.id
      <3>1. Persisted(v) = [id |-> row.id, replay |-> Merged(row, v)]
        BY <2>1, <1>0, PersistedType, Zenon
      <3> QED BY <2>1, <3>1, SMT
    <2> QED BY <2>1, <2>2, <1>u, <1>0, Zenon DEF frames
  <1>4. ASSUME NEW v \in Viewers, Input(v) PROVE NotNamed(x)'
    <2>1. /\ idOf[v] \in Viewers /\ ToExecutor(Frame("input", idOf[v])) /\ v \in Live
          /\ UNCHANGED <<row, cli, toGateway>>
      <3>1. view[v] = "live" /\ UNCHANGED <<row, cli, toGateway>>
        BY <1>4, Zenon DEF Input, relay
      <3>2. v \in Live
        BY <3>1 DEF Live
      <3> QED BY <1>4, <3>1, <3>2, SendingSteps, Zenon
    <2>2. Frame("input", idOf[v]).id # x /\ Frame("input", idOf[v]) \in Down
      <3>1. idOf[v] # x
        BY <2>1, <1>0, Zenon
      <3> QED BY <3>1, <2>1, FrameFields, DownFrames, Zenon
    <2> QED BY <2>1, <2>2, <1>u, <1>0, Zenon
  <1>5. ASSUME Forget(row.id), row.id \in Viewers, ToExecutor(Frame("close", row.id)), UNCHANGED <<cli, toGateway>>
        PROVE  NotNamed(x)'
    <2>1. row' = NoSession /\ Frame("close", row.id) \in Down
      BY <1>5, ForgetEffect, DownFrames, Zenon
    <2> QED BY <2>1, <1>5, <1>u, <1>0, <1>n, <1>d, Zenon
  <1>6. ASSUME NEW v \in Viewers, CloseShell(v) PROVE NotNamed(x)'
    BY <1>6, <1>5, SendingSteps, Zenon DEF CloseShell
  <1>7. ASSUME CloseTarget PROVE NotNamed(x)'
    BY <1>7, <1>5, SendingSteps, Zenon DEF CloseTarget
  <1>8. ASSUME NEW c \in Conns, Receive(c) PROVE NotNamed(x)'
    <2>1. /\ \A d \in Conns : In(toGateway'[d]) \subseteq In(toGateway[d])
          /\ UNCHANGED cli /\ Head(toGateway[c]) \in In(toGateway[c])
      BY <1>8, <1>0, FirstFrame, Zenon
    <2>2. PICK f \in UpFrames :
            /\ f = Head(toGateway[c])
            /\ \/ f.chunk \in Chunk /\ Output(f.id, f.chunk) /\ UNCHANGED toCli
               \/ Forget(f.id) /\ (toCli' = toCli \/ ToExecutor(Frame("close", f.id)))
      BY <1>8, ReceiveCases, Zenon
    <2>3. f.id \in Viewers /\ f.id # x /\ Frame("close", f.id) \in Down
      BY <2>1, <2>2, <1>0, UpFrameFields, DownFrames, Zenon
    <2>4. row'.id # x
      <3>1. CASE f.chunk \in Chunk /\ Output(f.id, f.chunk)
        <4>1. \/ UNCHANGED row
              \/ LET next == [id |-> f.id, replay |-> AppendReplay(Flushed(row, pending).replay, <<f.chunk>>)]
                 IN  row' = next
          BY <2>3, <3>1, OutputCases, Zenon
        <4> QED BY <4>1, <2>3, <1>0, SMT
      <3>2. CASE Forget(f.id)
        BY <3>2, <2>3, <1>0, <1>n, ForgetEffect, Zenon
      <3> QED BY <2>2, <3>1, <3>2, Zenon
    <2>5. toCli' = toCli \/ \E e \in Down : ToExecutor(e) /\ e.id # x
      BY <2>2, <2>3, <1>d, Zenon
    <2> QED BY <2>1, <2>4, <2>5, <1>t, <1>g, <1>0, Zenon DEF cli
  <1>9. ASSUME NEW c \in Conns, Dial(c) PROVE NotNamed(x)'
    BY <1>9, <1>u, <1>0, Zenon DEF Dial, relay, frames
  <1>10. ASSUME NEW c \in Conns, Hello(c) \/ DropFinishes(c) PROVE NotNamed(x)'
    <2>1. row' = NoSession /\ UNCHANGED <<frames, cli>>
      BY <1>10, SettlingSteps, Zenon DEF Hello, DropFinishes
    <2> QED BY <2>1, <1>u, <1>n, Zenon DEF frames
  <1>11. ASSUME NEW c \in Conns, SocketEnds(c) PROVE NotNamed(x)'
    <2>1. /\ toGateway' = [toGateway EXCEPT ![c] = <<>>] /\ toCli' = [toCli EXCEPT ![c] = <<>>]
          /\ UNCHANGED <<row, cli>>
      BY <1>11, Zenon DEF SocketEnds, relay
    <2>2. \A d \in Conns : /\ toGateway'[d] = <<>> \/ toGateway'[d] = toGateway[d]
                           /\ toCli'[d] = <<>> \/ toCli'[d] = toCli[d]
      BY <2>1, <1>0, Zenon DEF FrameTypes
    <2>3. \A d \in Conns : /\ \A f \in In(toCli'[d]) : f.id # x
                           /\ \A f \in In(toGateway'[d]) : f.id # x
      BY <2>2, <1>0, InFew, Zenon
    <2> QED BY <2>1, <2>3, <1>g, <1>0, Zenon DEF cli
  <1>12. ASSUME ConnectionEnds PROVE NotNamed(x)'
    <2>1. /\ toCli' = [toCli EXCEPT ![conn] = <<>>] /\ shell' = NoShell /\ ending' = {}
          /\ UNCHANGED <<row, toGateway>>
      BY <1>12, Zenon DEF ConnectionEnds, relay
    <2>2. \A d \in Conns : toCli'[d] = <<>> \/ toCli'[d] = toCli[d]
      BY <2>1, <1>0, Zenon DEF FrameTypes
    <2>3. \A d \in Conns : \A f \in In(toCli'[d]) : f.id # x
      BY <2>2, <1>0, InFew, Zenon
    <2> QED BY <2>1, <2>3, <1>g, <1>0, <1>n, Zenon
  <1>13. ASSUME Served PROVE NotNamed(x)'
    <2>1. /\ conn \in Conns /\ UNCHANGED row /\ \A c \in Conns : In(toCli'[c]) \subseteq In(toCli[c])
      BY <1>13, ServedCases, Zenon DEF relay
    <2>2. PICK f \in Down :
            /\ f \in In(toCli[conn])
            /\ toGateway' = toGateway \/ Says(<<Frame("error", f.id)>>)
            /\ \/ shell' = [shell EXCEPT !.id = f.id] /\ UNCHANGED ending
               \/ shell' = [id |-> f.id, gen |-> shells + 1, out |-> 0] /\ UNCHANGED ending
               \/ UNCHANGED cli
               \/ shell' = NoShell /\ ending' = ending \cup {f.id}
      BY <1>13, ServedCases, Zenon DEF cli, Answers
    <2>3. f.id # x /\ f.id \in Viewers
      BY <2>1, <2>2, <1>0, DownFields, Zenon
    <2>4. shell'.id # x
      <3>1. CASE shell' = [shell EXCEPT !.id = f.id]
        BY <3>1, <2>3, <1>0, SMT DEF ShellTypes
      <3>2. CASE shell' = [id |-> f.id, gen |-> shells + 1, out |-> 0]
        BY <3>2, <2>3, SMT
      <3> QED BY <2>2, <3>1, <3>2, <1>0, <1>n, Zenon DEF cli
    <2>5. x \notin ending'
      BY <2>2, <2>3, <1>0, Zenon DEF cli
    <2>6. \A c \in Conns : \A e \in In(toGateway'[c]) : e.id # x
      <3>1. CASE Says(<<Frame("error", f.id)>>)
        <4>1. Frame("error", f.id) \in UpFrames
          BY <2>3, DownFrames, Zenon
        <4>2. <<Frame("error", f.id)>> \in Seq(UpFrames)
          BY <4>1, SMT
        <4>3. \A e \in In(<<Frame("error", f.id)>>) : e.id # x
          <5>1. Frame("error", f.id).id # x
            BY <2>3, FrameFields, Zenon
          <5> QED BY <5>1, OneFrame, Zenon
        <4> QED BY <3>1, <4>2, <4>3, <2>1, <1>v, Zenon
      <3> QED BY <2>2, <3>1, <1>0, Zenon
    <2> QED BY <2>1, <2>4, <2>5, <2>6, <1>g, <1>0, Zenon
  <1>14. ASSUME Write PROVE NotNamed(x)'
    <2> DEFINE f == [kind |-> "output", id |-> shell.id, chunk |-> <<shell.gen, shell.out + 1>>]
    <2>1. /\ shell' = [shell EXCEPT !.out = shell.out + 1] /\ Says(<<f>>)
          /\ UNCHANGED <<row, toCli, ending>> /\ conn \in Conns /\ <<f>> \in Seq(UpFrames)
      BY <1>14, ShellSpeaks, Zenon DEF Write, relay
    <2>2. f.id # x
      BY <1>0, SMT
    <2>3. shell'.id # x
      BY <2>1, <1>0, SMT DEF ShellTypes
    <2> HIDE DEF f
    <2>4. \A e \in In(<<f>>) : e.id # x
      BY <2>2, OneFrame, Zenon
    <2> QED BY <2>1, <2>3, <2>4, <1>v, <1>g, <1>0, Zenon
  <1>15. ASSUME Exit PROVE NotNamed(x)'
    <2>1. shell' = NoShell /\ UNCHANGED <<row, toCli, ending>>
      BY <1>15, Zenon DEF Exit, relay
    <2>2. PICK fs \in Seq(UpFrames) :
            /\ conn \in Conns /\ Says(fs)
            /\ fs = <<Frame("exit", shell.id)>> \/ fs = <<Frame("error", shell.id), Frame("exit", shell.id)>>
      BY <1>15, ShellSpeaks, Zenon
    <2>3. \A e \in In(fs) : e = Frame("exit", shell.id) \/ e = Frame("error", shell.id)
      BY <2>2, OneFrame, TwoFrames, Zenon
    <2>4. Frame("exit", shell.id).id # x /\ Frame("error", shell.id).id # x
      <3>1. shell.id # x
        BY <1>0, Zenon
      <3> QED BY <3>1, FrameFields, Zenon
    <2>5. \A e \in In(fs) : e.id # x
      BY <2>3, <2>4, Zenon
    <2> QED BY <2>1, <2>2, <2>5, <1>v, <1>g, <1>0, <1>n, Zenon
  <1>16. ASSUME NEW id \in Viewers, KilledExits(id) PROVE NotNamed(x)'
    <2>1. /\ ending' = ending \ {id} /\ UNCHANGED <<row, toCli, shell>> /\ id \in ending
          /\ conn \in Conns /\ Says(<<Frame("exit", id)>>) /\ <<Frame("exit", id)>> \in Seq(UpFrames)
      BY <1>16, ShellSpeaks, Zenon DEF KilledExits, relay
    <2>2. \A e \in In(<<Frame("exit", id)>>) : e.id # x
      <3>1. Frame("exit", id).id # x
        <4>1. id # x
          BY <2>1, <1>0, Zenon
        <4> QED BY <4>1, FrameFields, Zenon
      <3> QED BY <3>1, OneFrame, Zenon
    <2>3. x \notin ending'
      BY <2>1, <1>0, Zenon
    <2> QED BY <2>1, <2>2, <2>3, <1>v, <1>g, <1>0, Zenon
  <1>17. ASSUME Expire PROVE NotNamed(x)'
    <2>1. UNCHANGED <<cli, toGateway>>
      BY <1>17, Zenon DEF Expire
    <2>2. \/ row.id \in Viewers /\ row' = NoSession /\ ToExecutor(Frame("close", row.id))
          \/ row' = Flushed(row, pending) /\ UNCHANGED toCli
      BY <1>17, ExpireCases, Zenon
    <2>3. row'.id # x
      BY <2>2, <1>0, <1>n, FlushedType, Zenon
    <2>4. toCli' = toCli \/ \E f \in Down : ToExecutor(f) /\ f.id # x
      BY <2>2, <1>0, <1>d, DownFrames, Zenon
    <2> QED BY <2>1, <2>3, <2>4, <1>u, Zenon
  <1>18. ASSUME Ages \/ Hibernate \/ Evict \/ Waits PROVE NotNamed(x)'
    BY <1>18, <1>u, <1>0, WaitsCases, Zenon DEF Ages, Hibernate, Evict, Wiped, frames
  <1> QED BY <1>1, <1>2, <1>3, <1>4, <1>6, <1>7, <1>8, <1>9, <1>10, <1>11, <1>12, <1>13, <1>14, <1>15,
             <1>16, <1>17, <1>18, Zenon DEF Next, Served

----------------------------------------------------------------------------
(* What is listed is what runs *)

LEMMA Appended ==
  ASSUME NEW S, NEW q \in Seq(S), NEW x \in S
  PROVE  /\ DOMAIN q = 1 .. Len(q) /\ Len(q) \in Nat
         /\ DOMAIN Append(q, x) = 1 .. Len(q) + 1 /\ Len(q) + 1 \in DOMAIN Append(q, x)
         /\ Append(q, x)[Len(q) + 1] = x
         /\ \A i \in DOMAIN q : i \in DOMAIN Append(q, x) /\ Append(q, x)[i] = q[i] /\ i < Len(q) + 1
         /\ \A i \in DOMAIN Append(q, x) : i \in DOMAIN q \/ i = Len(q) + 1
  <1> DEFINE a == Append(q, x)
  <1>1. /\ DOMAIN a = 1 .. Len(q) + 1 /\ DOMAIN q = 1 .. Len(q) /\ Len(q) \in Nat
        /\ a[Len(q) + 1] = x /\ \A i \in 1 .. Len(q) : a[i] = q[i]
    OBVIOUS
  <1> HIDE DEF a
  <1>2. /\ Len(q) + 1 \in DOMAIN a
        /\ \A i \in DOMAIN q : i \in DOMAIN a /\ a[i] = q[i] /\ i < Len(q) + 1
        /\ \A i \in DOMAIN a : i \in DOMAIN q \/ i = Len(q) + 1
    BY <1>1, SMT
  <1> QED BY <1>1, <1>2 DEF a

LEMMA Shifted ==
  ASSUME NEW S, NEW q \in Seq(S), q # <<>>
  PROVE  /\ DOMAIN q = 1 .. Len(q) /\ Len(q) \in Nat \ {0} /\ Head(q) = q[1] /\ 1 \in DOMAIN q
         /\ Tail(q) \in Seq(S) /\ DOMAIN Tail(q) = 1 .. Len(q) - 1
         /\ \A i \in DOMAIN Tail(q) : i + 1 \in DOMAIN q /\ Tail(q)[i] = q[i + 1]
         /\ \A i \in DOMAIN q : i = 1 \/ (i - 1 \in DOMAIN Tail(q) /\ Tail(q)[i - 1] = q[i])
  <1> DEFINE t == Tail(q)
  <1>1. /\ t \in Seq(S) /\ Len(t) = Len(q) - 1
        /\ \A i \in 1 .. Len(t) : t[i] = q[i + 1]
        /\ Head(q) = q[1] /\ Len(q) \in Nat \ {0}
    BY HeadTailProperties, EmptySeq, SMT
  <1>2. DOMAIN q = 1 .. Len(q) /\ DOMAIN t = 1 .. Len(t)
    <2> HIDE DEF t
    <2> QED BY <1>1, SMT
  <1> HIDE DEF t
  <1>3. /\ \A i \in DOMAIN t : i + 1 \in DOMAIN q /\ t[i] = q[i + 1]
        /\ \A i \in DOMAIN q : i = 1 \/ (i - 1 \in DOMAIN t /\ t[i - 1] = q[i])
        /\ 1 \in DOMAIN q /\ DOMAIN t = 1 .. Len(q) - 1
    BY <1>1, <1>2, SMT
  <1> QED BY <1>1, <1>2, <1>3 DEF t

LEMMA OpensAppended ==
  ASSUME NEW q \in Seq(Down), NEW f \in Down, NEW id
  PROVE  /\ f.kind # "open" /\ LastOpens(q, id) => LastOpens(Append(q, f), id)
         /\ f.kind # "open" /\ NoOpens(q) => NoOpens(Append(q, f))
         /\ f.kind = "open" /\ f.id = id => LastOpens(Append(q, f), id)
  <1> DEFINE a == Append(q, f)
             n == Len(q) + 1
  <1>1. /\ n \in DOMAIN a /\ a[n] = f /\ DOMAIN a = 1 .. n /\ n \in Nat
        /\ \A i \in DOMAIN q : i \in DOMAIN a /\ a[i] = q[i] /\ i < n
        /\ \A i \in DOMAIN a : i \in DOMAIN q \/ i = n
    BY Appended
  <1> HIDE DEF a, n
  <1>2. ASSUME f.kind # "open", LastOpens(q, id) PROVE LastOpens(a, id)
    <2>1. PICK i \in DOMAIN q : Opens(q, i) /\ q[i].id = id /\ \A j \in DOMAIN q : j > i => ~Opens(q, j)
      BY <1>2, Zenon DEF LastOpens
    <2>2. i \in DOMAIN a /\ Opens(a, i) /\ a[i].id = id
      BY <2>1, <1>1, Zenon DEF Opens
    <2>3. \A j \in DOMAIN a : j > i => ~Opens(a, j)
      BY <2>1, <1>1, <1>2, Zenon DEF Opens
    <2> QED BY <2>2, <2>3, Zenon DEF LastOpens
  <1>3. ASSUME f.kind # "open", NoOpens(q) PROVE NoOpens(a)
    BY <1>1, <1>3, Zenon DEF NoOpens, Opens
  <1>4. ASSUME f.kind = "open", f.id = id PROVE LastOpens(a, id)
    <2>1. \A j \in DOMAIN a : ~(j > n)
      BY <1>1, SMT
    <2> QED BY <2>1, <1>1, <1>4, Zenon DEF LastOpens, Opens
  <1> QED BY <1>2, <1>3, <1>4 DEF a

LEMMA OpensTaken ==
  ASSUME NEW q \in Seq(Down), q # <<>>, NEW id
  PROVE  /\ LastOpens(q, id) => \/ LastOpens(Tail(q), id)
                                \/ NoOpens(Tail(q)) /\ Head(q).kind = "open" /\ Head(q).id = id
         /\ NoOpens(q) => NoOpens(Tail(q)) /\ Head(q).kind # "open"
  <1> DEFINE t == Tail(q)
  <1>1. /\ Head(q) = q[1] /\ 1 \in DOMAIN q /\ DOMAIN q = 1 .. Len(q) /\ Len(q) \in Nat
        /\ DOMAIN t = 1 .. Len(q) - 1
        /\ \A i \in DOMAIN t : i + 1 \in DOMAIN q /\ t[i] = q[i + 1]
        /\ \A i \in DOMAIN q : i = 1 \/ (i - 1 \in DOMAIN t /\ t[i - 1] = q[i])
    BY Shifted
  <1> HIDE DEF t
  <1>2. ASSUME LastOpens(q, id)
        PROVE  LastOpens(t, id) \/ (NoOpens(t) /\ Head(q).kind = "open" /\ Head(q).id = id)
    <2>1. PICK i \in DOMAIN q : Opens(q, i) /\ q[i].id = id /\ \A j \in DOMAIN q : j > i => ~Opens(q, j)
      BY <1>2, Zenon DEF LastOpens
    <2>2. CASE i = 1
      <3>1. \A j \in DOMAIN t : j + 1 \in DOMAIN q /\ j + 1 > 1 /\ t[j] = q[j + 1]
        BY <1>1, SMT
      <3>2. NoOpens(t)
        BY <2>1, <2>2, <3>1, Zenon DEF NoOpens, Opens
      <3> QED BY <2>1, <2>2, <3>2, <1>1, Zenon DEF Opens
    <2>3. CASE i # 1
      <3>1. i - 1 \in DOMAIN t /\ t[i - 1] = q[i]
        BY <2>3, <1>1, Zenon
      <3>2. \A j \in DOMAIN t : j > i - 1 => j + 1 \in DOMAIN q /\ j + 1 > i /\ t[j] = q[j + 1]
        BY <1>1, SMT
      <3>3. \A j \in DOMAIN t : j > i - 1 => ~Opens(t, j)
        BY <2>1, <3>2, Zenon DEF Opens
      <3>4. Opens(t, i - 1) /\ t[i - 1].id = id
        BY <2>1, <3>1, Zenon DEF Opens
      <3> QED BY <3>1, <3>3, <3>4, Zenon DEF LastOpens
    <2> QED BY <2>2, <2>3
  <1>3. ASSUME NoOpens(q) PROVE NoOpens(t) /\ Head(q).kind # "open"
    <2>1. \A i \in DOMAIN q : q[i].kind # "open"
      BY <1>3, Zenon DEF NoOpens, Opens
    <2>2. \A i \in DOMAIN t : t[i].kind # "open"
      <3> SUFFICES ASSUME NEW i \in DOMAIN t PROVE t[i].kind # "open"
        OBVIOUS
      <3>1. i + 1 \in DOMAIN q /\ t[i] = q[i + 1]
        BY <1>1, Zenon
      <3> QED BY <3>1, <2>1, Zenon
    <2>3. Head(q).kind # "open"
      BY <1>1, <2>1, Zenon
    <2> QED BY <2>2, <2>3, Zenon DEF NoOpens, Opens
  <1> QED BY <1>2, <1>3 DEF t

\* Most steps leave the way from the object to the shell as it is.
LEMMA PathStays ==
  ASSUME Types, ConnInv, PathInv, row'.id \in {row.id, Nobody}, UNCHANGED conn,
         conn # 0 /\ socket'[conn] = "active" => socket[conn] = "active",
         shell.id = row.id => shell'.id = shell.id,
         conn \in Conns => \A f \in In(toGateway[conn]) : Ends(f, row.id) /\ row'.id # Nobody => f \in In(toGateway'[conn]),
         conn \in Conns => toCli'[conn] = toCli[conn] \/ \E f \in Down :
            (f.kind # "open" \/ f.id = row.id) /\ toCli'[conn] = Append(toCli[conn], f)
  PROVE  PathInv'
  <1>0. LinkTypes /\ FrameTypes
    BY Zenon DEF Types
  <1> SUFFICES ASSUME conn' # 0, socket'[conn'] = "active", row'.id # Nobody
               PROVE  \/ \E f \in In(toGateway'[conn']) : Ends(f, row'.id)
                      \/ LastOpens(toCli'[conn'], row'.id)
                      \/ shell'.id = row'.id /\ NoOpens(toCli'[conn'])
    BY Zenon DEF PathInv
  <1>1. /\ conn' = conn /\ conn # 0 /\ socket[conn] = "active" /\ row.id # Nobody /\ row'.id = row.id
        /\ socket'[conn] = "active"
    BY SMT
  <1>2. conn \in Conns /\ toCli[conn] \in Seq(Down)
    BY <1>0, <1>1, OwnConn DEF FrameTypes
  <1>3. LastOpens(toCli[conn], row.id) => LastOpens(toCli'[conn], row.id)
    BY <1>2, OpensAppended, Zenon
  <1>4. NoOpens(toCli[conn]) => NoOpens(toCli'[conn]) \/ LastOpens(toCli'[conn], row.id)
    BY <1>2, OpensAppended, Zenon
  <1>5. \/ \E f \in In(toGateway[conn]) : Ends(f, row.id)
        \/ LastOpens(toCli[conn], row.id)
        \/ shell.id = row.id /\ NoOpens(toCli[conn])
    BY <1>1, Zenon DEF PathInv
  <1>6. \/ \E f \in In(toGateway'[conn]) : Ends(f, row.id)
        \/ LastOpens(toCli'[conn], row.id)
        \/ shell'.id = row.id /\ NoOpens(toCli'[conn])
    BY <1>1, <1>2, <1>3, <1>4, <1>5, Zenon
  <1> QED BY <1>1, <1>6, Zenon

\* Which steps keep the listed session, and which send nothing to the CLI.
LEMMA RowStays ==
  ASSUME Types, IdsInv
  PROVE  /\ \A v \in Viewers : CloseSeen(v) => row'.id = row.id
         /\ \A v \in Viewers : CloseShell(v) => row'.id = Nobody
         /\ CloseTarget => row'.id = Nobody
         /\ \A c \in Conns : Hello(c) \/ DropFinishes(c) => row'.id = Nobody
         /\ \A c \in Conns : Receive(c) =>
              \/ row'.id = row.id
              \/ row'.id = Nobody /\ Head(toGateway[c]).id = row.id
         /\ Expire => row'.id \in {row.id, Nobody}
         /\ Expire => (row'.id = row.id /\ UNCHANGED toCli)
                      \/ (row'.id = Nobody /\ row.id \in Viewers /\ ToExecutor(Frame("close", row.id)))
  <1>0. WindowTypes /\ StoreTypes /\ NoSession.id = Nobody
    BY NoSessionType, Zenon DEF Types
  <1>1. ASSUME NEW v \in Viewers, CloseSeen(v) PROVE row'.id = row.id
    <2>1. v \in Live /\ row' = Persisted(v)
      BY <1>1, SettlingSteps, Zenon DEF CloseSeen
    <2>2. Persisted(v) = [id |-> row.id, replay |-> Merged(row, v)]
      BY <2>1, <1>0, PersistedType, Zenon
    <2> QED BY <2>1, <2>2, SMT
  <1>2. ASSUME Forget(row.id), row.id \in Viewers PROVE row'.id = Nobody
    BY <1>0, <1>2, ForgetEffect, Zenon
  <1>3. ASSUME NEW v \in Viewers, CloseShell(v) PROVE row'.id = Nobody
    BY <1>2, <1>3, SendingSteps, Zenon
  <1>4. CloseTarget => row'.id = Nobody
    BY <1>2, SendingSteps, Zenon
  <1>5. \A c \in Conns : Hello(c) \/ DropFinishes(c) => row'.id = Nobody
    BY <1>0, SettlingSteps, Zenon
  <1>6. ASSUME NEW c \in Conns, Receive(c)
        PROVE  row'.id = row.id \/ (row'.id = Nobody /\ Head(toGateway[c]).id = row.id)
    <2>1. PICK f \in UpFrames :
            /\ f = Head(toGateway[c])
            /\ (f.chunk \in Chunk /\ Output(f.id, f.chunk)) \/ Forget(f.id)
      BY <1>6, ReceiveCases, Zenon
    <2>2. f.id \in Viewers
      BY UpFrameFields, Zenon
    <2>3. CASE f.chunk \in Chunk /\ Output(f.id, f.chunk)
      <3>1. \/ UNCHANGED row
            \/ /\ f.id = row.id
               /\ LET next == [id |-> f.id, replay |-> AppendReplay(Flushed(row, pending).replay, <<f.chunk>>)]
                  IN  row' = next
        BY <2>2, <2>3, OutputCases, Zenon
      <3> QED BY <3>1, SMT
    <2>4. CASE Forget(f.id)
      BY <1>0, <2>1, <2>2, <2>4, ForgetEffect, Zenon
    <2> QED BY <2>1, <2>3, <2>4, Zenon
  <1>7. ASSUME Expire
        PROVE  \/ row'.id = row.id /\ UNCHANGED toCli
               \/ row'.id = Nobody /\ row.id \in Viewers /\ ToExecutor(Frame("close", row.id))
    BY <1>0, <1>7, ExpireCases, FlushedType, Zenon
  <1> QED BY <1>1, <1>3, <1>4, <1>5, <1>6, <1>7, Zenon

LEMMA CloseStep ==
  ASSUME Types, IdsInv, ConnInv, FreshInv, CloseInv, Next
  PROVE  CloseInv'
  <1>0. /\ FrameTypes /\ LinkTypes /\ WindowTypes /\ StoreTypes
        /\ \A c \in Conns : \A f \in In(toCli[c]) : f.kind = "close" => f.id # row.id
        /\ \A c \in Conns : \A f \in In(toCli[c]) : f.id \in Viewers /\ f.id # Nobody
    <2>1. \A c \in Conns : In(toCli[c]) \subseteq Down
      BY InSeq, Zenon DEF Types, FrameTypes
    <2> QED BY <2>1, DownFields, Constants, Zenon DEF CloseInv, Types
  <1>k. \A f \in Down : f.id \in Viewers /\ f.id # Nobody
    BY DownFields, Constants, Zenon
  <1>g. ASSUME row'.id \in {row.id, Nobody},
               toCli' = toCli \/ \E f \in Down : ToExecutor(f) /\ (f.kind = "close" => f.id # row'.id)
        PROVE  CloseInv'
    <2>1. CASE toCli' = toCli
      BY <2>1, <1>g, <1>0, Zenon DEF CloseInv
    <2>2. ASSUME NEW f \in Down, ToExecutor(f), f.kind = "close" => f.id # row'.id PROVE CloseInv'
      <3>1. \A c \in Conns : In(toCli'[c]) \subseteq In(toCli[c]) \cup {f}
        BY <2>2, <1>0, Sent, Zenon
      <3> QED BY <3>1, <2>2, <1>g, <1>0, <1>k, Zenon DEF CloseInv
    <2> QED BY <1>g, <2>1, <2>2, Zenon
  <1>h. ASSUME row'.id \in {row.id, Nobody}, \A c \in Conns : In(toCli'[c]) \subseteq In(toCli[c])
        PROVE  CloseInv'
    BY <1>h, <1>0, Zenon DEF CloseInv
  <1>1. ASSUME NEW v \in Viewers, Accept(v) PROVE CloseInv'
    <2>1. PICK s : /\ s.id = row.id /\ NewId(s, v) \in Viewers
                   /\ row' = [id |-> NewId(s, v), replay |-> s.replay]
                   /\ ToExecutor(Frame("open", NewId(s, v)))
      BY <1>1, AcceptEffect, Zenon
    <2>2. view[v] = "none"
      BY <1>1, AcceptEffect, Zenon
    <2>3. \A c \in Conns : \A f \in In(toCli[c]) : f.kind = "close" => f.id # NewId(s, v)
      <3>1. \A c \in Conns : \A f \in In(toCli[c]) : f.id # v
        BY <2>2, Zenon DEF FreshInv
      <3> QED BY <3>1, <2>1, <1>0, Zenon DEF NewId
    <2>4. /\ Frame("open", NewId(s, v)) \in Down /\ row'.id = NewId(s, v)
          /\ Frame("open", NewId(s, v)).kind # "close"
      <3>1. Frame("open", NewId(s, v)) \in Down
        BY <2>1, DownFrames, Zenon
      <3> QED BY <3>1, <2>1, SMT DEF Frame
    <2>5. \A c \in Conns : In(toCli'[c]) \subseteq In(toCli[c]) \cup {Frame("open", NewId(s, v))}
      BY <2>1, <2>4, <1>0, Sent, Zenon
    <2> QED BY <2>3, <2>4, <2>5, Zenon DEF CloseInv
  <1>2. ASSUME NEW v \in Viewers, Leave(v) \/ NoExecutor(v) PROVE CloseInv'
    BY <1>2, <1>g, Zenon DEF Leave, NoExecutor, relay, frames
  <1>3. ASSUME NEW v \in Viewers, CloseSeen(v) PROVE CloseInv'
    BY <1>3, <1>g, RowStays, Zenon DEF CloseSeen, frames
  <1>4. ASSUME NEW v \in Viewers, Input(v) PROVE CloseInv'
    <2>1. idOf[v] \in Viewers /\ ToExecutor(Frame("input", idOf[v])) /\ UNCHANGED row
      BY <1>4, SendingSteps, Zenon DEF Input, relay
    <2>2. Frame("input", idOf[v]) \in Down /\ Frame("input", idOf[v]).kind # "close"
      <3>1. Frame("input", idOf[v]) \in Down
        BY <2>1, DownFrames, Zenon
      <3> QED BY <3>1, SMT DEF Frame
    <2> QED BY <2>1, <2>2, <1>g, Zenon
  <1>5. ASSUME row'.id = Nobody, NEW id \in Viewers, ToExecutor(Frame("close", id))
        PROVE  CloseInv'
    <2>1. Frame("close", id) \in Down
      BY DownFrames, Zenon
    <2>2. Frame("close", id).id # row'.id
      BY <2>1, <1>k, <1>5, Zenon
    <2> QED BY <2>1, <2>2, <1>5, <1>g, Zenon
  <1>6. ASSUME CloseTarget \/ \E v \in Viewers : CloseShell(v) PROVE CloseInv'
    <2>1. row'.id = Nobody /\ row.id \in Viewers /\ ToExecutor(Frame("close", row.id))
      BY <1>6, RowStays, SendingSteps, Zenon
    <2> QED BY <2>1, <1>5, Zenon
  <1>7. ASSUME NEW c \in Conns, Receive(c) PROVE CloseInv'
    <2>1. PICK f \in UpFrames :
            /\ f = Head(toGateway[c])
            /\ toCli' = toCli \/ (Forget(f.id) /\ ToExecutor(Frame("close", f.id)))
      BY <1>7, ReceiveCases, Zenon
    <2>2. f.id \in Viewers /\ Frame("close", f.id) \in Down /\ row'.id \in {row.id, Nobody}
      BY <1>7, UpFrameFields, DownFrames, RowStays, Zenon
    <2>3. CASE Forget(f.id) /\ ToExecutor(Frame("close", f.id))
      <3>1. row'.id # f.id
        BY <2>2, <2>3, ForgetEffect, Zenon
      <3>2. Frame("close", f.id).id # row'.id
        BY <3>1, FrameFields, Zenon
      <3> QED BY <2>2, <2>3, <3>2, <1>g, Zenon
    <2> QED BY <2>1, <2>2, <2>3, <1>g, Zenon
  <1>8. ASSUME NEW c \in Conns, Dial(c) \/ Hello(c) \/ DropFinishes(c) PROVE CloseInv'
    BY <1>8, <1>g, RowStays, Zenon DEF Dial, Hello, DropFinishes, relay, frames
  <1>9. ASSUME NEW c \in Conns, SocketEnds(c) PROVE CloseInv'
    <2>1. toCli' = [toCli EXCEPT ![c] = <<>>] /\ UNCHANGED row
      BY <1>9, Zenon DEF SocketEnds, relay
    <2>2. \A d \in Conns : toCli'[d] = <<>> \/ toCli'[d] = toCli[d]
      BY <2>1, <1>0, Zenon DEF FrameTypes
    <2> QED BY <2>1, <2>2, <1>h, InFew, Zenon
  <1>10. ASSUME ConnectionEnds PROVE CloseInv'
    <2>1. toCli' = [toCli EXCEPT ![conn] = <<>>] /\ UNCHANGED row
      BY <1>10, Zenon DEF ConnectionEnds, relay
    <2>2. \A d \in Conns : toCli'[d] = <<>> \/ toCli'[d] = toCli[d]
      BY <2>1, <1>0, Zenon DEF FrameTypes
    <2> QED BY <2>1, <2>2, <1>h, InFew, Zenon
  <1>11. ASSUME Served PROVE CloseInv'
    <2>1. UNCHANGED row /\ \A c \in Conns : In(toCli'[c]) \subseteq In(toCli[c])
      BY <1>11, ServedCases, Zenon DEF relay
    <2> QED BY <2>1, <1>h, Zenon
  <1>12. ASSUME Write \/ Exit \/ \E id \in Viewers : KilledExits(id) PROVE CloseInv'
    BY <1>12, <1>g, Zenon DEF Write, Exit, KilledExits, relay
  <1>13. ASSUME Expire PROVE CloseInv'
    BY <1>13, <1>5, <1>g, RowStays, Zenon
  <1>14. ASSUME Ages \/ Hibernate \/ Evict \/ Waits PROVE CloseInv'
    BY <1>14, <1>g, WaitsCases, Zenon DEF Ages, Hibernate, Evict, Wiped, frames
  <1> QED BY <1>1, <1>2, <1>3, <1>4, <1>6, <1>7, <1>8, <1>9, <1>10, <1>11, <1>12, <1>13, <1>14, Zenon
          DEF Next, Served

LEMMA PathStep ==
  ASSUME Types, IdsInv, ConnInv, FreshInv, CloseInv, PathInv, Next, ~Overtakes
  PROVE  PathInv'
  <1>0. /\ FrameTypes /\ LinkTypes /\ ShellTypes /\ 0 \notin Conns /\ Executor \subseteq Conns
        /\ \A c \in Conns : toCli[c] \in Seq(Down) /\ toGateway[c] \in Seq(UpFrames)
        /\ \A c \in Conns : c \in Executor <=> socket[c] = "active"
        /\ conn # 0 => conn \in Conns
    BY OwnConn DEF Types, FrameTypes
  <1>r. ASSUME row'.id = Nobody PROVE PathInv'
    BY <1>r, Zenon DEF PathInv
  <1>s. ASSUME NEW f \in Down, ToExecutor(f), f.kind # "open" \/ f.id = row.id
        PROVE  conn \in Conns => toCli'[conn] = toCli[conn] \/ \E e \in Down :
                 (e.kind # "open" \/ e.id = row.id) /\ toCli'[conn] = Append(toCli[conn], e)
    BY <1>0, <1>s, Sent, Zenon
  <1>u. ASSUME row'.id \in {row.id, Nobody}, UNCHANGED <<conn, socket, cli, toGateway>>,
               toCli' = toCli \/ \E f \in Down : ToExecutor(f) /\ (f.kind # "open" \/ f.id = row.id)
        PROVE  PathInv'
    <2>1. conn \in Conns => toCli'[conn] = toCli[conn] \/ \E f \in Down :
            (f.kind # "open" \/ f.id = row.id) /\ toCli'[conn] = Append(toCli[conn], f)
      BY <1>u, <1>s, Zenon
    <2> QED BY <2>1, <1>u, PathStays, Zenon DEF cli
  <1>1. ASSUME NEW v \in Viewers, Accept(v) PROVE PathInv'
    <2>1. PICK s : /\ s.id = row.id /\ NewId(s, v) \in Viewers
                   /\ row' = [id |-> NewId(s, v), replay |-> s.replay]
                   /\ ToExecutor(Frame("open", NewId(s, v)))
      BY <1>1, AcceptEffect, Zenon
    <2>2. UNCHANGED <<conn, socket, cli, toGateway>>
      BY <1>1, Zenon DEF Accept, links
    <2>3. /\ row'.id = NewId(s, v) /\ Frame("open", NewId(s, v)) \in Down
          /\ Frame("open", NewId(s, v)).kind = "open" /\ Frame("open", NewId(s, v)).id = NewId(s, v)
      <3>1. Frame("open", NewId(s, v)) \in Down
        BY <2>1, DownFrames, Zenon
      <3> QED BY <3>1, <2>1, SMT DEF Frame
    <2>4. ASSUME conn' # 0, socket'[conn'] = "active" PROVE LastOpens(toCli'[conn'], row'.id)
      <3>1. conn \in Executor /\ conn' = conn /\ toCli[conn] \in Seq(Down)
        BY <2>2, <2>4, <1>0, Zenon
      <3>2. toCli'[conn] = Append(toCli[conn], Frame("open", NewId(s, v)))
        BY <2>1, <2>3, <3>1, <1>0, Sent, Zenon
      <3>3. LastOpens(Append(toCli[conn], Frame("open", NewId(s, v))), NewId(s, v))
        BY <2>3, <3>1, OpensAppended, Zenon
      <3> QED BY <2>3, <3>1, <3>2, <3>3, Zenon
    <2> QED BY <2>4, Zenon DEF PathInv
  <1>2. ASSUME NEW v \in Viewers, Leave(v) \/ NoExecutor(v) PROVE PathInv'
    BY <1>2, <1>u, Zenon DEF Leave, NoExecutor, relay, frames, links
  <1>3. ASSUME NEW v \in Viewers, CloseSeen(v) PROVE PathInv'
    BY <1>3, <1>u, RowStays, Zenon DEF CloseSeen, frames, links
  <1>4. ASSUME NEW v \in Viewers, Input(v) PROVE PathInv'
    <2>1. /\ idOf[v] \in Viewers /\ ToExecutor(Frame("input", idOf[v]))
          /\ UNCHANGED <<row, conn, socket, cli, toGateway>>
      BY <1>4, SendingSteps, Zenon DEF Input, relay, links
    <2>2. Frame("input", idOf[v]) \in Down /\ Frame("input", idOf[v]).kind # "open"
      <3>1. Frame("input", idOf[v]) \in Down
        BY <2>1, DownFrames, Zenon
      <3> QED BY <3>1, SMT DEF Frame
    <2> QED BY <2>1, <2>2, <1>u, Zenon
  <1>5. ASSUME CloseTarget \/ (\E v \in Viewers : CloseShell(v)) \/ \E c \in Conns : Hello(c) \/ DropFinishes(c)
        PROVE  PathInv'
    BY <1>5, <1>r, RowStays, Zenon
  <1>6. ASSUME NEW c \in Conns, Receive(c) PROVE PathInv'
    <2>1. row'.id = row.id \/ (row'.id = Nobody /\ Head(toGateway[c]).id = row.id)
      BY <1>6, RowStays, Zenon
    <2>2. CASE row'.id = Nobody
      BY <2>2, <1>r, Zenon
    <2>3. CASE row'.id = row.id /\ row.id # Nobody
      <3>1. /\ toGateway[c] # <<>> /\ toGateway' = [toGateway EXCEPT ![c] = Tail(@)]
            /\ UNCHANGED <<conn, socket, cli>>
        BY <1>6, <1>0, FirstFrame, Zenon DEF links
      <3>2. PICK f \in UpFrames :
              /\ f = Head(toGateway[c])
              /\ \/ f.kind = "output" /\ UNCHANGED toCli
                 \/ /\ f.kind \in {"exit", "error"} /\ Forget(f.id)
                    /\ toCli' = toCli \/ ToExecutor(Frame("close", f.id))
        BY <1>6, ReceiveCases, Zenon
      <3>3. f.id \in Viewers /\ Frame("close", f.id) \in Down
        BY UpFrameFields, DownFrames, Zenon
      <3>4. ~Ends(f, row.id)
        <4>1. CASE f.kind = "output"
          BY <4>1 DEF Ends
        <4>2. CASE Forget(f.id)
          <5>1. row'.id # f.id
            BY <4>2, <3>3, ForgetEffect, Zenon
          <5> QED BY <5>1, <2>3, Zenon DEF Ends
        <4> QED BY <3>2, <4>1, <4>2, Zenon
      <3>5. conn \in Conns => \A e \in In(toGateway[conn]) : Ends(e, row.id) => e \in In(toGateway'[conn])
        <4> SUFFICES ASSUME conn \in Conns, NEW e \in In(toGateway[conn]), Ends(e, row.id)
                     PROVE  e \in In(toGateway'[conn])
          OBVIOUS
        <4>1. conn # c => toGateway'[conn] = toGateway[conn]
          BY <3>1 DEF FrameTypes
        <4>2. conn = c => toGateway'[conn] = Tail(toGateway[conn])
          BY <3>1, <1>0 DEF FrameTypes
        <4>3. conn = c => In(toGateway[conn]) = In(Tail(toGateway[conn])) \cup {f}
          BY <3>1, <3>2, <1>0, InTail, Zenon
        <4>4. conn = c => e \in In(Tail(toGateway[conn]))
          BY <4>3, <3>4, Zenon
        <4> QED BY <4>1, <4>2, <4>4, Zenon
      <3>6. conn \in Conns => toCli'[conn] = toCli[conn] \/ \E e \in Down :
              (e.kind # "open" \/ e.id = row.id) /\ toCli'[conn] = Append(toCli[conn], e)
        <4>1. Frame("close", f.id).kind # "open"
          BY SMT DEF Frame
        <4> QED BY <4>1, <3>2, <3>3, <1>s, Zenon
      <3> QED BY <3>1, <3>5, <3>6, <2>3, PathStays, Zenon DEF cli
    <2> QED BY <2>1, <2>2, <2>3, <1>r, Zenon
  <1>7. ASSUME NEW c \in Conns, Dial(c) PROVE PathInv'
    <2>1. conn' = c /\ socket' = [socket EXCEPT ![c] = "accepted"]
      BY <1>7, Zenon DEF Dial
    <2>2. socket'[conn'] # "active"
      BY <2>1, <1>0, SMT DEF LinkTypes
    <2> QED BY <2>2, Zenon DEF PathInv
  <1>8. ASSUME NEW c \in Conns, SocketEnds(c) PROVE PathInv'
    <2>1. /\ conn # c /\ socket' = [socket EXCEPT ![c] = "closed"] /\ UNCHANGED <<row, conn, cli>>
          /\ toGateway' = [toGateway EXCEPT ![c] = <<>>] /\ toCli' = [toCli EXCEPT ![c] = <<>>]
      BY <1>8, Zenon DEF SocketEnds, relay
    <2>2. conn \in Conns => /\ socket'[conn] = socket[conn] /\ toCli'[conn] = toCli[conn]
                            /\ toGateway'[conn] = toGateway[conn]
      BY <2>1, <1>0, Zenon DEF FrameTypes, LinkTypes
    <2> QED BY <2>1, <2>2, <1>0, PathStays, Zenon DEF cli
  <1>9. ASSUME ConnectionEnds PROVE PathInv'
    BY <1>9, Zenon DEF ConnectionEnds, PathInv
  <1>10. ASSUME Handle PROVE PathInv'
    <2>1. /\ conn \in Conns /\ toCli[conn] # <<>> /\ UNCHANGED <<row, conn, socket>>
          /\ toCli' = [toCli EXCEPT ![conn] = Tail(@)]
      BY <1>10, HandleCases, Zenon DEF relay, links
    <2>2. PICK f \in Down :
            /\ f = Head(toCli[conn]) /\ f \in In(toCli[conn])
            /\ \/ /\ f.kind = "open" /\ shell # NoShell /\ shell' = [shell EXCEPT !.id = f.id]
                  /\ UNCHANGED toGateway
               \/ /\ f.kind = "open" /\ shell' = [id |-> f.id, gen |-> shells + 1, out |-> 0]
                  /\ UNCHANGED toGateway
               \/ f.kind = "open" /\ Says(<<Frame("error", f.id)>>)
               \/ /\ f.kind = "input" /\ UNCHANGED cli
                  /\ toGateway' = toGateway \/ Says(<<Frame("error", f.id)>>)
               \/ f.kind = "close" /\ shell.id = f.id /\ UNCHANGED toGateway
               \/ f.kind = "close" /\ shell.id # f.id /\ UNCHANGED <<cli, toGateway>>
      BY <1>10, HandleCases, Zenon DEF Answers
    <2> SUFFICES ASSUME socket[conn] = "active", row.id # Nobody
                 PROVE  \/ \E e \in In(toGateway'[conn]) : Ends(e, row.id)
                        \/ LastOpens(toCli'[conn], row.id)
                        \/ shell'.id = row.id /\ NoOpens(toCli'[conn])
      BY <2>1, Zenon DEF PathInv
    <2>3. toCli'[conn] = Tail(toCli[conn])
      BY <2>1, <1>0, FirstTaken, Zenon
    <2>4. f.id \in Viewers /\ Frame("error", f.id) \in UpFrames
      BY DownFields, DownFrames, Zenon
    <2>5. <<Frame("error", f.id)>> \in Seq(UpFrames)
      BY <2>4, SMT
    <2>6. ASSUME Says(<<Frame("error", f.id)>>), f.id = row.id
          PROVE  \E e \in In(toGateway'[conn]) : Ends(e, row.id)
      <3>1. In(<<Frame("error", f.id)>>) \subseteq In(toGateway'[conn])
        BY <2>1, <2>5, <2>6, <1>0, Said, Zenon
      <3>2. Frame("error", f.id) \in In(<<Frame("error", f.id)>>)
        BY InFew
      <3>3. Ends(Frame("error", f.id), row.id)
        BY <2>6, SMT DEF Ends, Frame
      <3> QED BY <3>1, <3>2, <3>3, Zenon
    <2>7. In(toGateway[conn]) \subseteq In(toGateway'[conn])
      BY <2>1, <2>2, <2>5, <1>0, Said, Zenon
    <2>8. CASE f.kind = "open"
      <3>1. Says(<<Frame("error", f.id)>>) \/ shell'.id = f.id
        <4>1. shell' = [shell EXCEPT !.id = f.id] => shell'.id = f.id
          BY <1>0, SMT DEF ShellTypes
        <4>2. shell' = [id |-> f.id, gen |-> shells + 1, out |-> 0] => shell'.id = f.id
          BY SMT
        <4> QED BY <2>2, <2>8, <4>1, <4>2, SMT
      <3>2. ~NoOpens(toCli[conn])
        BY <2>1, <2>2, <2>8, <1>0, OpensTaken, Zenon
      <3>3. LastOpens(toCli[conn], row.id) =>
              LastOpens(Tail(toCli[conn]), row.id) \/ (NoOpens(Tail(toCli[conn])) /\ f.id = row.id)
        BY <2>1, <2>2, <1>0, OpensTaken, Zenon
      <3>4. \/ \E e \in In(toGateway[conn]) : Ends(e, row.id)
            \/ LastOpens(toCli[conn], row.id)
        BY <2>1, <3>2, <1>0, Zenon DEF PathInv
      <3> QED BY <2>3, <2>6, <2>7, <3>1, <3>3, <3>4, Zenon
    <2>9. CASE f.kind # "open"
      <3>1. LastOpens(toCli[conn], row.id) => LastOpens(Tail(toCli[conn]), row.id)
        BY <2>1, <2>2, <2>9, <1>0, OpensTaken, Zenon
      <3>2. NoOpens(toCli[conn]) => NoOpens(Tail(toCli[conn]))
        BY <2>1, <1>0, OpensTaken, Zenon
      <3>3. shell.id = row.id => shell'.id = row.id
        <4>1. f.kind = "close" => f.id # row.id
          BY <2>1, <2>2, Zenon DEF CloseInv
        <4> QED BY <4>1, <2>2, <2>9, Zenon DEF cli
      <3>4. \/ \E e \in In(toGateway[conn]) : Ends(e, row.id)
            \/ LastOpens(toCli[conn], row.id)
            \/ shell.id = row.id /\ NoOpens(toCli[conn])
        BY <2>1, <1>0, Zenon DEF PathInv
      <3> QED BY <2>3, <2>7, <3>1, <3>2, <3>3, <3>4, Zenon
    <2> QED BY <2>8, <2>9, Zenon
  <1>11. ASSUME Write PROVE PathInv'
    <2> DEFINE f == [kind |-> "output", id |-> shell.id, chunk |-> <<shell.gen, shell.out + 1>>]
    <2>1. /\ shell' = [shell EXCEPT !.out = shell.out + 1] /\ Says(<<f>>) /\ UNCHANGED <<row, conn, socket, toCli>>
          /\ conn \in Conns /\ <<f>> \in Seq(UpFrames)
      BY <1>11, ShellSpeaks, Zenon DEF Write, relay, links
    <2>2. shell'.id = shell.id
      BY <2>1, <1>0, SMT DEF ShellTypes
    <2> HIDE DEF f
    <2>3. In(toGateway[conn]) \subseteq In(toGateway'[conn])
      BY <2>1, <1>0, Said, Zenon
    <2> QED BY <2>1, <2>2, <2>3, PathStays, Zenon
  <1>12. ASSUME Exit PROVE PathInv'
    <2>1. UNCHANGED <<row, conn, socket, toCli>>
      BY <1>12, Zenon DEF Exit, relay, links
    <2>2. PICK fs \in Seq(UpFrames) : conn \in Conns /\ Says(fs) /\ Frame("exit", shell.id) \in In(fs)
      BY <1>12, ShellSpeaks, Zenon
    <2>3. In(toGateway[conn]) \subseteq In(toGateway'[conn]) /\ Frame("exit", shell.id) \in In(toGateway'[conn])
      BY <2>2, <1>0, Said, Zenon
    <2>4. Ends(Frame("exit", shell.id), shell.id)
      BY SMT DEF Ends, Frame
    <2> SUFFICES ASSUME socket[conn] = "active", row.id # Nobody
                 PROVE  \/ \E e \in In(toGateway'[conn]) : Ends(e, row.id)
                        \/ LastOpens(toCli[conn], row.id)
      BY <2>1, Zenon DEF PathInv
    <2>5. \/ \E e \in In(toGateway[conn]) : Ends(e, row.id)
          \/ LastOpens(toCli[conn], row.id)
          \/ shell.id = row.id
      BY <2>2, <1>0, Zenon DEF PathInv
    <2> QED BY <2>3, <2>4, <2>5, Zenon
  <1>13. ASSUME NEW id \in Viewers, KilledExits(id) PROVE PathInv'
    <2>1. /\ UNCHANGED <<row, conn, socket, toCli, shell>> /\ conn \in Conns
          /\ Says(<<Frame("exit", id)>>) /\ <<Frame("exit", id)>> \in Seq(UpFrames)
      BY <1>13, ShellSpeaks, Zenon DEF KilledExits, relay, links
    <2>2. In(toGateway[conn]) \subseteq In(toGateway'[conn])
      BY <2>1, <1>0, Said, Zenon
    <2> QED BY <2>1, <2>2, PathStays, Zenon
  <1>14. ASSUME Expire PROVE PathInv'
    <2>1. UNCHANGED <<conn, socket, cli, toGateway>>
      BY <1>14, Zenon DEF Expire, links
    <2>2. CASE row'.id = row.id /\ UNCHANGED toCli
      BY <2>1, <2>2, <1>u, Zenon
    <2> QED BY <1>14, <2>2, <1>r, RowStays, Zenon
  <1>15. ASSUME Ages \/ Hibernate \/ Evict \/ Waits PROVE PathInv'
    BY <1>15, <1>u, WaitsCases, Zenon DEF Ages, Hibernate, Evict, Wiped, frames, links
  <1> QED BY <1>1, <1>2, <1>3, <1>4, <1>5, <1>6, <1>7, <1>8, <1>9, <1>10, <1>11, <1>12, <1>13, <1>14,
             <1>15, Zenon DEF Next

----------------------------------------------------------------------------
(* The invariant and what follows from it *)

LEMMA InitTypes == Init => Types /\ ShownInv
  <1> SUFFICES ASSUME Init PROVE Types /\ ShownInv
    OBVIOUS
  <1>1. /\ view = [v \in Viewers |-> "none"] /\ idOf = [v \in Viewers |-> Nobody]
        /\ seen = [v \in Viewers |-> <<>>] /\ buffer = [v \in Viewers |-> NoBuffer]
        /\ row = NoSession /\ pending = NoSession /\ alarm = "none" /\ aged = FALSE
        /\ socket = [c \in Conns |-> "none"] /\ dropping = {} /\ conn = 0
        /\ toCli = [c \in Conns |-> <<>>] /\ toGateway = [c \in Conns |-> <<>>]
        /\ shell = NoShell /\ shells = 0 /\ ending = {}
        /\ events = MaxEvents /\ slept = FALSE
        /\ held = {} /\ crossed = FALSE
    BY Zenon DEF Init
  <1>2. WindowTypes
    BY <1>1, SMT DEF WindowTypes, Ids
  <1>3. StoreTypes
    <2>1. buffer \in [Viewers -> [replay : Seq(Chunk), seeded : BOOLEAN]]
      BY <1>1, NoSessionType, SMT
    <2>2. \A v \in Viewers : Len(buffer[v].replay) <= MaxReplay
      BY <1>1, NoSessionType, Constants, SMT
    <2> QED BY <2>1, <2>2, <1>1, NoSessionType, Zenon DEF StoreTypes
  <1>4. ClockTypes
    <2>1. events \in 0 .. MaxEvents
      BY <1>1, Constants, SMT
    <2> QED BY <1>1, <2>1, Zenon DEF ClockTypes
  <1>5. LinkTypes
    BY <1>1, Constants, SMT DEF LinkTypes
  <1>6. FrameTypes
    BY <1>1, SMT DEF FrameTypes
  <1>7. ShellTypes
    BY <1>1, Constants, SMT DEF ShellTypes, NoShell, Ids
  <1>8. Live = {} /\ Executor = {}
    BY <1>1, SMT DEF Live, Executor
  <1>9. IdsInv
    BY <1>1, <1>8, NoSessionType, Zenon DEF IdsInv
  <1>10. \A c \in Conns : toCli[c] = <<>> /\ toGateway[c] = <<>>
    BY <1>1, Zenon
  <1>11. FreshInv
    <2>1. \A v \in Viewers : row.id # v /\ shell.id # v /\ v \notin ending
      BY <1>1, Constants, SMT DEF NoSession, NoShell
    <2> QED BY <2>1, <1>10, InFew, Zenon DEF FreshInv
  <1>12. ConnInv
    BY <1>1, <1>8, <1>10, Zenon DEF ConnInv
  <1>13. CloseInv
    BY <1>10, InFew, Zenon DEF CloseInv
  <1>14. PathInv
    BY <1>1, Zenon DEF PathInv
  <1>15. GateTypes
    BY <1>1, Zenon DEF GateTypes
  <1> QED BY <1>2, <1>3, <1>4, <1>5, <1>6, <1>7, <1>9, <1>11, <1>12, <1>13, <1>14, <1>15, Zenon
          DEF Types, ShownInv

LEMMA TypesStep == Types /\ ShownInv /\ Next => Types' /\ ShownInv'
  <1> SUFFICES ASSUME Types, IdsInv, FreshInv, ConnInv, CloseInv, crossed \/ PathInv, Next PROVE Types' /\ ShownInv'
    BY Zenon DEF ShownInv
  <1>1. Types'
    BY WindowTypesStep, StoreTypesStep, ClockTypesStep, LinkTypesStep, FrameTypesStep, ShellTypesStep,
       GateTypesStep, Zenon DEF Types
  <1>2. crossed' \/ PathInv'
    BY GateTypesStep, PathStep, Zenon
  <1>3. ShownInv'
    BY <1>2, IdsStep, FreshStep, ConnStep, CloseStep, Zenon DEF ShownInv
  <1> QED BY <1>1, <1>3, Zenon

LEMMA Stutter == Types /\ ShownInv /\ UNCHANGED vars => Types' /\ ShownInv'
  <1> SUFFICES ASSUME Types, ShownInv, UNCHANGED vars PROVE Types' /\ ShownInv'
    OBVIOUS
  <1>1. UNCHANGED <<view, idOf, seen, buffer, row, pending, alarm, aged, socket, dropping, conn, toCli, toGateway,
                    shell, shells, ending, held, crossed, events, slept>>
    BY Zenon DEF vars, windows, relay, links, frames, cli, gate
  <1>2. Types'
    BY <1>1, Zenon DEF Types, WindowTypes, StoreTypes, StoredType, ClockTypes, LinkTypes, FrameTypes, ShellTypes,
                  GateTypes
  <1>3. Live' = Live /\ Executor' = Executor
    BY <1>1, Zenon DEF Live, Executor
  <1>4. IdsInv' /\ FreshInv' /\ ConnInv' /\ CloseInv' /\ (crossed' \/ PathInv')
    BY <1>1, <1>3, Zenon DEF ShownInv, IdsInv, FreshInv, ConnInv, CloseInv, PathInv
  <1> QED BY <1>2, <1>4, Zenon DEF ShownInv

LEMMA TerminalInvariant == Spec => [](Types /\ ShownInv)
  <1>1. Init => Types /\ ShownInv
    BY InitTypes
  <1>2. (Types /\ ShownInv) /\ [Next]_vars => (Types /\ ShownInv)'
    BY TypesStep, Stutter, Zenon
  <1> QED BY <1>1, <1>2, PTL DEF Spec

LEMMA SessionType ==
  ASSUME NEW s, StoredType(s)
  PROVE  s \in Session
  <1>1. s \in [id : Ids, replay : Seq(Chunk)] /\ Len(s.replay) <= MaxReplay /\ (s.id = Nobody => s.replay = <<>>)
    BY Zenon DEF StoredType
  <1>2. Len(s.replay) \in 0 .. MaxReplay /\ s.replay \in [1 .. Len(s.replay) -> Chunk]
    BY <1>1, Constants, SMT
  <1>3. s.replay \in UNION {[1 .. n -> Chunk] : n \in 0 .. MaxReplay}
    BY <1>2, Zenon
  <1>4. s \in [id : Ids, replay : UNION {[1 .. n -> Chunk] : n \in 0 .. MaxReplay}]
    <2> DEFINE R == UNION {[1 .. n -> Chunk] : n \in 0 .. MaxReplay}
    <2>1. s.replay \in R
      BY <1>3
    <2> HIDE DEF R
    <2>2. s \in [id : Ids, replay : R]
      BY <1>1, <2>1, SMT
    <2> QED BY <2>2 DEF R
  <1> QED BY <1>1, <1>4, Zenon DEF Session

\* The types of everything the object, the windows and the machine keep.
THEOREM TypeCorrect == Spec => []TypeOK
  <1>1. Types => TypeOK
    <2> SUFFICES ASSUME Types PROVE TypeOK
      OBVIOUS
    <2>1. WindowTypes /\ StoreTypes /\ ClockTypes /\ LinkTypes /\ FrameTypes /\ ShellTypes /\ GateTypes
      BY Zenon DEF Types
    <2>2. \A v \in Viewers : \A i \in DOMAIN seen[v] : seen[v][i] \in Chunk
      BY <2>1, SMT DEF WindowTypes
    <2>3. \A v \in Viewers : Len(buffer[v].replay) <= MaxReplay /\ buffer[v].seeded \in BOOLEAN
      BY <2>1, BufferRecord, Zenon
    <2>4. row \in Session /\ pending \in Session
      BY <2>1, SessionType, Zenon DEF StoreTypes
    <2>5. Down \subseteq Frames /\ UpFrames \subseteq Frames
      BY SMT DEF Down, UpFrames, Frames
    <2>6. \A c \in Conns : /\ \A i \in DOMAIN toCli[c] : toCli[c][i] \in Down
                           /\ \A i \in DOMAIN toGateway[c] : toGateway[c][i] \in UpFrames
      BY <2>1, SMT DEF FrameTypes
    <2>7. \A c \in Conns : \A q \in {toCli[c], toGateway[c]} : \A i \in DOMAIN q : q[i] \in Frames
      BY <2>5, <2>6, Zenon
    <2> QED BY <2>1, <2>2, <2>3, <2>4, <2>7, Zenon
            DEF TypeOK, WindowTypes, ClockTypes, LinkTypes, ShellTypes, GateTypes
  <1> QED BY <1>1, TerminalInvariant, PTL

\* As long as the machine has handled no frame before an older one of another
\* session: when nothing is on its way, the session that the dashboard lists and the
\* one that a window shows is a shell that runs: every end of a shell took its
\* row and its window with it, and a shell took the name of the session that
\* asked for it last (relay-do-terminal-sessions.ts, workspace/terminal.rs).
THEOREM ListedRuns == Spec => []ListedIsAlive
  <1>1. Types /\ ShownInv => ListedIsAlive
    <2> SUFFICES ASSUME Types, IdsInv, ConnInv, PathInv, Settled, ~crossed,
                        row # NoSession \/ Live # {}
                 PROVE  shell.id = row.id /\ \A v \in Live : shell.id = idOf[v]
      BY Zenon DEF ShownInv, ListedIsAlive
    <2>1. row.id # Nobody
      BY ListedId, Zenon DEF IdsInv
    <2>2. /\ conn \in Conns /\ conn # 0 /\ socket[conn] = "active"
          /\ toCli[conn] = <<>> /\ toGateway[conn] = <<>>
      BY OwnConn, Zenon DEF Settled, Types
    <2>3. DOMAIN toCli[conn] = {} /\ In(toGateway[conn]) = {}
      BY <2>2, InFew, SMT
    <2>4. shell.id = row.id
      BY <2>1, <2>2, <2>3, Zenon DEF PathInv, LastOpens
    <2> QED BY <2>4, Zenon DEF IdsInv
  <1> QED BY <1>1, TerminalInvariant, PTL

----------------------------------------------------------------------------
(* Chunks in order *)

LEMMA ChunkPlace ==
  ASSUME NEW a \in Chunk
  PROVE  a \in Nat \X Nat /\ a[1] \in Nat /\ a[2] \in Nat \ {0} /\ a = <<a[1], a[2]>>
  BY Constants, SMT DEF Chunk

LEMMA LastOf ==
  ASSUME NEW s \in Seq(Chunk), s # <<>>
  PROVE  s[Len(s)] \in Chunk /\ Len(s) \in Nat \ {0}
  BY EmptySeq, SMT

\* Chunk x is the first of O, and P is what is left.
Arrives(x, O, P, N, top, k) ==
  /\ O \subseteq Chunk /\ P \subseteq O /\ N \subseteq Nat \X Nat /\ top \in Nat /\ k \in BOOLEAN
  /\ x \in O /\ O \subseteq P \cup {x} /\ \A b \in P : Later(x, b)
  /\ Ordered(O, N, top, k)

\* What arrives next extends what it comes after.
LEMMA NextChunk ==
  ASSUME NEW O, NEW P, NEW N, NEW top, NEW k, NEW x, Arrives(x, O, P, N, top, k)
  PROVE  /\ Leads(x, P, N, top, k) /\ Ordered(P, N, top, k)
         /\ \A a \in Chunk : Leads(a, O, N, top, k) => Comes(a, x, {a}, k)
  <1> USE DEF Arrives
  <1>1. x \in Chunk /\ P \subseteq Chunk
    OBVIOUS
  <1>2. Leads(x, P, N, top, k)
    <2>1. x[1] <= top
      BY DEF Ordered
    <2>2. ASSUME NEW b \in P \cup N PROVE Later(x, b)
      BY Zenon DEF Ordered
    <2>3. ASSUME NEW b \in P \cup N PROVE Comes(x, b, P \cup {x}, k)
      <3>1. Later(x, b) /\ b \in O \cup N
        BY <2>2, Zenon
      <3>2. Comes(x, b, O, k)
        BY <3>1, Zenon DEF Ordered
      <3> QED BY <3>2, Zenon DEF Comes, Follows
    <2> QED BY <2>1, <2>3, Zenon DEF Leads
  <1>3. Ordered(P, N, top, k)
    <2> SUFFICES ASSUME NEW o \in P PROVE /\ o[1] <= top /\ \A n \in N : Later(o, n)
                                          /\ \A b \in P \cup N : Later(o, b) => Comes(o, b, P, k)
      BY Zenon DEF Ordered
    <2>1. o[1] <= top /\ \A n \in N : Later(o, n)
      BY Zenon DEF Ordered
    <2>2. ASSUME NEW b \in P \cup N, Later(o, b) PROVE Comes(o, b, P, k)
      <3>1. Comes(o, b, O, k)
        BY <2>2, Zenon DEF Ordered
      <3>2. Later(x, o)
        OBVIOUS
      <3>3. /\ x[1] \in Nat /\ x[2] \in Nat /\ o[1] \in Nat /\ o[2] \in Nat
            /\ b[1] \in Nat /\ b[2] \in Nat
        <4>1. x \in Nat \X Nat /\ o \in Nat \X Nat /\ b \in Nat \X Nat
          BY <1>1, ChunkPlace, Zenon
        <4> QED BY <4>1, SMT
      <3>4. <<b[1], b[2] - 1>> # x
        BY <2>2, <3>2, <3>3, SMT DEF Later
      <3> QED BY <3>1, <3>4, Zenon DEF Comes, Follows
    <2> QED BY <2>1, <2>2, Zenon
  <1>4. ASSUME NEW a \in Chunk, Leads(a, O, N, top, k)
        PROVE  Comes(a, x, {a}, k)
    <2>1. Comes(a, x, O \cup {a}, k)
      BY <1>4, Zenon DEF Leads
    <2>2. ASSUME NEW o \in O PROVE <<x[1], x[2] - 1>> # o
      <3>1. o = x \/ Later(x, o)
        OBVIOUS
      <3>2. x[1] \in Nat /\ x[2] \in Nat /\ o[1] \in Nat /\ o[2] \in Nat
        BY <1>1, ChunkPlace, SMT
      <3> QED BY <3>1, <3>2, SMT DEF Later
    <2> QED BY <2>1, <2>2, Zenon DEF Comes, Follows
  <1> QED BY <1>2, <1>3, <1>4, Zenon

LEMMA RunsAppended ==
  ASSUME NEW O, NEW P, NEW N, NEW top, NEW k, NEW x, Arrives(x, O, P, N, top, k),
         NEW s \in Seq(Chunk), Runs(s, O, N, top, k)
  PROVE  /\ Runs(Append(s, x), P, N, top, k)
         /\ Len(s) <= MaxReplay => Runs(AppendReplay(s, <<x>>), P, N, top, k)
  <1>1. /\ Leads(x, P, N, top, k)
        /\ \A a \in Chunk : Leads(a, O, N, top, k) => Comes(a, x, {a}, k)
    BY NextChunk, Zenon
  <1>2. x \in Chunk /\ Len(s) \in Nat
    BY DEF Arrives
  <1>3. s # <<>> => Comes(s[Len(s)], x, {s[Len(s)]}, k)
    BY <1>1, LastOf, Zenon DEF Runs
  <1>4. \A i \in 1 .. Len(s) - 1 : Comes(s[i], s[i + 1], {s[i]}, k)
    BY Zenon DEF Runs, Chain
  <1>5. Runs(Append(s, x), P, N, top, k)
    <2> DEFINE t == Append(s, x)
    <2>1. /\ Len(t) = Len(s) + 1 /\ t[Len(t)] = x
          /\ \A i \in 1 .. Len(s) : t[i] = s[i]
      BY <1>2
    <2> HIDE DEF t
    <2>2. ASSUME NEW i \in 1 .. Len(t) - 1
          PROVE  Comes(t[i], t[i + 1], {t[i]}, k)
      <3>1. CASE i = Len(s)
        <4>1. s # <<>> /\ t[i] = s[Len(s)] /\ t[i + 1] = x
          BY <1>2, <2>1, <3>1, SMT
        <4> QED BY <4>1, <1>3, Zenon
      <3>2. CASE i # Len(s)
        <4>1. i \in 1 .. Len(s) - 1 /\ t[i] = s[i] /\ t[i + 1] = s[i + 1]
          BY <1>2, <2>1, <3>2, SMT
        <4> QED BY <4>1, <1>4, Zenon
      <3> QED BY <3>1, <3>2
    <2>3. Runs(t, P, N, top, k)
      BY <2>1, <2>2, <1>1, Zenon DEF Runs, Chain
    <2> QED BY <2>3 DEF t
  <1>6. ASSUME Len(s) <= MaxReplay PROVE Runs(AppendReplay(s, <<x>>), P, N, top, k)
    <2> DEFINE t == AppendReplay(s, <<x>>)
               from == Len(s) + 1 - Len(t)
    <2>1. /\ t \in Seq(Chunk) /\ Len(t) > 0 /\ t[Len(t)] = x
          /\ \A i \in 1 .. Len(t) - 1 : t[i] = s[from + i] /\ from + i \in 1 .. Len(s)
      BY <1>2, <1>6, ReplayedOne, Zenon
    <2>0. Len(t) \in Nat
      BY <2>1
    <2> HIDE DEF t
    <2>2. ASSUME NEW i \in 1 .. Len(t) - 1
          PROVE  Comes(t[i], t[i + 1], {t[i]}, k)
      <3>1. CASE i = Len(t) - 1
        <4>1. from + i = Len(s) /\ Len(s) \in 1 .. Len(s) /\ i + 1 = Len(t)
          BY <1>2, <2>0, <2>1, <3>1, SMT
        <4>2. s # <<>> /\ t[i] = s[Len(s)] /\ t[i + 1] = x
          BY <1>2, <2>1, <4>1, SMT
        <4> QED BY <4>2, <1>3, Zenon
      <3>2. CASE i # Len(t) - 1
        <4>1. i \in 1 .. Len(t) - 1 /\ i + 1 \in 1 .. Len(t) - 1
          BY <2>0, <3>2, SMT
        <4>2. /\ t[i] = s[from + i] /\ t[i + 1] = s[from + (i + 1)]
              /\ from + i \in 1 .. Len(s) /\ from + (i + 1) \in 1 .. Len(s)
          <5> HIDE DEF from
          <5> QED BY <4>1, <2>1, Zenon
        <4>3. from + i \in 1 .. Len(s) - 1 /\ from + (i + 1) = (from + i) + 1
          BY <1>2, <2>0, <4>1, <4>2, SMT
        <4>4. Comes(s[from + i], s[(from + i) + 1], {s[from + i]}, k)
          <5> HIDE DEF from
          <5> QED BY <1>4, <4>3, Zenon
        <4> QED
          <5> HIDE DEF from
          <5> QED BY <4>2, <4>3, <4>4, Zenon
      <3> QED BY <3>1, <3>2
    <2>3. Runs(t, P, N, top, k)
      BY <2>1, <2>2, <1>1, Zenon DEF Runs, Chain
    <2> QED BY <2>3 DEF t
  <1> QED BY <1>5, <1>6

LEMMA Weaker ==
  ASSUME NEW s, NEW O, NEW N, NEW top, NEW k \in BOOLEAN
  PROVE  /\ Chain(s, k) => Chain(s, TRUE)
         /\ Runs(s, O, N, top, k) => Runs(s, O, N, top, TRUE)
         /\ Ordered(O, N, top, k) => Ordered(O, N, top, TRUE)
         /\ \A P \in SUBSET O : Runs(s, O, N, top, TRUE) => Runs(s, P, N, top, TRUE)
  BY Zenon DEF Runs, Chain, Leads, Ordered, Comes

LEMMA EmptyRuns ==
  ASSUME NEW O, NEW N, NEW top, NEW k
  PROVE  Runs(<<>>, O, N, top, k) /\ Ordered({}, N, top, k) /\ Chain(<<>>, k)
  BY SMT DEF Runs, Chain, Ordered

\* A shell ends, or another begins.
LEMMA RunsOn ==
  ASSUME NEW s \in Seq(Chunk), NEW O, O \subseteq Chunk, NEW N, NEW top \in Nat, NEW k \in BOOLEAN,
         NEW M, NEW up \in Nat, top <= up,
         \A n \in M : n \in N \/ (n \in Nat \X Nat /\ n[1] > top /\ n[2] = 1)
  PROVE  /\ Runs(s, O, N, top, k) => Runs(s, O, M, up, k)
         /\ Ordered(O, N, top, k) => Ordered(O, M, up, k)
  <1>1. ASSUME NEW a \in Chunk, a[1] <= top, NEW n \in M, n \notin N
        PROVE  Later(a, n) /\ \A S : Comes(a, n, S, k)
    <2>1. n \in Nat \X Nat /\ n[1] > top /\ n[2] = 1
      BY <1>1
    <2>2. Later(a, n)
      BY <1>1, <2>1, ChunkPlace, SMT DEF Later
    <2> QED BY <2>1, <2>2, Zenon DEF Comes, Follows
  <1>2. \A a \in Chunk : a[1] <= top => a[1] <= up
    BY ChunkPlace, SMT
  <1>3. ASSUME NEW a \in Chunk, Leads(a, O, N, top, k) PROVE Leads(a, O, M, up, k)
    <2>1. a[1] <= top /\ \A b \in O \cup N : Comes(a, b, O \cup {a}, k)
      BY <1>3, Zenon DEF Leads
    <2>2. ASSUME NEW b \in O \cup M PROVE Comes(a, b, O \cup {a}, k)
      BY <2>1, <1>1, Zenon
    <2> QED BY <2>1, <2>2, <1>2, Zenon DEF Leads
  <1>4. Runs(s, O, N, top, k) => Runs(s, O, M, up, k)
    BY <1>3, LastOf, Zenon DEF Runs
  <1>5. ASSUME Ordered(O, N, top, k) PROVE Ordered(O, M, up, k)
    <2> SUFFICES ASSUME NEW o \in O PROVE /\ o[1] <= up /\ \A n \in M : Later(o, n)
                                          /\ \A b \in O \cup M : Later(o, b) => Comes(o, b, O, k)
      BY Zenon DEF Ordered
    <2>1. /\ o \in Chunk /\ o[1] <= top /\ \A n \in N : Later(o, n)
          /\ \A b \in O \cup N : Later(o, b) => Comes(o, b, O, k)
      BY <1>5, Zenon DEF Ordered
    <2> QED BY <2>1, <1>1, <1>2, Zenon
  <1> QED BY <1>4, <1>5

\* A shell writes.
LEMMA RunsLonger ==
  ASSUME NEW s \in Seq(Chunk), NEW O, O \subseteq Chunk, NEW u \in Chunk, NEW top \in Nat, NEW k \in BOOLEAN,
         u[1] <= top
  PROVE  LET M == {<<u[1], u[2] + 1>>} IN
         /\ Runs(s, O, {u}, top, k) => Runs(s, O \cup {u}, M, top, k)
         /\ Ordered(O, {u}, top, k) => Ordered(O \cup {u}, M, top, k)
  <1> DEFINE next == <<u[1], u[2] + 1>>
  <1>1. /\ u[1] \in Nat /\ u[2] \in Nat \ {0} /\ u = <<u[1], u[2]>>
        /\ next[1] = u[1] /\ next[2] = u[2] + 1
    BY ChunkPlace
  <1>2. <<next[1], next[2] - 1>> = u
    <2>1. <<u[1], u[2] + 1 - 1>> = u
      BY <1>1
    <2> QED BY <2>1, <1>1
  <1>3. \A S, a : u \in S /\ Later(a, next) => Comes(a, next, S, k)
    BY <1>2, Zenon DEF Comes, Follows
  <1>4. ASSUME NEW a \in Chunk, Later(a, u) PROVE Later(a, next)
    BY <1>1, <1>4, ChunkPlace, SMT DEF Later
  <1>5. Later(u, next)
    BY <1>1, SMT DEF Later
  <1>6. ASSUME NEW S, NEW T, S \subseteq T, NEW a, NEW b, Comes(a, b, S, k) PROVE Comes(a, b, T, k)
    BY <1>6, Zenon DEF Comes, Follows
  <1>7. \A a, b \in Chunk : Later(a, b) => ~Later(b, a)
    BY ChunkPlace, SMT DEF Later
  <1>8. \A a \in Chunk : ~Later(a, a)
    BY ChunkPlace, SMT DEF Later
  <1> HIDE DEF next
  <1>9. ASSUME NEW a \in Chunk, Leads(a, O, {u}, top, k) PROVE Leads(a, O \cup {u}, {next}, top, k)
    <2>1. a[1] <= top /\ \A b \in O \cup {u} : Comes(a, b, O \cup {a}, k)
      BY <1>9, Zenon DEF Leads
    <2>2. ASSUME NEW b \in (O \cup {u}) \cup {next} PROVE Comes(a, b, (O \cup {u}) \cup {a}, k)
      <3>1. CASE b = next
        <4>1. Later(a, u)
          BY <2>1, Zenon DEF Comes
        <4>2. Later(a, next) /\ u \in (O \cup {u}) \cup {a}
          BY <4>1, <1>4, Zenon
        <4>3. Comes(a, next, (O \cup {u}) \cup {a}, k)
          BY <4>2, <1>3, Zenon
        <4> QED BY <3>1, <4>3, Zenon
      <3>2. CASE b # next
        <4>1. b \in O \cup {u} /\ O \cup {a} \subseteq (O \cup {u}) \cup {a}
          BY <3>2, Zenon
        <4>2. Comes(a, b, O \cup {a}, k)
          BY <4>1, <2>1, Zenon
        <4> QED BY <4>1, <4>2, <1>6, Zenon
      <3> QED BY <3>1, <3>2
    <2> QED BY <2>1, <2>2, Zenon DEF Leads
  <1>10. Runs(s, O, {u}, top, k) => Runs(s, O \cup {u}, {next}, top, k)
    BY <1>9, LastOf, Zenon DEF Runs
  <1>11. ASSUME Ordered(O, {u}, top, k) PROVE Ordered(O \cup {u}, {next}, top, k)
    <2> SUFFICES ASSUME NEW o \in O \cup {u}
                 PROVE  /\ o[1] <= top /\ \A n \in {next} : Later(o, n)
                        /\ \A b \in (O \cup {u}) \cup {next} : Later(o, b) => Comes(o, b, O \cup {u}, k)
      BY Zenon DEF Ordered
    <2>1. CASE o = u
      <3>1. ASSUME NEW b \in (O \cup {u}) \cup {next}, Later(u, b) PROVE Comes(u, b, O \cup {u}, k)
        <4>1. CASE b = next
          BY <4>1, <1>3, <1>5, Zenon
        <4>2. CASE b = u
          BY <4>2, <3>1, <1>8, Zenon
        <4>3. CASE b \in O
          <5>1. Later(b, u)
            BY <1>11, <4>3, Zenon DEF Ordered
          <5> QED BY <5>1, <4>3, <3>1, <1>7, Zenon
        <4> QED BY <4>1, <4>2, <4>3, Zenon
      <3> QED BY <2>1, <3>1, <1>5, Zenon
    <2>2. CASE o \in O
      <3>1. /\ o \in Chunk /\ o[1] <= top /\ Later(o, u)
            /\ \A b \in O \cup {u} : Later(o, b) => Comes(o, b, O, k)
        BY <1>11, <2>2, Zenon DEF Ordered
      <3>2. Later(o, next) /\ Comes(o, next, O \cup {u}, k)
        BY <3>1, <1>3, <1>4, Zenon
      <3>3. ASSUME NEW b \in O \cup {u}, Later(o, b) PROVE Comes(o, b, O \cup {u}, k)
        <4>1. Comes(o, b, O, k) /\ O \subseteq O \cup {u}
          BY <3>1, <3>3, Zenon
        <4> QED BY <4>1, <1>6, Zenon
      <3> QED BY <3>1, <3>2, <3>3, Zenon
    <2> QED BY <2>1, <2>2, Zenon
  <1> QED BY <1>10, <1>11 DEF next

\* By place from the end, what AppendReplay keeps is where it was.
LEMMA FromTheEnd ==
  ASSUME NEW r \in Seq(Chunk), NEW s \in Seq(Chunk), Len(r) <= MaxReplay,
         NEW k \in 1 .. Len(AppendReplay(r, s))
  PROVE  LET a == AppendReplay(r, s) IN
         /\ k <= Len(s) => a[Len(a) + 1 - k] = s[Len(s) + 1 - k] /\ Len(s) + 1 - k \in 1 .. Len(s)
         /\ k > Len(s) => /\ a[Len(a) + 1 - k] = r[Len(r) + 1 - (k - Len(s))]
                          /\ k - Len(s) \in 1 .. Len(r)
  <1> DEFINE a == AppendReplay(r, s)
             i == Len(a) + 1 - k
             all == r \o s
  <1>1. /\ a \in Seq(Chunk) /\ Len(a) = IF Len(r) + Len(s) > MaxReplay THEN MaxReplay ELSE Len(r) + Len(s)
        /\ \A j \in 1 .. Len(a) : a[j] = all[Len(r) + Len(s) - Len(a) + j]
    BY Replayed, Zenon
  <1>2. Len(a) \in Nat /\ Len(r) \in Nat /\ Len(s) \in Nat /\ k \in 1 .. Len(a)
    BY <1>1
  <1>3. /\ \A j \in 1 .. Len(r) : all[j] = r[j]
        /\ \A j \in 1 .. Len(s) : all[Len(r) + j] = s[j]
    BY <1>2, SMT
  <1> HIDE DEF a, all
  <1>4. i \in 1 .. Len(a) /\ Len(r) + Len(s) - Len(a) + i = Len(r) + Len(s) + 1 - k
    BY <1>2, SMT
  <1>5. a[i] = all[Len(r) + Len(s) + 1 - k]
    <2> HIDE DEF i
    <2> QED BY <1>1, <1>4, Zenon
  <1>6. ASSUME k <= Len(s) PROVE a[i] = s[Len(s) + 1 - k] /\ Len(s) + 1 - k \in 1 .. Len(s)
    <2>1. Len(s) + 1 - k \in 1 .. Len(s) /\ Len(r) + Len(s) + 1 - k = Len(r) + (Len(s) + 1 - k)
      BY <1>2, <1>6, SMT
    <2> HIDE DEF i
    <2> QED BY <2>1, <1>3, <1>5, Zenon
  <1>7. ASSUME k > Len(s)
        PROVE  a[i] = r[Len(r) + 1 - (k - Len(s))] /\ k - Len(s) \in 1 .. Len(r)
    <2>1. Len(a) <= Len(r) + Len(s)
      BY <1>1, <1>2, Constants, SMT
    <2>2. /\ k - Len(s) \in 1 .. Len(r) /\ Len(r) + 1 - (k - Len(s)) \in 1 .. Len(r)
          /\ Len(r) + Len(s) + 1 - k = Len(r) + 1 - (k - Len(s))
      BY <2>1, <1>2, <1>7, SMT
    <2> HIDE DEF i
    <2> QED BY <2>2, <1>3, <1>5, Zenon
  <1> QED BY <1>6, <1>7 DEF a

\* The replay of a buffer that grew is the replay that grew.
LEMMA MergedGrows ==
  ASSUME NEW r \in Seq(Chunk), Len(r) <= MaxReplay, NEW b \in Seq(Chunk), Len(b) <= MaxReplay,
         NEW x \in Chunk
  PROVE  AppendReplay(r, AppendReplay(b, <<x>>)) = AppendReplay(AppendReplay(r, b), <<x>>)
  <1> DEFINE c == AppendReplay(b, <<x>>)
             d == AppendReplay(r, b)
             lhs == AppendReplay(r, c)
             rhs == AppendReplay(d, <<x>>)
  <1>0. <<x>> \in Seq(Chunk) /\ Len(<<x>>) = 1 /\ <<x>>[1] = x
    OBVIOUS
  <1>1. /\ c \in Seq(Chunk) /\ Len(c) <= MaxReplay
        /\ Len(c) = IF Len(b) + 1 > MaxReplay THEN MaxReplay ELSE Len(b) + 1
    <2>1. Len(c) = IF Len(b) + Len(<<x>>) > MaxReplay THEN MaxReplay ELSE Len(b) + Len(<<x>>)
      BY <1>0, Replayed, Zenon
    <2>2. c \in Seq(Chunk) /\ Len(c) <= MaxReplay
      BY <1>0, Replayed, Zenon
    <2> HIDE DEF c
    <2> QED BY <2>1, <2>2, <1>0
  <1>2. /\ d \in Seq(Chunk) /\ Len(d) <= MaxReplay
        /\ Len(d) = IF Len(r) + Len(b) > MaxReplay THEN MaxReplay ELSE Len(r) + Len(b)
    BY Replayed, Zenon
  <1> HIDE DEF c, d
  <1>3. lhs \in Seq(Chunk) /\ Len(lhs) = IF Len(r) + Len(c) > MaxReplay THEN MaxReplay ELSE Len(r) + Len(c)
    BY <1>1, Replayed, Zenon
  <1>4. rhs \in Seq(Chunk) /\ Len(rhs) = IF Len(d) + 1 > MaxReplay THEN MaxReplay ELSE Len(d) + 1
    <2>1. Len(rhs) = IF Len(d) + Len(<<x>>) > MaxReplay THEN MaxReplay ELSE Len(d) + Len(<<x>>)
      BY <1>0, <1>2, Replayed, Zenon
    <2>2. rhs \in Seq(Chunk)
      BY <1>0, <1>2, Replayed, Zenon
    <2> HIDE DEF rhs
    <2> QED BY <2>1, <2>2, <1>0
  <1>5. Len(r) \in Nat /\ Len(b) \in Nat /\ Len(c) \in Nat /\ Len(d) \in Nat
    BY <1>1, <1>2
  <1>6. Len(lhs) = Len(rhs) /\ Len(lhs) \in Nat /\ Len(rhs) \in Nat
    <2> HIDE DEF lhs, rhs
    <2>1. Len(lhs) \in Nat /\ Len(rhs) \in Nat
      BY <1>3, <1>4
    <2> QED BY <2>1, <1>1, <1>2, <1>3, <1>4, <1>5, Constants, SMT
  <1>7. ASSUME NEW k \in 1 .. Len(lhs) PROVE lhs[Len(lhs) + 1 - k] = rhs[Len(rhs) + 1 - k]
    <2>1. /\ k <= Len(c) => lhs[Len(lhs) + 1 - k] = c[Len(c) + 1 - k]
          /\ k > Len(c) => lhs[Len(lhs) + 1 - k] = r[Len(r) + 1 - (k - Len(c))]
      BY <1>1, FromTheEnd, Zenon
    <2>2. /\ k <= 1 => rhs[Len(rhs) + 1 - k] = <<x>>[1 + 1 - k] /\ 1 + 1 - k \in 1 .. 1
          /\ k > 1 => rhs[Len(rhs) + 1 - k] = d[Len(d) + 1 - (k - 1)] /\ k - 1 \in 1 .. Len(d)
      <3>1. k \in 1 .. Len(AppendReplay(d, <<x>>))
        BY <1>6, Zenon
      <3>2. /\ k <= Len(<<x>>) => /\ rhs[Len(rhs) + 1 - k] = <<x>>[Len(<<x>>) + 1 - k]
                                  /\ Len(<<x>>) + 1 - k \in 1 .. Len(<<x>>)
            /\ k > Len(<<x>>) => /\ rhs[Len(rhs) + 1 - k] = d[Len(d) + 1 - (k - Len(<<x>>))]
                                 /\ k - Len(<<x>>) \in 1 .. Len(d)
        BY <3>1, <1>0, <1>2, FromTheEnd, Zenon
      <3> HIDE DEF rhs, lhs
      <3> QED BY <3>2, <1>0, Zenon
    <2>3. k \in Nat \ {0}
      BY <1>6
    <2> HIDE DEF lhs, rhs
    <2>4. CASE k = 1
      <3>1. rhs[Len(rhs) + 1 - k] = x
        BY <2>2, <2>4, <1>0, SMT
      <3>2. c # <<>> /\ Len(c) > 0 /\ c[Len(c)] = x
        BY ReplayedOne, Zenon DEF c
      <3>3. k <= Len(c) /\ Len(c) + 1 - k = Len(c)
        BY <3>2, <2>4, <1>5, SMT
      <3> QED BY <3>1, <3>2, <3>3, <2>1, Zenon
    <2>5. CASE k # 1
      <3>1. rhs[Len(rhs) + 1 - k] = d[Len(d) + 1 - (k - 1)] /\ k - 1 \in 1 .. Len(d)
        BY <2>2, <2>3, <2>5, SMT
      <3>2. /\ k - 1 <= Len(b) => d[Len(d) + 1 - (k - 1)] = b[Len(b) + 1 - (k - 1)]
            /\ k - 1 > Len(b) => d[Len(d) + 1 - (k - 1)] = r[Len(r) + 1 - ((k - 1) - Len(b))]
        BY <3>1, FromTheEnd, Zenon DEF d
      <3>3. CASE k - 1 <= Len(b)
        <4>1. k <= Len(c)
          BY <3>3, <1>1, <1>3, <1>5, <1>6, <2>3, Constants, SMT
        <4>2. k \in 1 .. Len(AppendReplay(b, <<x>>)) /\ ~(k <= Len(<<x>>)) /\ k > Len(<<x>>)
          BY <4>1, <2>3, <2>5, <1>0, <1>5, SMT DEF c
        <4>3. c[Len(c) + 1 - k] = b[Len(b) + 1 - (k - Len(<<x>>))]
          BY <4>2, <1>0, FromTheEnd, Zenon DEF c
        <4>4. c[Len(c) + 1 - k] = b[Len(b) + 1 - (k - 1)]
          BY <4>3, <1>0, Zenon
        <4> QED BY <4>1, <4>4, <2>1, <3>1, <3>2, <3>3, Zenon
      <3>4. CASE ~(k - 1 <= Len(b))
        <4>1. k > Len(c) /\ k - Len(c) = (k - 1) - Len(b) /\ k - 1 > Len(b)
          BY <3>4, <1>1, <1>3, <1>5, <1>6, <2>3, Constants, SMT
        <4> QED BY <4>1, <2>1, <3>1, <3>2, Zenon
      <3> QED BY <3>3, <3>4
    <2> QED BY <2>4, <2>5
  <1>8. \A i \in 1 .. Len(lhs) : lhs[i] = rhs[i]
    <2> SUFFICES ASSUME NEW i \in 1 .. Len(lhs) PROVE lhs[i] = rhs[i]
      OBVIOUS
    <2> HIDE DEF lhs, rhs
    <2> DEFINE k == Len(lhs) + 1 - i
    <2>1. k \in 1 .. Len(lhs) /\ Len(lhs) + 1 - k = i /\ Len(rhs) + 1 - k = i
      BY <1>6, SMT
    <2> HIDE DEF k
    <2> QED BY <2>1, <1>7, Zenon
  <1> HIDE DEF lhs, rhs
  <1>9. lhs = rhs
    BY <1>3, <1>4, <1>6, <1>8, SeqEqual
  <1> QED BY <1>9 DEF lhs, rhs, c, d

----------------------------------------------------------------------------
(* Output on its way *)

LEMMA IncreasingTail ==
  ASSUME NEW q \in Seq(UpFrames), q # <<>>, NEW id, Increasing(q, id)
  PROVE  /\ Increasing(Tail(q), id)
         /\ IsOut(Head(q), id) => \A g \in In(Tail(q)) : IsOut(g, id) => Later(Head(q).chunk, g.chunk)
  <1> DEFINE t == Tail(q)
  <1>1. /\ DOMAIN q = 1 .. Len(q) /\ Len(q) \in Nat \ {0} /\ Head(q) = q[1] /\ 1 \in DOMAIN q
        /\ DOMAIN t = 1 .. Len(q) - 1
        /\ \A i \in DOMAIN t : i + 1 \in DOMAIN q /\ t[i] = q[i + 1]
    BY Shifted, Zenon
  <1> HIDE DEF t
  <1>2. \A i, j \in DOMAIN t : (i < j => i + 1 < j + 1) /\ 1 < i + 1
    BY <1>1, SMT
  <1>3. Increasing(t, id)
    <2> SUFFICES ASSUME NEW i \in DOMAIN t, NEW j \in DOMAIN t, i < j, IsOut(t[i], id), IsOut(t[j], id)
                 PROVE  Later(t[i].chunk, t[j].chunk)
      BY Zenon DEF Increasing
    <2> QED BY <1>1, <1>2, Zenon DEF Increasing
  <1>4. ASSUME IsOut(Head(q), id), NEW g \in In(t), IsOut(g, id) PROVE Later(Head(q).chunk, g.chunk)
    <2>1. PICK j \in DOMAIN t : g = t[j]
      BY <1>4, Zenon DEF In
    <2> QED BY <1>4, <2>1, <1>1, <1>2, Zenon DEF Increasing
  <1> QED BY <1>3, <1>4 DEF t

LEMMA IncreasingSaid ==
  ASSUME NEW q \in Seq(UpFrames), NEW fs \in Seq(UpFrames), NEW id, Increasing(q, id), Increasing(fs, id),
         \A g \in In(q), f \in In(fs) : IsOut(g, id) /\ IsOut(f, id) => Later(g.chunk, f.chunk)
  PROVE  Increasing(q \o fs, id)
  <1> DEFINE t == q \o fs
  <1>1. /\ DOMAIN t = 1 .. Len(q) + Len(fs) /\ DOMAIN q = 1 .. Len(q) /\ DOMAIN fs = 1 .. Len(fs)
        /\ Len(q) \in Nat /\ Len(fs) \in Nat
    OBVIOUS
  <1>2. \A i \in 1 .. Len(q) + Len(fs) : t[i] = IF i <= Len(q) THEN q[i] ELSE fs[i - Len(q)]
    OBVIOUS
  <1> HIDE DEF t
  <1> SUFFICES ASSUME NEW i \in DOMAIN t, NEW j \in DOMAIN t, i < j, IsOut(t[i], id), IsOut(t[j], id)
               PROVE  Later(t[i].chunk, t[j].chunk)
    BY Zenon DEF Increasing, t
  <1>3. CASE j <= Len(q)
    <2>1. i \in DOMAIN q /\ j \in DOMAIN q /\ t[i] = q[i] /\ t[j] = q[j]
      BY <1>1, <1>2, <1>3, SMT
    <2> QED BY <2>1, Zenon DEF Increasing
  <1>4. CASE i <= Len(q) /\ ~(j <= Len(q))
    <2>1. i \in DOMAIN q /\ j - Len(q) \in DOMAIN fs /\ t[i] = q[i] /\ t[j] = fs[j - Len(q)]
      BY <1>1, <1>2, <1>4, SMT
    <2>2. t[i] \in In(q) /\ t[j] \in In(fs)
      BY <2>1, Zenon DEF In
    <2> QED BY <2>2, Zenon
  <1>5. CASE ~(i <= Len(q))
    <2>1. /\ i - Len(q) \in DOMAIN fs /\ j - Len(q) \in DOMAIN fs /\ i - Len(q) < j - Len(q)
          /\ t[i] = fs[i - Len(q)] /\ t[j] = fs[j - Len(q)]
      BY <1>1, <1>2, <1>5, SMT
    <2> QED BY <2>1, Zenon DEF Increasing
  <1> QED BY <1>3, <1>4, <1>5, Zenon

LEMMA IncreasingFew ==
  /\ \A id : Increasing(<<>>, id)
  /\ \A f, id : Increasing(<<f>>, id)
  /\ \A q, id : (\A f \in In(q) : ~IsOut(f, id)) => Increasing(q, id)
  <1>1. \A q, id : (\A f \in In(q) : ~IsOut(f, id)) => Increasing(q, id)
    BY Zenon DEF Increasing, In
  <1>2. \A f : DOMAIN <<f>> = {1}
    OBVIOUS
  <1>3. ~(1 < 1)
    OBVIOUS
  <1>4. \A f, id : Increasing(<<f>>, id)
    BY <1>2, <1>3, SMT DEF Increasing
  <1>5. \A id : Increasing(<<>>, id)
    BY <1>1, InEmpty, Zenon
  <1> QED BY <1>1, <1>4, <1>5

LEMMA OpensStayAppended ==
  ASSUME NEW q \in Seq(Down), NEW f \in Down, NEW id, f.kind # "open" \/ f.id = id
  PROVE  /\ OpensOnly(q, id) => OpensOnly(Append(q, f), id)
         /\ OpensAfter(q, id) => OpensAfter(Append(q, f), id)
  <1> DEFINE a == Append(q, f)
  <1>1. /\ a[Len(q) + 1] = f
        /\ \A i \in DOMAIN q : i \in DOMAIN a /\ a[i] = q[i] /\ i < Len(q) + 1
        /\ \A i \in DOMAIN a : i \in DOMAIN q \/ i = Len(q) + 1
        /\ Len(q) \in Nat /\ DOMAIN q = 1 .. Len(q)
    BY Appended
  <1> HIDE DEF a
  <1>2. \A j \in DOMAIN a : j \notin DOMAIN q /\ Opens(a, j) => a[j].id = id
    BY <1>1, Zenon DEF Opens
  <1>3. \A j \in DOMAIN q : Opens(a, j) = Opens(q, j) /\ a[j] = q[j]
    BY <1>1, Zenon DEF Opens
  <1>4. OpensOnly(q, id) => OpensOnly(a, id)
    BY <1>2, <1>3, Zenon DEF OpensOnly
  <1>5. \A i, j \in DOMAIN a : i < j /\ j \in DOMAIN q => i \in DOMAIN q
    BY <1>1, SMT
  <1>6. OpensAfter(q, id) => OpensAfter(a, id)
    <2> SUFFICES ASSUME OpensAfter(q, id), NEW i \in DOMAIN a, NEW j \in DOMAIN a,
                        i < j, Opens(a, i), a[i].id = id, Opens(a, j)
                 PROVE  a[j].id = id
      BY Zenon DEF OpensAfter
    <2>1. CASE j \in DOMAIN q
      BY <2>1, <1>3, <1>5, Zenon DEF OpensAfter
    <2>2. CASE j \notin DOMAIN q
      BY <2>2, <1>2, Zenon
    <2> QED BY <2>1, <2>2
  <1> QED BY <1>4, <1>6 DEF a

LEMMA OpensStayTaken ==
  ASSUME NEW q \in Seq(Down), q # <<>>, NEW id
  PROVE  /\ OpensOnly(q, id) => OpensOnly(Tail(q), id) /\ (Head(q).kind = "open" => Head(q).id = id)
         /\ OpensAfter(q, id) => /\ OpensAfter(Tail(q), id)
                                 /\ Head(q).kind = "open" /\ Head(q).id = id => OpensOnly(Tail(q), id)
  <1> DEFINE t == Tail(q)
  <1>1. /\ DOMAIN q = 1 .. Len(q) /\ Len(q) \in Nat \ {0} /\ Head(q) = q[1] /\ 1 \in DOMAIN q
        /\ DOMAIN t = 1 .. Len(q) - 1
        /\ \A i \in DOMAIN t : i + 1 \in DOMAIN q /\ t[i] = q[i + 1]
    BY Shifted, Zenon
  <1> HIDE DEF t
  <1>2. \A i, j \in DOMAIN t : (i < j => i + 1 < j + 1) /\ 1 < i + 1
    BY <1>1, SMT
  <1>3. \A i \in DOMAIN t : Opens(t, i) = Opens(q, i + 1)
    BY <1>1, Zenon DEF Opens
  <1>4. OpensOnly(q, id) => OpensOnly(t, id) /\ (Head(q).kind = "open" => Head(q).id = id)
    <2>1. OpensOnly(q, id) => OpensOnly(t, id)
      BY <1>1, <1>3, Zenon DEF OpensOnly
    <2>2. OpensOnly(q, id) => (Head(q).kind = "open" => Head(q).id = id)
      BY <1>1, Zenon DEF OpensOnly, Opens
    <2> QED BY <2>1, <2>2
  <1>5. ASSUME OpensAfter(q, id) PROVE OpensAfter(t, id)
    <2> SUFFICES ASSUME NEW i \in DOMAIN t, NEW j \in DOMAIN t,
                        i < j, Opens(t, i), t[i].id = id, Opens(t, j)
                 PROVE  t[j].id = id
      BY Zenon DEF OpensAfter
    <2>1. /\ i + 1 \in DOMAIN q /\ j + 1 \in DOMAIN q /\ i + 1 < j + 1
          /\ Opens(q, i + 1) /\ q[i + 1].id = id /\ Opens(q, j + 1) /\ t[j] = q[j + 1]
      BY <1>1, <1>2, <1>3, Zenon
    <2> QED BY <2>1, <1>5, Zenon DEF OpensAfter
  <1>6. ASSUME OpensAfter(q, id), Head(q).kind = "open", Head(q).id = id PROVE OpensOnly(t, id)
    <2> SUFFICES ASSUME NEW j \in DOMAIN t, Opens(t, j) PROVE t[j].id = id
      BY Zenon DEF OpensOnly
    <2>1. j + 1 \in DOMAIN q /\ 1 < j + 1 /\ Opens(q, j + 1) /\ t[j] = q[j + 1]
      BY <1>1, <1>2, <1>3, Zenon
    <2>2. 1 \in DOMAIN q /\ Opens(q, 1) /\ q[1].id = id
      BY <1>1, <1>6, Zenon DEF Opens
    <2> QED BY <2>1, <2>2, <1>6, Zenon DEF OpensAfter
  <1> QED BY <1>4, <1>5, <1>6 DEF t

----------------------------------------------------------------------------
(* What a session's output does to what is kept and shown *)

LEMMA StreamTypes ==
  ASSUME Types, IdsInv
  PROVE  /\ Outs \subseteq Chunk /\ Upcoming \subseteq Nat \X Nat /\ shells \in Nat /\ slept \in BOOLEAN
         /\ \A s \in KeptReplays : s \in Seq(Chunk) /\ Len(s) <= MaxReplay
         /\ Shown \subseteq Seq(Chunk)
         /\ row.replay \in Seq(Chunk) /\ Len(row.replay) <= MaxReplay
  <1>1. Outs \subseteq Chunk
    <2> SUFFICES ASSUME NEW c \in Conns, NEW f \in OutputOf(c) PROVE f.chunk \in Chunk
      BY Zenon DEF Outs
    <2>1. toGateway[c] \in Seq(UpFrames) /\ f \in In(toGateway[c]) /\ f.kind = "output"
      BY DEF Types, FrameTypes, OutputOf, IsOut
    <2>2. f \in UpFrames
      BY <2>1, InSeq, Zenon
    <2> QED BY <2>1, <2>2, UpFrameFields, Zenon
  <1>2. Upcoming \subseteq Nat \X Nat /\ shells \in Nat /\ slept \in BOOLEAN
    <2>1. shell.gen \in Nat /\ shell.out + 1 \in Nat /\ shells \in Nat /\ slept \in BOOLEAN
      BY Constants, SMT DEF Types, ShellTypes, ClockTypes
    <2> QED BY <2>1, SMT DEF Upcoming
  <1>3. StoreTypes /\ StoredType(row) /\ row.replay \in Seq(Chunk) /\ Len(row.replay) <= MaxReplay
    BY StoredRecord, Zenon DEF Types, StoreTypes
  <1>4. Flushed(row, pending).replay \in Seq(Chunk) /\ Len(Flushed(row, pending).replay) <= MaxReplay
    BY <1>3, FlushedType, StoredRecord, Zenon
  <1>5. \A v \in Live : Merged(row, v) \in Seq(Chunk) /\ Len(Merged(row, v)) <= MaxReplay
    BY <1>3, MergedType, LiveSubset, Zenon
  <1>6. \A s \in KeptReplays : s \in Seq(Chunk) /\ Len(s) <= MaxReplay
    <2>1. CASE Live = {}
      BY <2>1, <1>4, Zenon DEF KeptReplays
    <2>2. CASE Live # {}
      BY <2>2, <1>5, Zenon DEF KeptReplays
    <2> QED BY <2>1, <2>2
  <1>7. Shown \subseteq Seq(Chunk)
    BY SMT DEF Shown, Types, WindowTypes
  <1> QED BY <1>1, <1>2, <1>3, <1>6, <1>7

LEMMA ChainWeaker ==
  ASSUME Types, Types', slept => slept', NEW s
  PROVE  Chain(s, slept) => Chain(s, slept')
  <1>1. CASE slept' = TRUE
    <2>1. slept \in BOOLEAN
      BY DEF Types, ClockTypes
    <2> QED BY <1>1, <2>1, Weaker, Zenon
  <1>2. CASE slept' = FALSE
    <2>1. slept = FALSE
      BY <1>2 DEF Types, ClockTypes
    <2> QED BY <1>2, <2>1, Zenon
  <1>3. slept' \in BOOLEAN
    BY DEF Types, ClockTypes
  <1> QED BY <1>1, <1>2, <1>3, Zenon

\* No session, no stream.
LEMMA NoStream ==
  ASSUME Types, Types', SeenInv, row'.id = Nobody, slept => slept', \A v \in Viewers : seen'[v] = seen[v]
  PROVE  StreamInv'
  <1>1. SeenInv'
    BY ChainWeaker, Zenon DEF SeenInv
  <1> QED BY <1>1, Zenon DEF StreamInv, QueueInv, HeldInv, BegunInv

LEMMA NothingYet ==
  ASSUME ~Begun'
  PROVE  HeldInv'
  <1> DEFINE kept == {row.replay} \cup KeptReplays \cup Shown
  <1>1. Outs' = {} /\ \A s \in kept' : s = <<>>
    <2>1. Begun' = (Outs' # {} \/ \E s \in kept' : s # <<>>)
      BY DEF Begun
    <2> HIDE DEF kept
    <2> QED BY <2>1, Zenon
  <1>2. row'.replay \in kept' /\ \A s \in KeptReplays' \cup Shown' : s \in kept'
    OBVIOUS
  <1> HIDE DEF kept
  <1> QED BY <1>1, <1>2, EmptyRuns, Zenon DEF HeldInv

\* What is kept and shown is what it was, while the output before it goes on.
LEMMA HeldStays ==
  ASSUME Types, Types', IdsInv, HeldInv, row.id # Nobody, row'.id = row.id, slept => slept',
         row'.replay \in {row.replay} \cup KeptReplays,
         \A s \in KeptReplays' \cup Shown' : s \in KeptReplays \cup Shown \/ (slept' /\ s = row.replay),
         \A s \in Seq(Chunk), k \in BOOLEAN :
           Runs(s, Outs, Upcoming, shells, k) => Runs(s, Outs', Upcoming', shells', k),
         \A k \in BOOLEAN : Ordered(Outs, Upcoming, shells, k) => Ordered(Outs', Upcoming', shells', k)
  PROVE  HeldInv'
  <1>1. /\ slept \in BOOLEAN /\ KeptReplays \cup Shown \subseteq Seq(Chunk) /\ row.replay \in Seq(Chunk)
        /\ TRUE \in BOOLEAN
    BY StreamTypes, Zenon
  <1>2. /\ Ordered(Outs, Upcoming, shells, slept)
        /\ Runs(row.replay, Outs, Upcoming, shells, TRUE)
        /\ \A s \in KeptReplays \cup Shown : Runs(s, Outs, Upcoming, shells, slept)
    BY Zenon DEF HeldInv
  <1>3. /\ Ordered(Outs', Upcoming', shells', slept)
        /\ Runs(row.replay, Outs', Upcoming', shells', TRUE)
        /\ \A s \in KeptReplays \cup Shown : Runs(s, Outs', Upcoming', shells', slept)
    BY <1>1, <1>2, Zenon
  <1>4. Ordered(Outs', Upcoming', shells', TRUE)
    BY <1>1, <1>3, Weaker, Zenon
  <1>5. \A s \in KeptReplays \cup Shown : Runs(s, Outs', Upcoming', shells', TRUE)
    BY <1>1, <1>3, Weaker, Zenon
  <1>6. Runs(row'.replay, Outs', Upcoming', shells', TRUE)
    BY <1>3, <1>5, Zenon
  <1>7. slept' = slept \/ slept' = TRUE
    BY DEF Types, ClockTypes
  <1>8. Ordered(Outs', Upcoming', shells', slept')
    BY <1>3, <1>4, <1>7, Zenon
  <1>9. ASSUME NEW s \in KeptReplays' \cup Shown' PROVE Runs(s, Outs', Upcoming', shells', slept')
    <2>1. CASE slept' = TRUE
      <3>1. Runs(s, Outs', Upcoming', shells', TRUE)
        BY <1>3, <1>5, <1>9, Zenon
      <3> QED BY <2>1, <3>1, Zenon
    <2>2. CASE slept' # TRUE
      <3>1. slept' = slept /\ s \in KeptReplays \cup Shown
        BY <2>2, <1>7, <1>9, Zenon
      <3> QED BY <3>1, <1>3, Zenon
    <2> QED BY <2>1, <2>2
  <1> QED BY <1>6, <1>8, <1>9, Zenon DEF HeldInv

LEMMA SeenStays ==
  ASSUME Types, Types', IdsInv, HeldInv, SeenInv, row.id # Nobody, slept => slept',
         \A v \in Viewers : seen'[v] \in {seen[v]} \cup KeptReplays
  PROVE  SeenInv'
  <1>1. \A s \in KeptReplays : Chain(s, slept)
    BY Zenon DEF HeldInv, Runs
  <1>2. \A v \in Viewers : Chain(seen'[v], slept)
    BY <1>1, Zenon DEF SeenInv
  <1> QED BY <1>2, ChainWeaker, Zenon DEF SeenInv

LEMMA BegunStays ==
  ASSUME Types, BegunInv, row.id # Nobody, row'.id = row.id, Begun' => Begun,
         \A c \in Executor' : c \in Executor, shell'.id \in {Nobody, shell.id},
         \A c \in Executor' : \/ toCli'[c] = toCli[c] \/ toCli'[c] = <<>>
                              \/ toCli[c] # <<>> /\ toCli'[c] = Tail(toCli[c])
                              \/ \E f \in Down : /\ f.kind # "open" \/ f.id = row.id
                                                 /\ toCli'[c] = Append(toCli[c], f)
  PROVE  BegunInv'
  <1>1. /\ Begun => shell.id \in {Nobody, row.id}
        /\ \A c \in Executor : OpensAfter(toCli[c], row.id)
        /\ (shell.id = row.id \/ Begun) => \A c \in Executor : OpensOnly(toCli[c], row.id)
    BY Zenon DEF BegunInv
  <1>2. OpensOnly(<<>>, row.id) /\ OpensAfter(<<>>, row.id)
    BY SMT DEF OpensOnly, OpensAfter
  <1>3. ASSUME NEW c \in Executor'
        PROVE  /\ OpensOnly(toCli[c], row.id) => OpensOnly(toCli'[c], row.id)
               /\ OpensAfter(toCli[c], row.id) => OpensAfter(toCli'[c], row.id)
    <2>1. toCli[c] \in Seq(Down)
      BY <1>3 DEF Types, FrameTypes, Executor
    <2>2. CASE toCli'[c] = toCli[c] \/ toCli'[c] = <<>>
      BY <2>2, <1>2, Zenon
    <2>3. ASSUME NEW f \in Down, f.kind # "open" \/ f.id = row.id, toCli'[c] = Append(toCli[c], f)
          PROVE  /\ OpensOnly(toCli[c], row.id) => OpensOnly(toCli'[c], row.id)
                 /\ OpensAfter(toCli[c], row.id) => OpensAfter(toCli'[c], row.id)
      BY <2>1, <2>3, OpensStayAppended, Zenon
    <2>4. CASE toCli[c] # <<>> /\ toCli'[c] = Tail(toCli[c])
      BY <2>1, <2>4, OpensStayTaken, Zenon
    <2> QED BY <1>3, <2>2, <2>3, <2>4, Zenon
  <1>4. Begun' => shell'.id \in {Nobody, row'.id}
    BY <1>1, Zenon
  <1>5. \A c \in Executor' : OpensAfter(toCli'[c], row'.id)
    BY <1>1, <1>3, Zenon
  <1>6. (shell'.id = row'.id \/ Begun') => \A c \in Executor' : OpensOnly(toCli'[c], row'.id)
    <2>1. shell'.id = row'.id => shell.id = row.id
      BY Zenon
    <2> QED BY <2>1, <1>1, <1>3, Zenon
  <1> QED BY <1>4, <1>5, <1>6, Zenon DEF BegunInv

\* Queues that did not change, that got no output of the session, or that lost
\* a frame that was none.
LEMMA QueueStays ==
  ASSUME Types, QueueInv, row.id # Nobody, row'.id = row.id,
         \A c \in Executor : c \in Executor',
         \A c \in Conns :
           \/ toGateway'[c] = toGateway[c]
           \/ toGateway'[c] = <<>> /\ OutputOf(c) = {}
           \/ \E fs \in Seq(UpFrames) : /\ toGateway'[c] = toGateway[c] \o fs
                                        /\ \A f \in In(fs) : ~IsOut(f, row.id)
           \/ /\ toGateway[c] # <<>> /\ ~IsOut(Head(toGateway[c]), row.id)
              /\ toGateway'[c] = Tail(toGateway[c])
  PROVE  QueueInv' /\ Outs' = Outs
  <1>1. ASSUME NEW c \in Conns
        PROVE  OutputOf(c)' = OutputOf(c) /\ Increasing(toGateway'[c], row'.id)
    <2>1. toGateway[c] \in Seq(UpFrames) /\ Increasing(toGateway[c], row.id)
      BY DEF Types, FrameTypes, QueueInv
    <2>2. OutputOf(c)' = {f \in In(toGateway'[c]) : IsOut(f, row.id)}
      BY Zenon DEF OutputOf
    <2>3. CASE toGateway'[c] = toGateway[c]
      BY <2>1, <2>2, <2>3, Zenon DEF OutputOf
    <2>4. ASSUME NEW fs \in Seq(UpFrames), toGateway'[c] = toGateway[c] \o fs,
                 \A f \in In(fs) : ~IsOut(f, row.id)
          PROVE  OutputOf(c)' = OutputOf(c) /\ Increasing(toGateway'[c], row'.id)
      <3>1. In(toGateway'[c]) = In(toGateway[c]) \cup In(fs)
        BY <2>1, <2>4, InConcat
      <3>2. OutputOf(c)' = OutputOf(c)
        BY <2>2, <2>4, <3>1, Zenon DEF OutputOf
      <3>3. Increasing(fs, row.id)
        BY <2>4, IncreasingFew, Zenon
      <3>4. Increasing(toGateway[c] \o fs, row.id)
        BY <2>1, <2>4, <3>3, IncreasingSaid, Zenon
      <3> QED BY <2>4, <3>2, <3>4, Zenon
    <2>5. CASE /\ toGateway[c] # <<>> /\ ~IsOut(Head(toGateway[c]), row.id)
               /\ toGateway'[c] = Tail(toGateway[c])
      <3>1. In(toGateway[c]) = In(toGateway'[c]) \cup {Head(toGateway[c])}
        BY <2>1, <2>5, InTail, Zenon
      <3>2. OutputOf(c)' = OutputOf(c)
        BY <2>2, <2>5, <3>1, Zenon DEF OutputOf
      <3>3. Increasing(toGateway'[c], row.id)
        BY <2>1, <2>5, IncreasingTail, Zenon
      <3> QED BY <3>2, <3>3, Zenon
    <2>6. CASE toGateway'[c] = <<>> /\ OutputOf(c) = {}
      BY <2>2, <2>6, InEmpty, IncreasingFew, Zenon
    <2> QED BY <2>3, <2>4, <2>5, <2>6, Zenon
  <1>2. Outs' = Outs
    BY <1>1, Zenon DEF Outs
  <1>3. QueueInv'
    BY <1>1, Zenon DEF QueueInv
  <1> QED BY <1>2, <1>3

\* The next output of the session is taken from its queue.
LEMMA QueueTaken ==
  ASSUME Types, ConnInv, IdsInv, QueueInv, HeldInv, row.id # Nobody, row'.id = row.id,
         Executor' = Executor, NEW c \in Conns, Receive(c), IsOut(Head(toGateway[c]), row.id)
  PROVE  /\ QueueInv'
         /\ Arrives(Head(toGateway[c]).chunk, Outs, Outs', Upcoming, shells, slept)
  <1> DEFINE q == toGateway[c]
             x == Head(q).chunk
  <1>1. /\ q \in Seq(UpFrames) /\ q # <<>> /\ toGateway' = [toGateway EXCEPT ![c] = Tail(@)]
        /\ toGateway \in [Conns -> Seq(UpFrames)]
    BY FirstFrame DEF Types, FrameTypes
  <1>2. toGateway'[c] = Tail(q) /\ \A d \in Conns : d # c => toGateway'[d] = toGateway[d]
    BY <1>1
  <1>3. /\ In(q) = In(Tail(q)) \cup {Head(q)}
        /\ Increasing(q, row.id)
    BY <1>1, InTail, Zenon DEF QueueInv
  <1>4. /\ Increasing(Tail(q), row.id)
        /\ \A g \in In(Tail(q)) : IsOut(g, row.id) => Later(x, g.chunk)
    BY <1>1, <1>3, IncreasingTail, Zenon
  <1>5. Head(q) \in OutputOf(c) /\ c \in Executor
    BY <1>3, Zenon DEF OutputOf, QueueInv
  <1>6. \A d \in Conns : d # c => OutputOf(d) = {} /\ OutputOf(d)' = {}
    <2> SUFFICES ASSUME NEW d \in Conns, d # c PROVE OutputOf(d) = {} /\ OutputOf(d)' = {}
      OBVIOUS
    <2>1. OutputOf(d) = {}
      BY <1>5, Zenon DEF QueueInv, ConnInv
    <2>2. OutputOf(d)' = OutputOf(d)
      BY <1>2, Zenon DEF OutputOf
    <2> QED BY <2>1, <2>2
  <1>7. OutputOf(c)' = {g \in In(Tail(q)) : IsOut(g, row.id)}
    BY <1>2, Zenon DEF OutputOf
  <1>8. OutputOf(c) = OutputOf(c)' \cup {Head(q)}
    BY <1>3, <1>5, <1>7, Zenon DEF OutputOf
  <1>9. Outs = {f.chunk : f \in OutputOf(c)} /\ Outs' = {f.chunk : f \in OutputOf(c)'}
    <2>1. UNION {OutputOf(d) : d \in Conns} = OutputOf(c)
      BY <1>6, Zenon
    <2>2. UNION {OutputOf(d)' : d \in Conns} = OutputOf(c)'
      BY <1>6, Zenon
    <2> QED BY <2>1, <2>2, Zenon DEF Outs
  <1>10. /\ x \in Outs /\ Outs' \subseteq Outs /\ Outs \subseteq Outs' \cup {x}
         /\ \A b \in Outs' : Later(x, b)
    BY <1>4, <1>5, <1>7, <1>8, <1>9, Zenon
  <1>11. Arrives(x, Outs, Outs', Upcoming, shells, slept)
    BY <1>10, StreamTypes, Zenon DEF Arrives, HeldInv
  <1>12. QueueInv'
    <2>1. \A d \in Conns : Increasing(toGateway'[d], row.id)
      BY <1>2, <1>4, Zenon DEF QueueInv
    <2>2. \A d \in Conns : OutputOf(d)' # {} => d \in Executor'
      BY <1>5, <1>6, Zenon
    <2> QED BY <2>1, <2>2, Zenon DEF QueueInv
  <1> QED BY <1>11, <1>12

----------------------------------------------------------------------------
(* Steps that take no output of the session *)

\* The session stays, and what is kept and shown of it was kept or shown.
ReplaysStay ==
  /\ row.id # Nobody /\ row'.id = row.id /\ (slept => slept')
  /\ row'.replay \in {row.replay} \cup KeptReplays
  /\ \A s \in KeptReplays' \cup Shown' : s \in KeptReplays \cup Shown \/ (slept' /\ s = row.replay)
  /\ \A v \in Viewers : seen'[v] \in {seen[v]} \cup KeptReplays

\* No output of it comes or goes, and no other session takes its shell.
OutputStays ==
  /\ shells' = shells
  /\ shell' \in {shell, NoShell} \/ (shell'.id = shell.id /\ shell.id # row.id)
  /\ \A c \in Conns : c \in Executor' <=> c \in Executor
  /\ \A c \in Conns :
       \/ toGateway'[c] = toGateway[c]
       \/ toGateway'[c] = <<>> /\ OutputOf(c) = {}
       \/ \E fs \in Seq(UpFrames) : /\ toGateway'[c] = toGateway[c] \o fs
                                    /\ \A f \in In(fs) : ~IsOut(f, row.id)
       \/ /\ toGateway[c] # <<>> /\ ~IsOut(Head(toGateway[c]), row.id)
          /\ toGateway'[c] = Tail(toGateway[c])
  /\ \A c \in Executor :
       \/ toCli'[c] = toCli[c] \/ toCli'[c] = <<>>
       \/ toCli[c] # <<>> /\ toCli'[c] = Tail(toCli[c])
       \/ \E f \in Down : (f.kind # "open" \/ f.id = row.id) /\ toCli'[c] = Append(toCli[c], f)

LEMMA BegunBefore ==
  ASSUME ReplaysStay, Outs' \subseteq Outs
  PROVE  Begun' => Begun
  <1> DEFINE kept == {row.replay} \cup KeptReplays \cup Shown
  <1>1. \A s \in kept' : s \in kept
    <2>1. \A s \in {row'.replay} \cup KeptReplays' \cup Shown' : s \in {row.replay} \cup KeptReplays \cup Shown
      <3>1. \A s \in KeptReplays' \cup Shown' : s \in KeptReplays \cup Shown \/ s = row.replay
        BY DEF ReplaysStay
      <3>2. row'.replay \in {row.replay} \cup KeptReplays
        BY DEF ReplaysStay
      <3> QED BY <3>1, <3>2, Zenon
    <2> QED BY <2>1
  <1>2. Begun = (Outs # {} \/ \E s \in kept : s # <<>>)
    BY DEF Begun
  <1>3. Begun' = (Outs' # {} \/ \E s \in kept' : s # <<>>)
    BY DEF Begun
  <1> HIDE DEF kept
  <1> QED BY <1>1, <1>2, <1>3, Zenon

LEMMA StreamStays ==
  ASSUME Types, Types', IdsInv, StreamInv, ReplaysStay, OutputStays
  PROVE  StreamInv'
  <1>1. /\ Executor \subseteq Conns
        /\ \A c \in Executor' : c \in Conns
    BY DEF Executor
  <1>2. QueueInv' /\ Outs' = Outs
    BY <1>1, QueueStays, Zenon DEF StreamInv, ReplaysStay, OutputStays
  <1>3. \A n \in Upcoming' : n \in Upcoming
    <2>1. CASE shell' = shell
      BY <2>1, Zenon DEF Upcoming, ReplaysStay
    <2>2. CASE shell' = NoShell
      BY <2>2, SMT DEF Upcoming, ReplaysStay, NoShell
    <2>3. CASE shell'.id = shell.id /\ shell.id # row.id
      BY <2>3, Zenon DEF Upcoming, ReplaysStay
    <2> QED BY <2>1, <2>2, <2>3, Zenon DEF OutputStays
  <1>4. /\ \A s \in Seq(Chunk), k \in BOOLEAN :
             Runs(s, Outs, Upcoming, shells, k) => Runs(s, Outs', Upcoming', shells', k)
        /\ \A k \in BOOLEAN : Ordered(Outs, Upcoming, shells, k) => Ordered(Outs', Upcoming', shells', k)
    <2>1. shells <= shells /\ shells' = shells /\ <<>> \in Seq(Chunk)
      BY StreamTypes, SMT DEF OutputStays
    <2>2. Outs \subseteq Chunk /\ shells \in Nat
      BY StreamTypes, Zenon
    <2>3. ASSUME NEW s \in Seq(Chunk), NEW k \in BOOLEAN
          PROVE  /\ Runs(s, Outs, Upcoming, shells, k) => Runs(s, Outs, Upcoming', shells, k)
                 /\ Ordered(Outs, Upcoming, shells, k) => Ordered(Outs, Upcoming', shells, k)
      BY <1>3, <2>1, <2>2, RunsOn, Zenon
    <2> QED BY <1>2, <2>1, <2>3, Zenon
  <1>5. HeldInv'
    BY <1>4, HeldStays, Zenon DEF ReplaysStay, StreamInv
  <1>6. SeenInv'
    BY SeenStays, Zenon DEF ReplaysStay, StreamInv
  <1>7. shell'.id \in {Nobody, shell.id}
    BY SMT DEF OutputStays, NoShell
  <1>8. BegunInv'
    BY <1>1, <1>2, <1>7, BegunBefore, BegunStays, Zenon DEF ReplaysStay, OutputStays, StreamInv
  <1> QED BY <1>2, <1>5, <1>6, <1>8, Zenon DEF StreamInv

LEMMA ReplaysSame ==
  ASSUME row.id # Nobody, UNCHANGED <<view, seen, buffer, row, pending, slept>>
  PROVE  ReplaysStay /\ KeptReplays' = KeptReplays /\ Shown' = Shown
  <1>1. Live' = Live /\ Shown' = Shown
    BY Zenon DEF Live, Shown
  <1>2. KeptReplays' = KeptReplays
    BY <1>1, Zenon DEF KeptReplays, Merged, Flushed
  <1> QED BY <1>1, <1>2, Zenon DEF ReplaysStay

LEMMA ReplaysLeft ==
  ASSUME Types, row.id # Nobody, NEW v \in Viewers, Leave(v) \/ NoExecutor(v)
  PROVE  ReplaysStay
  <1>1. /\ view[v] = "live" /\ view' = [view EXCEPT ![v] = "left"]
        /\ UNCHANGED <<seen, buffer, row, pending, slept>>
    BY DEF Leave, NoExecutor, relay
  <1>2. \A w \in Viewers : view'[w] = IF w = v THEN "left" ELSE view[w]
    BY <1>1 DEF Types, WindowTypes
  <1>3. Live' = Live
    BY <1>1, <1>2, SMT DEF Live
  <1>4. KeptReplays' = KeptReplays
    BY <1>1, <1>3, Zenon DEF KeptReplays, Merged, Flushed
  <1>5. Shown' \subseteq Shown
    BY <1>1, <1>2, SMT DEF Shown
  <1> QED BY <1>1, <1>4, <1>5, Zenon DEF ReplaysStay

LEMMA ReplaysClosed ==
  ASSUME Types, IdsInv, row.id # Nobody, NEW v \in Viewers, CloseSeen(v)
  PROVE  ReplaysStay
  <1>1. /\ v \in Live /\ {v} \subseteq Live /\ Settle({v}) /\ row' = Persisted(v)
        /\ pending' = Forgotten(pending, idOf[v]) /\ UNCHANGED <<seen, slept>>
    BY SettlingSteps, SMT DEF CloseSeen, Live
  <1>2. Live = {v} /\ pending = NoSession /\ idOf[v] \in Viewers
    BY <1>1, Zenon DEF IdsInv
  <1>3. /\ Live' = Live \ {v}
        /\ \A w \in Viewers : view'[w] = "live" => view[w] = "live"
    BY <1>1, SettledWindows, Zenon DEF Types
  <1>4. Live' = {}
    BY <1>2, <1>3, Zenon
  <1>5. row'.id = row.id /\ row'.replay = Merged(row, v)
    BY <1>1, PersistedType DEF Types
  <1>6. pending' = NoSession
    BY <1>1, <1>2, ForgottenType, NoSessionType, Zenon
  <1>7. KeptReplays = {Merged(row, v)}
    <2>1. Live # {}
      BY <1>2
    <2> QED BY <1>2, <2>1, Zenon DEF KeptReplays
  <1>8. KeptReplays' = {row'.replay}
    <2>1. Flushed(row', pending') = row'
      BY <1>6, NoSessionType, Zenon DEF Flushed
    <2> QED BY <1>4, <2>1, Zenon DEF KeptReplays
  <1>9. Shown' \subseteq Shown
    BY <1>1, <1>3, Zenon DEF Shown
  <1> QED BY <1>1, <1>5, <1>7, <1>8, <1>9, Zenon DEF ReplaysStay

LEMMA ReplaysFlushed ==
  ASSUME Types, IdsInv, row.id # Nobody, row' = Flushed(row, pending), pending' = NoSession,
         UNCHANGED <<view, seen, buffer, slept>>
  PROVE  ReplaysStay
  <1>1. Live' = Live /\ Shown' = Shown
    BY Zenon DEF Live, Shown
  <1>2. row'.id = row.id /\ Flushed(row', pending') = row'
    BY FlushedType, NoSessionType, Zenon DEF Flushed, Types
  <1>3. CASE Live = {}
    <2>1. KeptReplays = {row'.replay} /\ KeptReplays' = {row'.replay}
      BY <1>1, <1>2, <1>3, Zenon DEF KeptReplays
    <2> QED BY <1>1, <1>2, <2>1, Zenon DEF ReplaysStay
  <1>4. CASE Live # {}
    <2>1. pending = NoSession
      BY <1>4, Zenon DEF IdsInv
    <2>2. row' = row
      BY <2>1, NoSessionType, Zenon DEF Flushed
    <2>3. KeptReplays' = KeptReplays
      BY <1>1, <1>4, <2>2, Zenon DEF KeptReplays, Merged
    <2> QED BY <1>1, <1>2, <2>2, <2>3, Zenon DEF ReplaysStay
  <1> QED BY <1>3, <1>4

LEMMA ReplaysWiped ==
  ASSUME Types, Types', IdsInv, row.id # Nobody, Hibernate \/ Evict
  PROVE  ReplaysStay
  <1>1. /\ \A v \in Viewers : buffer'[v] = NoBuffer
        /\ pending' = NoSession /\ UNCHANGED <<view, seen, row>>
        /\ (slept' = (slept \/ Unstored) /\ alarm # "soon") \/ slept' = TRUE
    BY DEF Hibernate, Evict, Wiped, windows
  <1>2. Live' = Live /\ Shown' = Shown
    BY <1>1, Zenon DEF Live, Shown
  <1>3. row.replay \in Seq(Chunk) /\ Len(row.replay) <= MaxReplay
    BY StreamTypes, Zenon
  <1>4. \A v \in Live : Merged(row, v)' = row.replay
    <2> SUFFICES ASSUME NEW v \in Live PROVE Merged(row, v)' = row.replay
      OBVIOUS
    <2>1. v \in Viewers /\ buffer'[v].seeded = FALSE /\ buffer'[v].replay = <<>>
      BY <1>1, NoSessionType, LiveSubset, Zenon
    <2>2. Merged(row, v)' = AppendReplay(row.replay, <<>>)
      BY <1>1, <2>1, Zenon DEF Merged
    <2> QED BY <2>2, <1>3, ReplayedNothing, Zenon
  <1>5. KeptReplays' = {row.replay}
    <2>1. Flushed(row', pending') = row
      BY <1>1, NoSessionType, Zenon DEF Flushed
    <2>2. CASE Live = {}
      BY <1>2, <2>1, <2>2, Zenon DEF KeptReplays
    <2>3. CASE Live # {}
      <3>1. KeptReplays' = {Merged(row, v)' : v \in Live}
        BY <1>2, <2>3, Zenon DEF KeptReplays
      <3> QED BY <3>1, <1>4, <2>3, Zenon
    <2> QED BY <2>2, <2>3
  <1>6. slept => slept'
    <2>1. slept' = TRUE \/ slept' = (slept \/ Unstored)
      BY <1>1
    <2> QED BY <2>1
  <1>7. slept' \/ row.replay \in KeptReplays
    <2> SUFFICES ASSUME ~slept' PROVE row.replay \in KeptReplays
      OBVIOUS
    <2>1. ~Unstored /\ alarm # "soon"
      BY <1>1, Zenon
    <2>2. CASE Live = {}
      <3>1. pending = NoSession
        BY <2>1, Zenon DEF IdsInv
      <3>2. Flushed(row, pending) = row
        BY <3>1, NoSessionType, Zenon DEF Flushed
      <3> QED BY <2>2, <3>2, Zenon DEF KeptReplays
    <2>3. CASE Live # {}
      <3>1. PICK v \in Live : TRUE
        BY <2>3, Zenon
      <3>2. buffer[v].seeded /\ buffer[v].replay = row.replay
        BY <2>1, <3>1, Zenon DEF Unstored
      <3>3. Merged(row, v) = row.replay
        BY <3>2, Zenon DEF Merged
      <3> QED BY <2>3, <3>1, <3>3, Zenon DEF KeptReplays
    <2> QED BY <2>2, <2>3
  <1>8. \A v \in Viewers : seen'[v] = seen[v]
    BY <1>1
  <1> QED BY <1>1, <1>2, <1>5, <1>6, <1>7, <1>8, Zenon DEF ReplaysStay

LEMMA SameExecutor ==
  ASSUME UNCHANGED socket
  PROVE  Executor' = Executor
  BY Zenon DEF Executor

LEMMA SettledNone ==
  ASSUME WindowTypes, StoreTypes, Settle({})
  PROVE  UNCHANGED <<view, buffer>>
  BY SMT DEF Settle, WindowTypes, StoreTypes

\* A window takes over what is stored, or begins a session.
LEMMA AcceptedStream ==
  ASSUME Types, Types', IdsInv, ConnInv, FreshInv, StreamInv, NEW v \in Viewers, Accept(v)
  PROVE  StreamInv'
  <1>1. /\ view[v] = "none" /\ Live' = {v}
        /\ UNCHANGED <<socket, toGateway, shell, shells, slept>>
    BY AcceptEffect DEF links, cli
  <1>2. PICK s :
          /\ StoredType(s) /\ s.id = row.id /\ NewId(s, v) \in Viewers
          /\ Live = {} => s = Flushed(row, pending)
          /\ \A p \in Live : s.replay = Merged(row, p)
          /\ view' = [p \in Viewers |-> IF p = v THEN "live" ELSE IF p \in Live THEN "over" ELSE view[p]]
          /\ seen' = [seen EXCEPT ![v] = s.replay]
          /\ row' = [id |-> NewId(s, v), replay |-> s.replay]
          /\ buffer' = [p \in Viewers |-> IF p = v THEN [replay |-> s.replay, seeded |-> TRUE] ELSE NoBuffer]
          /\ ToExecutor(Frame("open", NewId(s, v)))
    BY AcceptEffect
  <1>3. Executor' = Executor /\ \A c \in Executor : c \in Conns
    BY <1>1, SameExecutor DEF Executor
  <1>4. KeptReplays' = {s.replay}
    <2>1. Merged(row, v)' = s.replay
      <3>1. buffer'[v].seeded = TRUE /\ buffer'[v].replay = s.replay
        BY <1>2
      <3> QED BY <3>1, Zenon DEF Merged
    <2>2. Live' # {}
      BY <1>1
    <2>3. KeptReplays' = {Merged(row, w)' : w \in Live'}
      BY <2>2, Zenon DEF KeptReplays
    <2> QED BY <1>1, <2>1, <2>3, Zenon
  <1>5. /\ seen'[v] = s.replay /\ \A w \in Viewers : w # v => seen'[w] = seen[w]
    BY <1>2 DEF Types, WindowTypes
  <1>6. \A w \in Viewers : view'[w] = "live" => w = v
    BY <1>2, SMT DEF Live
  <1>7. \A t \in Shown' : t = s.replay
    BY <1>5, <1>6, Zenon DEF Shown
  <1>8. /\ row'.id = NewId(s, v) /\ row'.replay = s.replay
        /\ Frame("open", NewId(s, v)) \in Down
        /\ Frame("open", NewId(s, v)).kind = "open" /\ Frame("open", NewId(s, v)).id = NewId(s, v)
    BY <1>2, DownFrames, FrameFields
  <1>9. \A c \in Executor : toCli[c] \in Seq(Down) /\ toCli'[c] = Append(toCli[c], Frame("open", NewId(s, v)))
    <2>1. FrameTypes
      BY DEF Types
    <2> QED BY <1>2, <1>3, <1>8, <2>1, Sent, Zenon DEF FrameTypes
  <1>10. CASE row.id # Nobody
    <2>1. NewId(s, v) = row.id
      BY <1>2, <1>10, NoSessionType, Zenon DEF NewId
    <2>2. s.replay \in KeptReplays
      <3>1. CASE Live = {}
        BY <1>2, <3>1, Zenon DEF KeptReplays
      <3>2. CASE Live # {}
        BY <1>2, <3>2, Zenon DEF KeptReplays
      <3> QED BY <3>1, <3>2
    <2>3. ReplaysStay
      <3>1. \A t \in KeptReplays' \cup Shown' : t \in KeptReplays \cup Shown
        BY <1>4, <1>7, <2>2, Zenon
      <3>2. \A w \in Viewers : seen'[w] \in {seen[w]} \cup KeptReplays
        BY <1>5, <2>2, Zenon
      <3> QED BY <1>1, <1>8, <1>10, <2>1, <2>2, <3>1, <3>2, Zenon DEF ReplaysStay
    <2>4. OutputStays
      BY <1>1, <1>3, <1>8, <1>9, <2>1, Zenon DEF OutputStays
    <2> QED BY <2>3, <2>4, StreamStays, Zenon
  <1>11. CASE row.id = Nobody
    <2>1. s.replay = <<>> /\ s = NoSession /\ NewId(s, v) = v
      BY <1>2, <1>11, StoredRecord, Zenon DEF NewId
    <2>2. \A c \in Conns : \A f \in In(toGateway[c]) : ~IsOut(f, v)
      BY <1>1, Zenon DEF FreshInv, IsOut
    <2>3. \A c \in Conns : OutputOf(c)' = {} /\ Increasing(toGateway'[c], row'.id)
      BY <1>1, <1>8, <2>1, <2>2, IncreasingFew, Zenon DEF OutputOf
    <2>4. Outs' = {}
      BY <2>3, Zenon DEF Outs
    <2>5. ~Begun'
      <3>1. \A t \in {row'.replay} \cup KeptReplays' \cup Shown' : t = <<>>
        BY <1>4, <1>7, <1>8, <2>1, Zenon
      <3> QED BY <2>4, <3>1, Zenon DEF Begun
    <2>6. QueueInv' /\ HeldInv'
      BY <2>3, <2>5, NothingYet, Zenon DEF QueueInv
    <2>7. SeenInv'
      BY <1>1, <1>5, <2>1, EmptyRuns, Zenon DEF SeenInv, StreamInv
    <2>8. BegunInv'
      <3>1. shell'.id # row'.id
        BY <1>1, <1>8, <2>1, Zenon DEF FreshInv
      <3>2. ASSUME NEW c \in Executor PROVE OpensAfter(toCli'[c], row'.id)
        <4>1. \A i \in DOMAIN toCli[c] : toCli[c][i].id # v
          BY <1>1, <1>3, Zenon DEF FreshInv, In
        <4>2. OpensAfter(toCli[c], v)
          BY <4>1, Zenon DEF OpensAfter
        <4>3. OpensAfter(Append(toCli[c], Frame("open", v)), v)
          BY <1>8, <1>9, <2>1, <4>2, OpensStayAppended, Zenon
        <4> QED BY <1>8, <1>9, <2>1, <4>3, Zenon
      <3> QED BY <1>3, <2>5, <3>1, <3>2, Zenon DEF BegunInv
    <2> QED BY <2>6, <2>7, <2>8, Zenon DEF StreamInv
  <1> QED BY <1>10, <1>11

\* The next output of the session, on a screen or in what is kept.
LEMMA HeardStream ==
  ASSUME Types, Types', IdsInv, ConnInv, StreamInv, NEW c \in Conns, Receive(c), row.id # Nobody,
         IsOut(Head(toGateway[c]), row.id), UNCHANGED <<view, toCli>>,
         NEW x \in Chunk, x = Head(toGateway[c]).chunk, Output(row.id, x)
  PROVE  StreamInv'
  <1>1. UNCHANGED <<idOf, socket, shell, shells, slept>>
    BY FirstFrame DEF links, cli, Types
  <1>2. Live' = Live /\ Executor' = Executor /\ row.id \in Viewers
    BY <1>1, ListedId, SameExecutor, Zenon DEF Live
  <1>3. \/ /\ \E v \in Live :
                /\ seen' = [seen EXCEPT ![v] = IF view[v] = "live" THEN Append(@, x) ELSE @]
                /\ buffer' = [buffer EXCEPT ![v].replay = AppendReplay(@, <<x>>)]
           /\ UNCHANGED <<row, pending>>
        \/ /\ Live = {} /\ UNCHANGED <<seen, buffer>>
           /\ LET next == [id |-> row.id, replay |-> AppendReplay(Flushed(row, pending).replay, <<x>>)]
              IN  \/ row' = next /\ pending' = NoSession
                  \/ pending' = next /\ row' = row
    BY <1>2, OutputCases, Zenon
  <1>4. StoreTypes /\ StoredType(row) /\ row.replay \in Seq(Chunk) /\ Len(row.replay) <= MaxReplay
    BY StreamTypes, Zenon DEF Types, StoreTypes
  <1>5. /\ row'.id = row.id /\ row'.replay \in {row.replay} \cup KeptReplays'
        /\ \A t \in KeptReplays' : \E s \in KeptReplays : t = AppendReplay(s, <<x>>)
        /\ \A v \in Viewers : \/ seen'[v] = seen[v] /\ view[v] # "live"
                              \/ seen'[v] = Append(seen[v], x) /\ view[v] = "live"
    <2>1. ASSUME NEW v \in Live,
                 seen' = [seen EXCEPT ![v] = IF view[v] = "live" THEN Append(@, x) ELSE @],
                 buffer' = [buffer EXCEPT ![v].replay = AppendReplay(@, <<x>>)],
                 UNCHANGED <<row, pending>>
          PROVE  <1>5
      <3>1. v \in Viewers /\ Live = {v} /\ \A w \in Viewers : view[w] = "live" => w = v
        BY <2>1, Zenon DEF IdsInv, Live
      <3>2. /\ seen'[v] = IF view[v] = "live" THEN Append(seen[v], x) ELSE seen[v]
            /\ \A w \in Viewers : w # v => seen'[w] = seen[w]
        BY <2>1, <3>1, SMT DEF Types, WindowTypes
      <3>3. \A w \in Viewers : \/ seen'[w] = seen[w] /\ view[w] # "live"
                               \/ seen'[w] = Append(seen[w], x) /\ view[w] = "live"
        BY <3>1, <3>2, Zenon
      <3>4. /\ buffer[v].replay \in Seq(Chunk) /\ Len(buffer[v].replay) <= MaxReplay
            /\ buffer'[v].replay = AppendReplay(buffer[v].replay, <<x>>)
            /\ buffer'[v].seeded = buffer[v].seeded
        BY <1>4, <2>1, <3>1, BufferRecord, SMT DEF StoreTypes
      <3>5. Merged(row, v)' = AppendReplay(Merged(row, v), <<x>>)
        <4>1. CASE buffer[v].seeded
          BY <2>1, <3>4, <4>1, Zenon DEF Merged
        <4>2. CASE ~buffer[v].seeded
          BY <1>4, <2>1, <3>4, <4>2, MergedGrows, Zenon DEF Merged
        <4> QED BY <4>1, <4>2, Zenon
      <3>6. KeptReplays = {Merged(row, v)} /\ KeptReplays' = {Merged(row, v)'}
        <4>1. Live # {} /\ Live' # {} /\ Live' = {v}
          BY <1>2, <3>1
        <4>2. KeptReplays = {Merged(row, w) : w \in Live}
          BY <4>1, Zenon DEF KeptReplays
        <4>3. KeptReplays' = {Merged(row, w)' : w \in Live'}
          BY <4>1, Zenon DEF KeptReplays
        <4> QED BY <3>1, <4>1, <4>2, <4>3, Zenon
      <3> QED BY <2>1, <3>3, <3>5, <3>6, Zenon
    <2>2. ASSUME Live = {}, UNCHANGED <<seen, buffer>>,
                 LET next == [id |-> row.id, replay |-> AppendReplay(Flushed(row, pending).replay, <<x>>)]
                 IN  \/ row' = next /\ pending' = NoSession
                     \/ pending' = next /\ row' = row
          PROVE  <1>5
      <3> DEFINE next == [id |-> row.id, replay |-> AppendReplay(Flushed(row, pending).replay, <<x>>)]
      <3>1. next.id = row.id /\ next.replay = AppendReplay(Flushed(row, pending).replay, <<x>>)
        OBVIOUS
      <3>2. (row' = next /\ pending' = NoSession) \/ (pending' = next /\ row' = row)
        BY <2>2
      <3> HIDE DEF next
      <3>3. Flushed(row', pending') = next
        BY <3>1, <3>2, NoSessionType, Zenon DEF Flushed
      <3>4. KeptReplays = {Flushed(row, pending).replay} /\ KeptReplays' = {next.replay}
        BY <1>2, <2>2, <3>3, Zenon DEF KeptReplays
      <3>5. \A v \in Viewers : view[v] # "live"
        BY <2>2, SMT DEF Live
      <3> QED BY <2>2, <3>1, <3>2, <3>4, <3>5, Zenon
    <2> QED BY <1>3, <2>1, <2>2, Zenon
  <1>6. QueueInv' /\ Arrives(x, Outs, Outs', Upcoming, shells, slept)
    BY <1>2, <1>5, QueueTaken, Zenon DEF StreamInv
  <1>7. Upcoming' = Upcoming
    BY <1>1, <1>5, Zenon DEF Upcoming
  <1>8. /\ Ordered(Outs, Upcoming, shells, slept)
        /\ Runs(row.replay, Outs, Upcoming, shells, TRUE)
        /\ \A s \in KeptReplays \cup Shown : Runs(s, Outs, Upcoming, shells, slept)
    BY Zenon DEF HeldInv, StreamInv
  <1>9. Ordered(Outs', Upcoming', shells', slept')
    BY <1>1, <1>6, <1>7, NextChunk, Zenon
  <1>10. \A t \in KeptReplays' : Runs(t, Outs', Upcoming', shells', slept')
    <2> SUFFICES ASSUME NEW t \in KeptReplays' PROVE Runs(t, Outs', Upcoming, shells, slept)
      BY <1>1, <1>7, Zenon
    <2>1. PICK s \in KeptReplays : t = AppendReplay(s, <<x>>)
      BY <1>5, Zenon
    <2>2. s \in Seq(Chunk) /\ Len(s) <= MaxReplay /\ Runs(s, Outs, Upcoming, shells, slept)
      BY <1>8, StreamTypes, Zenon
    <2> QED BY <1>6, <2>1, <2>2, RunsAppended, Zenon
  <1>11. \A v \in Viewers : view[v] = "live" => Runs(seen'[v], Outs', Upcoming', shells', slept')
    <2> SUFFICES ASSUME NEW v \in Viewers, view[v] = "live" PROVE Runs(Append(seen[v], x), Outs', Upcoming, shells, slept)
      BY <1>1, <1>5, <1>7, Zenon
    <2>1. seen[v] \in Shown
      BY Zenon DEF Shown
    <2>2. seen[v] \in Seq(Chunk) /\ Runs(seen[v], Outs, Upcoming, shells, slept)
      BY <1>8, <2>1, StreamTypes, Zenon
    <2> QED BY <1>6, <2>2, RunsAppended, Zenon
  <1>12. Runs(row'.replay, Outs', Upcoming', shells', TRUE)
    <2>1. CASE row'.replay = row.replay
      <3>1. Outs' \in SUBSET Outs
        BY <1>6, Zenon DEF Arrives
      <3>2. Runs(row.replay, Outs', Upcoming, shells, TRUE)
        <4>1. TRUE \in BOOLEAN
          OBVIOUS
        <4> QED BY <1>8, <3>1, <4>1, Weaker, Zenon
      <3> QED BY <1>1, <1>7, <2>1, <3>2, Zenon
    <2>2. CASE row'.replay \in KeptReplays'
      <3>1. slept' \in BOOLEAN
        BY DEF Types, ClockTypes
      <3> QED BY <1>10, <2>2, <3>1, Weaker, Zenon
    <2> QED BY <1>5, <2>1, <2>2, Zenon
  <1>13. HeldInv'
    <2>1. \A t \in Shown' : Runs(t, Outs', Upcoming', shells', slept')
      BY <1>11, Zenon DEF Shown
    <2> QED BY <1>9, <1>10, <1>12, <2>1, Zenon DEF HeldInv
  <1>14. SeenInv'
    <2>1. \A v \in Viewers : Chain(seen'[v], slept')
      BY <1>1, <1>5, <1>11, Zenon DEF Runs, SeenInv, StreamInv
    <2> QED BY <2>1, Zenon DEF SeenInv
  <1>15. BegunInv'
    <2>1. Begun
      BY <1>6, Zenon DEF Begun, Arrives
    <2>2. /\ shell.id \in {Nobody, row.id}
          /\ \A d \in Executor : OpensAfter(toCli[d], row.id) /\ OpensOnly(toCli[d], row.id)
      BY <2>1, Zenon DEF BegunInv, StreamInv
    <2> QED BY <1>1, <1>2, <1>5, <2>2, Zenon DEF BegunInv
  <1> QED BY <1>6, <1>13, <1>14, <1>15, Zenon DEF StreamInv

----------------------------------------------------------------------------
(* The steps of the windows and of the object *)

LEMMA FramesSame ==
  ASSUME UNCHANGED <<socket, toGateway, toCli, shell, shells>>
  PROVE  OutputStays
  BY SameExecutor, Zenon DEF OutputStays

LEMMA FramesSent ==
  ASSUME Types, NEW f \in Down, f.kind # "open" \/ f.id = row.id, ToExecutor(f),
         UNCHANGED <<socket, toGateway, shell, shells>>
  PROVE  OutputStays
  <1>1. \A c \in Executor : toCli'[c] = Append(toCli[c], f)
    BY Sent, Zenon DEF Types
  <1> QED BY <1>1, SameExecutor, Zenon DEF OutputStays

LEMMA WindowStream ==
  ASSUME Types, Types', IdsInv, StreamInv, NEW v \in Viewers,
         Leave(v) \/ NoExecutor(v) \/ CloseSeen(v) \/ Input(v) \/ CloseShell(v)
  PROVE  StreamInv'
  <1>1. row.id # Nobody /\ v \in Live /\ idOf[v] \in Viewers
    <2>1. v \in Live
      BY SMT DEF Leave, NoExecutor, CloseSeen, Input, CloseShell, Live
    <2> QED BY <2>1, Constants, Zenon DEF IdsInv
  <1>2. CASE Leave(v) \/ NoExecutor(v)
    <2>1. UNCHANGED <<socket, toGateway, toCli, shell, shells>>
      BY <1>2, Zenon DEF Leave, NoExecutor, links, frames, cli
    <2> QED BY <1>1, <1>2, <2>1, FramesSame, ReplaysLeft, StreamStays, Zenon
  <1>3. CASE CloseSeen(v)
    <2>1. UNCHANGED <<socket, toGateway, toCli, shell, shells>>
      BY <1>3, Zenon DEF CloseSeen, links, frames, cli
    <2> QED BY <1>1, <1>3, <2>1, FramesSame, ReplaysClosed, StreamStays, Zenon
  <1>4. CASE Input(v)
    <2>1. /\ UNCHANGED <<socket, toGateway, shell, shells>> /\ ToExecutor(Frame("input", idOf[v]))
          /\ UNCHANGED <<view, seen, buffer, row, pending, slept>>
      BY <1>4, Zenon DEF Input, windows, relay, links, cli
    <2>2. Frame("input", idOf[v]) \in Down /\ Frame("input", idOf[v]).kind # "open"
      BY <1>1, DownFrames, FrameFields
    <2>3. OutputStays
      BY <2>1, <2>2, FramesSent, Zenon
    <2>4. ReplaysStay
      BY <1>1, <2>1, ReplaysSame, Zenon
    <2> QED BY <2>3, <2>4, StreamStays, Zenon
  <1>5. CASE CloseShell(v)
    <2>1. row'.id = Nobody /\ UNCHANGED <<seen, slept>>
      BY <1>5, RowStays, Zenon DEF CloseShell
    <2> QED BY <2>1, NoStream, Zenon DEF StreamInv
  <1> QED BY <1>2, <1>3, <1>4, <1>5

LEMMA ObjectStream ==
  ASSUME Types, Types', IdsInv, StreamInv, CloseTarget \/ Ages \/ Expire \/ Hibernate \/ Evict
  PROVE  StreamInv'
  <1>1. UNCHANGED <<seen, socket, toGateway, shell, shells>> /\ (slept => slept')
    <2>1. CASE CloseTarget \/ Ages
      BY <2>1 DEF CloseTarget, Ages, windows, links, frames, cli
    <2>2. CASE Expire
      BY <2>2, ExpireCases DEF links, cli
    <2>3. CASE Hibernate \/ Evict
      BY <2>3 DEF Hibernate, Evict, Wiped, windows, frames, cli
    <2> QED BY <2>1, <2>2, <2>3
  <1>2. CASE row'.id = Nobody
    BY <1>1, <1>2, NoStream, Zenon DEF StreamInv
  <1>3. CASE row'.id # Nobody /\ Ages
    <2>1. UNCHANGED <<view, seen, buffer, row, pending, slept, toCli>>
      BY <1>3, Zenon DEF Ages, windows, frames
    <2> QED BY <1>1, <1>3, <2>1, FramesSame, ReplaysSame, StreamStays, Zenon
  <1>4. CASE row'.id # Nobody /\ Expire
    <2>1. row' = Flushed(row, pending) /\ pending' = NoSession /\ UNCHANGED <<view, seen, buffer, slept, toCli>>
      BY <1>4, ExpireCases, NoSessionType, Zenon
    <2>2. row.id # Nobody
      BY <1>4, <2>1, FlushedType, Zenon DEF Types
    <2> QED BY <1>1, <2>1, <2>2, FramesSame, ReplaysFlushed, StreamStays, Zenon
  <1>5. CASE row'.id # Nobody /\ (Hibernate \/ Evict)
    <2>1. UNCHANGED <<row, toCli>>
      BY <1>5, Zenon DEF Hibernate, Evict, Wiped, frames
    <2> QED BY <1>1, <1>5, <2>1, FramesSame, ReplaysWiped, StreamStays, Zenon
  <1>6. CloseTarget => row'.id = Nobody
    BY RowStays, Zenon
  <1> QED BY <1>2, <1>3, <1>4, <1>5, <1>6

LEMMA ReceiveStream ==
  ASSUME Types, Types', IdsInv, ConnInv, StreamInv, NEW c \in Conns, Receive(c)
  PROVE  StreamInv'
  <1>1. PICK f \in UpFrames :
           /\ f = Head(toGateway[c])
           /\ \/ f.kind = "output" /\ f.chunk \in Chunk /\ Output(f.id, f.chunk) /\ UNCHANGED <<view, toCli>>
              \/ /\ f.kind \in {"exit", "error"}
                 /\ Settle(Watching(f.id)) /\ Forget(f.id) /\ UNCHANGED <<seen, alarm>>
                 /\ toCli' = toCli \/ ToExecutor(Frame("close", f.id))
    BY ReceiveCases, Zenon
  <1>2. /\ toGateway[c] # <<>> /\ toGateway' = [toGateway EXCEPT ![c] = Tail(@)]
        /\ toGateway \in [Conns -> Seq(UpFrames)]
        /\ UNCHANGED <<socket, shell, shells, slept>> /\ f.id \in Viewers /\ f.id # Nobody
    BY FirstFrame, UpFrameFields, Constants DEF Types, FrameTypes, links, cli
  <1>3. CASE f.id # row.id
    <2>1. /\ UNCHANGED <<view, seen, buffer, row, pending>>
          /\ toCli' = toCli \/ ToExecutor(Frame("close", f.id))
      <3>1. CASE f.kind = "output" /\ f.chunk \in Chunk /\ Output(f.id, f.chunk) /\ UNCHANGED <<view, toCli>>
        BY <1>2, <1>3, <3>1, OutputCases, Zenon
      <3>2. CASE /\ Settle(Watching(f.id)) /\ Forget(f.id) /\ UNCHANGED <<seen, alarm>>
                 /\ toCli' = toCli \/ ToExecutor(Frame("close", f.id))
        <4>1. Settle({})
          BY <1>3, <3>2, OneWatches, Zenon
        <4>2. UNCHANGED <<view, buffer>>
          BY <4>1, SettledNone, Zenon DEF Types
        <4> QED BY <1>2, <1>3, <3>2, <4>2, ForgetEffect, Zenon
      <3> QED BY <1>1, <3>1, <3>2
    <2>2. CASE row.id = Nobody
      BY <1>2, <2>1, <2>2, NoStream, Zenon DEF StreamInv
    <2>3. CASE row.id # Nobody
      <3>1. \A d \in Executor : toCli'[d] = toCli[d] \/ toCli'[d] = Append(toCli[d], Frame("close", f.id))
        <4>1. Frame("close", f.id) \in Down
          BY <1>2, DownFrames
        <4> QED BY <2>1, <4>1, Sent, Zenon DEF Types
      <3>2. Frame("close", f.id) \in Down /\ Frame("close", f.id).kind # "open"
        BY <1>2, DownFrames, FrameFields
      <3>3. \A d \in Conns : \/ toGateway'[d] = toGateway[d]
                             \/ /\ toGateway[d] # <<>> /\ ~IsOut(Head(toGateway[d]), row.id)
                                /\ toGateway'[d] = Tail(toGateway[d])
        BY <1>1, <1>2, <1>3 DEF IsOut
      <3>4. OutputStays
        BY <1>2, <3>1, <3>2, <3>3, SameExecutor, Zenon DEF OutputStays
      <3>5. ReplaysStay
        BY <1>2, <2>1, <2>3, ReplaysSame, Zenon
      <3> QED BY <3>4, <3>5, StreamStays, Zenon
    <2> QED BY <2>2, <2>3
  <1>4. CASE f.id = row.id
    <2>1. CASE f.kind = "output" /\ f.chunk \in Chunk /\ Output(f.id, f.chunk) /\ UNCHANGED <<view, toCli>>
      <3>1. IsOut(Head(toGateway[c]), row.id)
        BY <1>1, <1>4, <2>1, Zenon DEF IsOut
      <3> QED BY <1>1, <1>2, <1>4, <2>1, <3>1, HeardStream, Zenon
    <2>2. CASE /\ Settle(Watching(f.id)) /\ Forget(f.id) /\ UNCHANGED <<seen, alarm>>
      <3>1. row'.id = Nobody
        BY <1>2, <1>4, <2>2, ForgetEffect, NoSessionType, Zenon
      <3> QED BY <1>2, <2>2, <3>1, NoStream, Zenon DEF StreamInv
    <2> QED BY <1>1, <2>1, <2>2, Zenon
  <1> QED BY <1>3, <1>4

----------------------------------------------------------------------------
(* The steps of the connections and of the machine *)

LEMMA LinkStream ==
  ASSUME Types, Types', IdsInv, ConnInv, StreamInv, NEW c \in Conns,
         Dial(c) \/ Hello(c) \/ SocketEnds(c) \/ DropFinishes(c)
  PROVE  StreamInv'
  <1>1. CASE Hello(c) \/ DropFinishes(c)
    <2>1. row'.id = Nobody /\ UNCHANGED <<seen, slept>>
      BY <1>1, RowStays, SettlingSteps, Zenon DEF Hello, DropFinishes
    <2> QED BY <2>1, NoStream, Zenon DEF StreamInv
  <1>2. CASE Dial(c) \/ SocketEnds(c)
    <2>1. UNCHANGED <<view, seen, buffer, row, pending, slept, shell, shells>>
      BY <1>2, Zenon DEF Dial, SocketEnds, windows, relay, cli
    <2>2. CASE row.id = Nobody
      BY <2>1, <2>2, NoStream, Zenon DEF StreamInv
    <2>3. CASE row.id # Nobody
      <3>1. ReplaysStay /\ KeptReplays' = KeptReplays /\ Shown' = Shown
        BY <2>1, <2>3, ReplaysSame, Zenon
      <3>2. \A d \in Conns : d # c => socket'[d] = socket[d]
        BY <1>2, SMT DEF Dial, SocketEnds, Types, LinkTypes
      <3>3. CASE Dial(c)
        <4>1. socket[c] = "none" /\ socket'[c] = "accepted" /\ UNCHANGED <<toCli, toGateway>>
          BY <3>3, SMT DEF Dial, Types, LinkTypes, frames
        <4>2. \A d \in Conns : d \in Executor' <=> d \in Executor
          BY <3>2, <4>1, SMT DEF Executor
        <4>3. OutputStays
          BY <2>1, <4>1, <4>2, Zenon DEF OutputStays
        <4> QED BY <3>1, <4>3, StreamStays, Zenon
      <3>4. CASE SocketEnds(c)
        <4>1. /\ conn # c /\ socket'[c] = "closed" /\ toCli'[c] = <<>> /\ toGateway'[c] = <<>>
              /\ \A d \in Conns : d # c => toCli'[d] = toCli[d] /\ toGateway'[d] = toGateway[d]
          BY <3>4, SMT DEF SocketEnds, Types, LinkTypes, FrameTypes
        <4>2. \A d \in Conns : d \in Executor' <=> d \in Executor /\ d # c
          BY <3>2, <4>1, SMT DEF Executor
        <4>3. CASE c \notin Executor
          <5>1. OutputOf(c) = {}
            BY <2>3, <4>3, Zenon DEF StreamInv, QueueInv
          <5>2. Executor \subseteq Conns
            BY DEF Executor
          <5>3. OutputStays
            BY <2>1, <4>1, <4>2, <4>3, <5>1, <5>2, Zenon DEF OutputStays
          <5> QED BY <3>1, <5>3, StreamStays, Zenon
        <4>4. CASE c \in Executor
          <5>1. shell = NoShell
            <6>1. conn = 0 \/ socket[conn] = "accepted"
              <7>1. conn # 0 /\ socket[conn] = "active" => conn = c
                BY <4>4, OwnConn, Zenon DEF ConnInv, Types
              <7> QED BY <4>1, <7>1, Zenon DEF ConnInv
            <6> QED BY <6>1, Zenon DEF ConnInv
          <5>2. Executor = {c} /\ Executor' = {}
            <6>1. Executor = {c}
              BY <4>4, Zenon DEF ConnInv
            <6>2. Executor' \subseteq Conns
              BY DEF Executor
            <6> QED BY <4>2, <6>1, <6>2
          <5>3. \A d \in Conns : OutputOf(d)' = {} /\ Increasing(toGateway'[d], row'.id)
            <6> SUFFICES ASSUME NEW d \in Conns PROVE OutputOf(d)' = {} /\ Increasing(toGateway'[d], row'.id)
              OBVIOUS
            <6>1. CASE d = c
              BY <4>1, <6>1, InEmpty, IncreasingFew, Zenon DEF OutputOf
            <6>2. CASE d # c
              <7>1. OutputOf(d) = {} /\ Increasing(toGateway[d], row.id)
                BY <2>3, <5>2, <6>2, Zenon DEF StreamInv, QueueInv
              <7> QED BY <2>1, <4>1, <6>2, <7>1, Zenon DEF OutputOf
            <6> QED BY <6>1, <6>2
          <5>4. Outs' = {} /\ QueueInv'
            BY <5>3, Zenon DEF Outs, QueueInv
          <5>5. \A n \in Upcoming' : n \in Upcoming
            BY <2>1, Zenon DEF Upcoming
          <5>6. shells \in Nat /\ shells <= shells /\ Outs \subseteq Chunk /\ shells' = shells
            BY <2>1, StreamTypes, SMT
          <5>7. /\ \A s \in Seq(Chunk), k \in BOOLEAN :
                     Runs(s, Outs, Upcoming, shells, k) => Runs(s, Outs', Upcoming', shells', k)
                /\ \A k \in BOOLEAN : Ordered(Outs', Upcoming', shells', k)
            <6>1. ASSUME NEW s \in Seq(Chunk), NEW k \in BOOLEAN, Runs(s, Outs, Upcoming, shells, k)
                  PROVE  Runs(s, Outs', Upcoming', shells', k)
              <7>1. Chain(s, k)
                BY <6>1, Zenon DEF Runs
              <7>2. Upcoming = {} /\ Upcoming' = {}
                BY <2>1, <2>3, <5>1, SMT DEF Upcoming, NoShell
              <7>3. s # <<>> => s[Len(s)][1] <= shells
                BY <6>1, Zenon DEF Runs, Leads
              <7> QED BY <5>4, <5>6, <7>1, <7>2, <7>3, Zenon DEF Runs, Leads
            <6>2. \A k \in BOOLEAN : Ordered(Outs', Upcoming', shells', k)
              BY <5>4, EmptyRuns, Zenon
            <6> QED BY <6>1, <6>2
          <5>8. HeldInv'
            BY <2>1, <2>3, <3>1, <5>7, HeldStays, Zenon DEF StreamInv
          <5>9. SeenInv'
            BY <2>1, <2>3, SeenStays, Zenon DEF StreamInv
          <5>10. BegunInv'
            <6>1. Outs' \subseteq Outs
              BY <5>4
            <6>2. Begun' => Begun
              BY <3>1, <6>1, BegunBefore, Zenon
            <6>3. shell'.id \in {Nobody, row'.id}
              BY <2>1, <5>1, SMT DEF NoShell
            <6> QED BY <5>2, <6>3, Zenon DEF BegunInv
          <5> QED BY <5>4, <5>8, <5>9, <5>10, Zenon DEF StreamInv
        <4> QED BY <4>3, <4>4
      <3> QED BY <1>2, <3>3, <3>4
    <2> QED BY <2>2, <2>3
  <1> QED BY <1>1, <1>2

\* The end of a shell takes nothing that it wrote.
LEMMA EndStream ==
  ASSUME Types, Types', IdsInv, ConnInv, StreamInv,
         ConnectionEnds \/ Exit \/ \E id \in Viewers : KilledExits(id)
  PROVE  StreamInv'
  <1>1. /\ UNCHANGED <<view, seen, buffer, row, pending, slept, socket, shells>>
        /\ shell' \in {shell, NoShell}
    BY Zenon DEF ConnectionEnds, Exit, KilledExits, windows, relay, links
  <1>2. CASE row.id = Nobody
    BY <1>1, <1>2, NoStream, Zenon DEF StreamInv
  <1>3. CASE row.id # Nobody
    <2>1. ReplaysStay
      BY <1>1, <1>3, ReplaysSame, Zenon
    <2>2. Executor' = Executor /\ Executor \subseteq Conns
      BY <1>1, SameExecutor DEF Executor
    <2>3. CASE ConnectionEnds
      <3>1. toGateway' = toGateway /\ \A c \in Conns : toCli'[c] = toCli[c] \/ toCli'[c] = <<>>
        BY <2>3, SMT DEF ConnectionEnds, Types, FrameTypes
      <3>2. OutputStays
        BY <1>1, <2>2, <3>1, Zenon DEF OutputStays
      <3> QED BY <2>1, <3>2, StreamStays, Zenon
    <2>4. CASE Exit \/ \E id \in Viewers : KilledExits(id)
      <3>1. toCli' = toCli
        BY <2>4, Zenon DEF Exit, KilledExits
      <3>2. PICK fs \in Seq(UpFrames) : /\ conn \in Conns /\ Says(fs)
                                        /\ \A f \in In(fs) : f.kind \in {"exit", "error"}
        <4>1. CASE Exit
          <5>1. PICK fs \in Seq(UpFrames) :
                  /\ Says(fs) /\ conn \in Conns
                  /\ fs = <<Frame("exit", shell.id)>> \/ fs = <<Frame("error", shell.id), Frame("exit", shell.id)>>
            BY <4>1, ShellSpeaks, Zenon
          <5>2. \A f \in In(fs) : f = Frame("exit", shell.id) \/ f = Frame("error", shell.id)
            BY <5>1, OneFrame, TwoFrames, Zenon
          <5>3. \A f \in In(fs) : f.kind \in {"exit", "error"}
            BY <5>2, FrameFields
          <5> QED BY <5>1, <5>3, Zenon
        <4>2. ASSUME NEW id \in Viewers, KilledExits(id)
              PROVE  \E fs \in Seq(UpFrames) : /\ conn \in Conns /\ Says(fs)
                                               /\ \A f \in In(fs) : f.kind \in {"exit", "error"}
          <5>1. <<Frame("exit", id)>> \in Seq(UpFrames) /\ Says(<<Frame("exit", id)>>) /\ conn \in Conns
            BY <4>2, ShellSpeaks, Zenon
          <5>2. \A f \in In(<<Frame("exit", id)>>) : f.kind \in {"exit", "error"}
            BY OneFrame, FrameFields
          <5> QED BY <5>1, <5>2, Zenon
        <4> QED BY <2>4, <4>1, <4>2, Zenon
      <3>3. \A f \in In(fs) : ~IsOut(f, row.id)
        BY <3>2, SMT DEF IsOut
      <3>4. \A c \in Conns : toGateway'[c] = toGateway[c] \/ toGateway'[c] = toGateway[c] \o fs
        BY <3>2, Said, Zenon DEF Types
      <3>5. OutputStays
        BY <1>1, <2>2, <3>1, <3>3, <3>4, Zenon DEF OutputStays
      <3> QED BY <2>1, <3>5, StreamStays, Zenon
    <2> QED BY <2>3, <2>4
  <1> QED BY <1>2, <1>3

\* The machine takes a frame: only a session that wrote nothing loses a shell
\* to another.
LEMMA HandleStream ==
  ASSUME Types, Types', IdsInv, ConnInv, StreamInv, Handle
  PROVE  StreamInv'
  <1>1. PICK f \in Down :
          /\ f = Head(toCli[conn])
          /\ \/ /\ f.kind = "open" /\ shell # NoShell /\ shell' = [shell EXCEPT !.id = f.id]
                /\ UNCHANGED <<shells, toGateway>>
             \/ /\ f.kind = "open" /\ shell = NoShell
                /\ shells' = shells + 1 /\ shell' = [id |-> f.id, gen |-> shells + 1, out |-> 0]
                /\ toGateway' = toGateway
             \/ /\ shell' \in {shell, NoShell} /\ shells' = shells
                /\ toGateway' = toGateway \/ Says(<<Frame("error", f.id)>>)
    BY HandleCases, Zenon DEF cli, Answers
  <1>2. /\ conn \in Conns /\ toCli[conn] # <<>> /\ toCli' = [toCli EXCEPT ![conn] = Tail(@)]
        /\ UNCHANGED <<view, seen, buffer, row, pending, slept, socket>>
        /\ toCli[conn] \in Seq(Down) /\ FrameTypes
    BY HandleCases, Zenon DEF windows, relay, links, Types, FrameTypes
  <1>3. /\ toCli'[conn] = Tail(toCli[conn]) /\ \A d \in Conns : d # conn => toCli'[d] = toCli[d]
        /\ Executor' = Executor /\ Executor \subseteq Conns
    BY <1>2, FirstTaken, SameExecutor DEF Executor
  <1>4. CASE row.id = Nobody
    BY <1>2, <1>4, NoStream, Zenon DEF StreamInv
  <1>5. CASE row.id # Nobody
    <2>1. ReplaysStay /\ KeptReplays' = KeptReplays /\ Shown' = Shown
      BY <1>2, <1>5, ReplaysSame, Zenon
    <2>2. ASSUME shell' \in {shell, NoShell}, shells' = shells,
                 toGateway' = toGateway \/ Says(<<Frame("error", f.id)>>)
          PROVE  StreamInv'
      <3>1. <<Frame("error", f.id)>> \in Seq(UpFrames)
        BY DownFields, DownFrames
      <3>2. \A g \in In(<<Frame("error", f.id)>>) : ~IsOut(g, row.id)
        BY OneFrame, FrameFields, SMT DEF IsOut
      <3>3. \A d \in Conns : toGateway'[d] = toGateway[d] \/ toGateway'[d] = toGateway[d] \o <<Frame("error", f.id)>>
        BY <1>2, <2>2, <3>1, Said, Zenon
      <3>4. OutputStays
        BY <1>2, <1>3, <2>2, <3>1, <3>2, <3>3, Zenon DEF OutputStays
      <3> QED BY <2>1, <3>4, StreamStays, Zenon
    <2>3. ASSUME f.kind = "open", toGateway' = toGateway, shell'.id = f.id, shell.id # f.id
          PROVE  QueueInv' /\ Outs' = Outs /\ SeenInv' /\ BegunInv' /\ (Begun' => Begun) /\ (Begun => f.id = row.id)
      <3>1. QueueInv' /\ Outs' = Outs
        BY <1>2, <1>3, <1>5, <2>3, QueueStays, Zenon DEF StreamInv
      <3>2. SeenInv'
        BY <1>2, <1>5, SeenStays, Zenon DEF StreamInv
      <3>3. Begun' => Begun
        <4>1. Outs' \subseteq Outs
          BY <3>1
        <4> QED BY <2>1, <4>1, BegunBefore, Zenon
      <3>4. conn \in Executor /\ \A d \in Executor : d = conn
        <4>1. conn \in Executor
          BY <1>2, OwnConn, Zenon DEF ConnInv, Types
        <4> QED BY <4>1, Zenon DEF ConnInv
      <3>5. /\ Begun => OpensOnly(toCli[conn], row.id)
            /\ OpensAfter(toCli[conn], row.id)
        BY <1>5, <3>4, Zenon DEF StreamInv, BegunInv
      <3>6. /\ Begun => f.id = row.id /\ OpensOnly(toCli'[conn], row.id)
            /\ OpensAfter(toCli'[conn], row.id) /\ (f.id = row.id => OpensOnly(toCli'[conn], row.id))
        BY <1>1, <1>2, <1>3, <2>3, <3>5, OpensStayTaken, Zenon
      <3>7. BegunInv'
        BY <1>2, <1>3, <2>3, <3>3, <3>4, <3>6, Zenon DEF BegunInv
      <3> QED BY <3>1, <3>2, <3>3, <3>6, <3>7
    <2>4. CASE /\ f.kind = "open" /\ shell # NoShell /\ shell' = [shell EXCEPT !.id = f.id]
               /\ UNCHANGED <<shells, toGateway>>
      <3>1. shell'.id = f.id /\ (f.id = shell.id => shell' = shell)
        BY <2>4, SMT DEF Types, ShellTypes
      <3>2. CASE f.id = shell.id
        BY <2>2, <2>4, <3>1, <3>2
      <3>3. CASE f.id # shell.id
        <4>1. ~Begun
          <5>1. Begun => shell.id = row.id
            BY <1>5, <2>4, Zenon DEF StreamInv, BegunInv, Types, ShellTypes
          <5> QED BY <2>3, <2>4, <3>1, <3>3, <5>1, Zenon
        <4>2. HeldInv'
          BY <2>3, <2>4, <3>1, <3>3, <4>1, NothingYet, Zenon
        <4> QED BY <2>3, <2>4, <3>1, <3>3, <4>2, Zenon DEF StreamInv
      <3> QED BY <3>2, <3>3
    <2>5. CASE /\ f.kind = "open" /\ shell = NoShell
               /\ shells' = shells + 1 /\ shell' = [id |-> f.id, gen |-> shells + 1, out |-> 0]
               /\ toGateway' = toGateway
      <3>1. /\ shell'.id = f.id /\ shell'.gen = shells + 1 /\ shell'.out = 0 /\ shell.id # f.id
            /\ shells \in Nat /\ shells' \in Nat /\ shells <= shells'
        <4>1. shells \in Nat /\ shell'.id = f.id /\ shell'.gen = shells + 1 /\ shell'.out = 0
          BY <2>5, StreamTypes, SMT
        <4>2. shell.id # f.id
          BY <2>5, DownFields, Constants, SMT DEF NoShell
        <4> QED BY <2>5, <4>1, <4>2, SMT
      <3>2. \A n \in Upcoming' : n \in Nat \X Nat /\ n[1] > shells /\ n[2] = 1
        BY <3>1, SMT DEF Upcoming
      <3>3. ASSUME NEW s \in Seq(Chunk), NEW k \in BOOLEAN
            PROVE  /\ Runs(s, Outs, Upcoming, shells, k) => Runs(s, Outs', Upcoming', shells', k)
                   /\ Ordered(Outs, Upcoming, shells, k) => Ordered(Outs', Upcoming', shells', k)
        <4>1. Outs' = Outs /\ Outs \subseteq Chunk
          BY <2>3, <2>5, <3>1, StreamTypes, Zenon
        <4> QED BY <3>1, <3>2, <4>1, RunsOn, Zenon
      <3>4. <<>> \in Seq(Chunk)
        OBVIOUS
      <3>5. HeldInv'
        BY <1>2, <1>5, <2>1, <3>3, <3>4, HeldStays, Zenon DEF StreamInv
      <3> QED BY <2>3, <2>5, <3>1, <3>5, Zenon DEF StreamInv
    <2> QED BY <1>1, <2>2, <2>4, <2>5, Zenon
  <1> QED BY <1>4, <1>5

LEMMA WriteStream ==
  ASSUME Types, Types', IdsInv, ConnInv, StreamInv, Write
  PROVE  StreamInv'
  <1> DEFINE u == <<shell.gen, shell.out + 1>>
             fr == [kind |-> "output", id |-> shell.id, chunk |-> u]
  <1>1. /\ conn \in Conns /\ shell # NoShell /\ shell.gen \in 1 .. shells /\ u \in Chunk
        /\ <<fr>> \in Seq(UpFrames) /\ Says(<<fr>>)
        /\ UNCHANGED <<view, seen, buffer, row, pending, slept, socket, conn, toCli, shells>>
    BY ShellSpeaks, Zenon DEF Write, windows, relay, links
  <1>2. /\ shell'.id = shell.id /\ shell'.gen = shell.gen /\ shell'.out = shell.out + 1
        /\ fr.kind = "output" /\ fr.id = shell.id /\ fr.chunk = u
        /\ u[1] = shell.gen /\ u[2] = shell.out + 1
    BY SMT DEF Write, Types, ShellTypes
  <1>3. /\ toGateway'[conn] = toGateway[conn] \o <<fr>> /\ In(<<fr>>) = {fr}
        /\ \A d \in Conns : d # conn => toGateway'[d] = toGateway[d]
        /\ Executor' = Executor /\ Executor \subseteq Conns /\ toGateway[conn] \in Seq(UpFrames)
    <2>1. FrameTypes
      BY Zenon DEF Types
    <2>2. /\ toGateway'[conn] = toGateway[conn] \o <<fr>>
          /\ \A d \in Conns : d # conn => toGateway'[d] = toGateway[d]
      BY <1>1, <2>1, Said, Zenon
    <2>3. Executor' = Executor
      BY <1>1, SameExecutor, Zenon
    <2> HIDE DEF fr
    <2> QED BY <1>1, <2>1, <2>2, <2>3, InFew DEF Executor, FrameTypes
  <1> HIDE DEF fr, u
  <1>4. CASE row.id = Nobody
    BY <1>1, <1>4, NoStream, Zenon DEF StreamInv
  <1>5. CASE row.id # Nobody /\ shell.id # row.id
    <2>1. \A f \in In(<<fr>>) : ~IsOut(f, row.id)
      BY <1>2, <1>3, <1>5, Zenon DEF IsOut
    <2>2. OutputStays
      BY <1>1, <1>2, <1>3, <1>5, <2>1, Zenon DEF OutputStays
    <2> QED BY <1>1, <1>5, <2>2, ReplaysSame, StreamStays, Zenon
  <1>6. CASE row.id # Nobody /\ shell.id = row.id
    <2>1. ReplaysStay /\ KeptReplays' = KeptReplays /\ Shown' = Shown
      BY <1>1, <1>6, ReplaysSame, Zenon
    <2>2. Upcoming = {u} /\ Upcoming' = {<<u[1], u[2] + 1>>}
      <3>1. Upcoming = {<<shell.gen, shell.out + 1>>}
        BY <1>6, Zenon DEF Upcoming
      <3>2. Upcoming' = {<<shell'.gen, shell'.out + 1>>}
        BY <1>1, <1>2, <1>6, Zenon DEF Upcoming
      <3> QED BY <1>2, <3>1, <3>2, Zenon DEF u
    <2>3. conn \in Executor
      BY <1>1, OwnConn, Zenon DEF ConnInv, Types
    <2>4. /\ OutputOf(conn)' = OutputOf(conn) \cup {fr}
          /\ \A d \in Conns : d # conn => OutputOf(d)' = OutputOf(d)
      <3>1. In(toGateway'[conn]) = In(toGateway[conn]) \cup {fr}
        <4>1. In(toGateway[conn] \o <<fr>>) = In(toGateway[conn]) \cup In(<<fr>>)
          <5> DEFINE p == <<fr>>
          <5>1. p \in Seq(UpFrames) /\ toGateway[conn] \in Seq(UpFrames)
            BY <1>1, <1>3
          <5> HIDE DEF p
          <5>2. In(toGateway[conn] \o p) = In(toGateway[conn]) \cup In(p)
            BY <5>1, InConcat, Zenon
          <5> QED BY <5>2 DEF p
        <4> QED BY <1>3, <4>1, Zenon
      <3>2. OutputOf(conn)' = {f \in In(toGateway'[conn]) : IsOut(f, row.id)}
        BY <1>1, Zenon DEF OutputOf
      <3>3. IsOut(fr, row.id)
        BY <1>2, <1>6, Zenon DEF IsOut
      <3>4. \A d \in Conns : d # conn => OutputOf(d)' = OutputOf(d)
        BY <1>1, <1>3, Zenon DEF OutputOf
      <3> QED BY <3>1, <3>2, <3>3, <3>4, Zenon DEF OutputOf
    <2>5. Outs' = Outs \cup {u}
      <3>1. \A x : x \in Outs <=> \E d \in Conns : \E f \in OutputOf(d) : x = f.chunk
        BY Zenon DEF Outs
      <3>2. \A x : x \in Outs' <=> \E d \in Conns : \E f \in OutputOf(d)' : x = f.chunk
        BY Zenon DEF Outs
      <3>3. \A x : x \in Outs' <=> x \in Outs \/ x = u
        <4>1. \A d \in Conns : OutputOf(d) \subseteq OutputOf(d)' /\ OutputOf(d)' \subseteq OutputOf(d) \cup {fr}
          <5> SUFFICES ASSUME NEW d \in Conns
                       PROVE  OutputOf(d) \subseteq OutputOf(d)' /\ OutputOf(d)' \subseteq OutputOf(d) \cup {fr}
            OBVIOUS
          <5>1. CASE d = conn
            BY <1>1, <2>4, <5>1, Zenon
          <5>2. CASE d # conn
            BY <2>4, <5>2, Zenon
          <5> QED BY <5>1, <5>2
        <4>2. fr \in OutputOf(conn)'
          BY <2>4, Zenon
        <4>3. u \in Outs'
          BY <1>1, <1>2, <3>2, <4>2, Zenon
        <4>4. ASSUME NEW x \in Outs PROVE x \in Outs'
          BY <3>1, <3>2, <4>1, <4>4, Zenon
        <4>5. ASSUME NEW x \in Outs' PROVE x \in Outs \/ x = u
          <5>1. PICK d \in Conns : \E f \in OutputOf(d)' : x = f.chunk
            BY <3>2, <4>5, Zenon
          <5>2. PICK f \in OutputOf(d)' : x = f.chunk
            BY <5>1, Zenon
          <5>3. f \in OutputOf(d) \/ f = fr
            BY <4>1, <5>2, Zenon
          <5> QED BY <1>2, <3>1, <5>2, <5>3, Zenon
        <4> QED BY <4>3, <4>4, <4>5, Zenon
      <3> QED BY <3>3, Zenon
    <2>6. \A o \in Outs : Later(o, u)
      BY <1>6, <2>2, Zenon DEF StreamInv, HeldInv, Ordered
    <2>7. QueueInv'
      <3>1. \A g \in In(toGateway[conn]), f \in In(<<fr>>) :
              IsOut(g, row.id) /\ IsOut(f, row.id) => Later(g.chunk, f.chunk)
        <4> SUFFICES ASSUME NEW g \in In(toGateway[conn]), IsOut(g, row.id) PROVE Later(g.chunk, u)
          BY <1>2, <1>3, Zenon
        <4>1. g \in OutputOf(conn)
          BY Zenon DEF OutputOf
        <4>2. g.chunk \in Outs
          BY <1>1, <4>1, Zenon DEF Outs
        <4> QED BY <2>6, <4>2
      <3>2. Increasing(toGateway'[conn], row.id)
        <4>1. Increasing(toGateway[conn], row.id) /\ Increasing(<<fr>>, row.id)
          BY <1>1, <1>6, IncreasingFew, Zenon DEF StreamInv, QueueInv
        <4>2. Increasing(toGateway[conn] \o <<fr>>, row.id)
          BY <1>1, <1>3, <3>1, <4>1, IncreasingSaid
        <4> QED BY <1>3, <4>2, Zenon
      <3> QED BY <1>1, <1>3, <1>6, <2>3, <2>4, <3>2, Zenon DEF StreamInv, QueueInv
    <2>8. ASSUME NEW s \in Seq(Chunk), NEW k \in BOOLEAN
          PROVE  /\ Runs(s, Outs, Upcoming, shells, k) => Runs(s, Outs', Upcoming', shells', k)
                 /\ Ordered(Outs, Upcoming, shells, k) => Ordered(Outs', Upcoming', shells', k)
      <3>1. Outs \subseteq Chunk /\ shells \in Nat
        BY StreamTypes, Zenon
      <3>2. u[1] <= shells
        BY <1>1, <1>2, <3>1, SMT
      <3>3. /\ Runs(s, Outs, {u}, shells, k) => Runs(s, Outs \cup {u}, {<<u[1], u[2] + 1>>}, shells, k)
            /\ Ordered(Outs, {u}, shells, k) => Ordered(Outs \cup {u}, {<<u[1], u[2] + 1>>}, shells, k)
        BY <1>1, <3>1, <3>2, RunsLonger, Zenon
      <3> QED BY <1>1, <2>2, <2>5, <3>3, Zenon
    <2>9. HeldInv'
      <3>1. <<>> \in Seq(Chunk)
        OBVIOUS
      <3> QED BY <1>1, <1>6, <2>1, <2>8, <3>1, HeldStays, Zenon DEF StreamInv
    <2>10. SeenInv'
      BY <1>1, <1>6, SeenStays, Zenon DEF StreamInv
    <2>11. BegunInv'
      BY <1>1, <1>2, <1>3, <1>6, Zenon DEF StreamInv, BegunInv
    <2> QED BY <2>7, <2>9, <2>10, <2>11, Zenon DEF StreamInv
  <1> QED BY <1>4, <1>5, <1>6

----------------------------------------------------------------------------
(* What a screen shows *)

LEMMA InitStream == Init => StreamInv
  <1> SUFFICES ASSUME Init PROVE StreamInv
    OBVIOUS
  <1>1. row.id = Nobody /\ \A v \in Viewers : seen[v] = <<>>
    BY SMT DEF Init, NoSession
  <1>2. SeenInv
    BY <1>1, EmptyRuns, Zenon DEF SeenInv
  <1> QED BY <1>1, <1>2, Zenon DEF StreamInv, QueueInv, HeldInv, BegunInv

LEMMA StreamSame ==
  ASSUME StreamInv, UNCHANGED <<view, seen, buffer, row, pending, socket, toCli, toGateway, shell, shells, slept>>
  PROVE  StreamInv'
  <1>2. Executor' = Executor /\ Live' = Live /\ Shown' = Shown /\ Upcoming' = Upcoming
    BY SameExecutor, Zenon DEF Live, Shown, Upcoming
  <1>3. KeptReplays' = KeptReplays
    BY <1>2, Zenon DEF KeptReplays, Merged, Flushed
  <1>4. \A c \in Conns : OutputOf(c)' = OutputOf(c)
    BY Zenon DEF OutputOf
  <1>5. Outs' = Outs
    BY <1>4, Zenon DEF Outs
  <1>6. QueueInv'
    BY <1>2, <1>4, Zenon DEF QueueInv, StreamInv
  <1>7. HeldInv'
    BY <1>2, <1>3, <1>5, Zenon DEF HeldInv, StreamInv
  <1>8. BegunInv'
    <2>1. Begun' = Begun
      BY <1>2, <1>3, <1>5 DEF Begun
    <2> QED BY <1>2, <2>1, Zenon DEF BegunInv, StreamInv
  <1>9. SeenInv'
    BY Zenon DEF SeenInv, StreamInv
  <1> QED BY <1>6, <1>7, <1>8, <1>9, Zenon DEF StreamInv

LEMMA StreamStep == Types /\ ShownInv /\ StreamInv /\ Types' /\ Next /\ ~Overtakes => StreamInv'
  <1> SUFFICES ASSUME Types, IdsInv, FreshInv, ConnInv, StreamInv, Types', Next, ~Overtakes PROVE StreamInv'
    BY Zenon DEF ShownInv
  <1>1. ASSUME NEW v \in Viewers,
               Accept(v) \/ Leave(v) \/ CloseSeen(v) \/ NoExecutor(v) \/ Input(v) \/ CloseShell(v)
        PROVE  StreamInv'
    BY <1>1, AcceptedStream, WindowStream, Zenon
  <1>2. ASSUME NEW c \in Conns, Receive(c) \/ Dial(c) \/ Hello(c) \/ SocketEnds(c) \/ DropFinishes(c)
        PROVE  StreamInv'
    BY <1>2, ReceiveStream, LinkStream, Zenon
  <1>3. CASE CloseTarget \/ Ages \/ Expire \/ Hibernate \/ Evict
    BY <1>3, ObjectStream, Zenon
  <1>4. CASE ConnectionEnds \/ Exit \/ \E id \in Viewers : KilledExits(id)
    BY <1>4, EndStream, Zenon
  <1>5. CASE Handle \/ Write
    BY <1>5, HandleStream, WriteStream, Zenon
  <1>6. CASE Waits
    BY <1>6, WaitsCases, StreamSame, Zenon
  <1> QED BY <1>1, <1>2, <1>3, <1>4, <1>5, <1>6, Zenon DEF Next

LEMMA StreamInvariant == Spec => [](crossed \/ StreamInv)
  <1>1. Init => StreamInv
    BY InitStream
  <1>2. ASSUME crossed \/ StreamInv, Types, ShownInv, Types', [Next]_vars
        PROVE  crossed' \/ StreamInv'
    <2>1. CASE Next
      <3>1. crossed' \/ (~crossed /\ ~Overtakes)
        BY <1>2, <2>1, GateTypesStep, Zenon
      <3> QED BY <1>2, <2>1, <3>1, StreamStep, Zenon
    <2>2. CASE UNCHANGED vars
      <3>1. UNCHANGED <<view, seen, buffer, row, pending, socket, toCli, toGateway, shell, shells, slept, crossed>>
        BY <2>2, Zenon DEF vars, windows, relay, links, frames, cli, gate
      <3> QED BY <1>2, <3>1, StreamSame, Zenon
    <2> QED BY <1>2, <2>1, <2>2, Zenon
  <1>3. (crossed \/ StreamInv) /\ (Types /\ ShownInv) /\ (Types /\ ShownInv)' /\ [Next]_vars
          => crossed' \/ StreamInv'
    BY <1>2, Zenon
  <1> QED BY <1>1, <1>3, TerminalInvariant, PTL DEF Spec

\* Between one window and the next, over what is stored, queued and sent, a
\* screen shows every chunk once and in order, and one is missing only where
\* the object lost its memory (relay-do-terminal-sessions.ts:85, :206), for as
\* long as the machine has handled no frame before an older one of another
\* session (connection.rs:1891).
THEOREM ScreensUnbroken == Spec => [](crossed \/ OutputUnbroken)
  <1>1. Types /\ StreamInv => crossed \/ OutputUnbroken
    <2> SUFFICES ASSUME Types, SeenInv, ~crossed, NEW v \in Viewers, NEW i \in 1 .. Len(seen[v]) - 1
                 PROVE  LET a == seen[v][i]
                            b == seen[v][i + 1]
                        IN  \/ b[1] = a[1] /\ (IF slept THEN b[2] > a[2] ELSE b[2] = a[2] + 1)
                            \/ b[1] > a[1] /\ (slept \/ b[2] = 1)
      <3>1. ~crossed => (slept \/ crossed <=> slept)
        OBVIOUS
      <3> QED BY <3>1, Zenon DEF StreamInv, OutputUnbroken
    <2> DEFINE a == seen[v][i]
               b == seen[v][i + 1]
    <2>1. a \in Chunk /\ b \in Chunk
      BY SMT DEF Types, WindowTypes
    <2>2. Later(a, b) /\ (slept \/ Follows(b, {a}))
      BY Zenon DEF SeenInv, Chain, Comes
    <2> HIDE DEF a, b
    <2>3. /\ a[1] \in Nat /\ a[2] \in Nat \ {0} /\ b[1] \in Nat /\ b[2] \in Nat \ {0}
          /\ a = <<a[1], a[2]>>
      BY <2>1, ChunkPlace
    <2>4. slept \/ b[2] = 1 \/ (b[1] = a[1] /\ b[2] - 1 = a[2])
      <3>1. <<b[1], b[2] - 1>> = a => b[1] = a[1] /\ b[2] - 1 = a[2]
        BY <2>3
      <3> QED BY <2>2, <3>1 DEF Follows
    <2>5. b[1] > a[1] \/ (b[1] = a[1] /\ b[2] > a[2])
      BY <2>2, Zenon DEF Later
    <2>6. slept \in BOOLEAN
      BY DEF Types, ClockTypes
    <2>7. \/ b[1] = a[1] /\ (IF slept THEN b[2] > a[2] ELSE b[2] = a[2] + 1)
          \/ b[1] > a[1] /\ (slept \/ b[2] = 1)
      BY <2>3, <2>4, <2>5, <2>6, SMT
    <2> QED BY <2>7 DEF a, b
  <1> QED BY <1>1, TerminalInvariant, StreamInvariant, PTL

=============================================================================
