---------------------------- MODULE WatchProofs ----------------------------
(***************************************************************************)
(* What LayeredWatch proves for any texts, queries, chats, page sizes and  *)
(* intervals, wherever a collector raises and whenever the process dies:   *)
(* cursors stay behind the rows, and no row the watch takes for known has  *)
(* fallen out of the pending batch.                                        *)
(***************************************************************************)
EXTENDS LayeredWatch, TLAPS

USE CollectorsAssumption, WatchAssumption DEF CollectorsAssumption, WatchAssumption

\* The relevant posts of a stream up to the n-th have their rows: of a query those
\* that fit on one page.
Covered(s, n) ==
  \A i \in 1..n : (s \in ToSet(Chats) \/ i + MaxResults > n) /\ posts[s][i] \in Relevant
                    => rows[posts[s][i]] # "none"

Types ==
  /\ posts \in [Stream -> Seq(Text)]
  /\ rows \in [Text -> {"none", "new", "seen"}]
  /\ cursor \in [Stream -> Nat] /\ since \in [Stream -> Nat]
  /\ \A s \in Stream : cursor[s] <= Len(posts[s]) /\ since[s] <= Len(posts[s])
  /\ pending \in [Text -> Nat]

\* A collector works through its own streams.
Visiting ==
  /\ child = "x" => left \in Seq(ToSet(Queries))
  /\ child = "telegram" => left \in Seq(ToSet(Chats))

\* Both the state files and what the X collector is about to write there.
Behind == \A s \in Stream : Covered(s, cursor[s]) /\ (child = "x" => Covered(s, since[s]))

Inv == Types /\ Visiting /\ Behind /\ KnownAccounted

-----------------------------------------------------------------------------
(* Collectors *)

\* What posting and collecting do to the posts and rows: neither is taken back,
\* and no row is taken for known.
Grows ==
  /\ posts' \in [Stream -> Seq(Text)]
  /\ \A s \in Stream : /\ Len(posts'[s]) >= Len(posts[s])
                       /\ \A i \in 1..Len(posts[s]) : posts'[s][i] = posts[s][i]
  /\ rows' \in [Text -> {"none", "new", "seen"}]
  /\ \A t \in Text : /\ rows[t] # "none" => rows'[t] # "none"
                     /\ rows'[t] = "seen" => rows[t] = "seen"

\* Nothing that was covered is uncovered.
LEMMA StaysCovered ==
  ASSUME Types, Grows, NEW s \in Stream, NEW n \in Nat, n <= Len(posts[s]), Covered(s, n)
  PROVE  Covered(s, n)'
<1> SUFFICES ASSUME NEW i \in 1..n, s \in ToSet(Chats) \/ i + MaxResults > n,
                    posts'[s][i] \in Relevant
             PROVE  rows'[posts'[s][i]] # "none"
  BY DEF Covered
<1>1. Len(posts[s]) \in Nat /\ posts[s] \in Seq(Text)
  BY DEF Types
<1>2. i \in 1..Len(posts[s])
  BY <1>1
<1>3. posts'[s][i] = posts[s][i] /\ posts[s][i] \in Text
  BY <1>1, <1>2 DEF Grows
<1>4. rows[posts[s][i]] # "none"
  BY <1>3 DEF Covered
<1> QED
  BY <1>3, <1>4 DEF Grows

\* Saving texts grows the rows.
LEMMA SaveGrows ==
  ASSUME Types, NEW texts, Save(texts), UNCHANGED posts
  PROVE  Grows /\ \A t \in Text : t \in texts => rows'[t] # "none"
BY DEF Types, Save, Grows

\* What is not of the collectors stays; the child's cursors are checked per step.
LEMMA GrowsInv ==
  ASSUME Inv, Grows, UNCHANGED process,
         cursor' \in [Stream -> Nat], since' \in [Stream -> Nat],
         \A s \in Stream : cursor'[s] <= Len(posts'[s]) /\ since'[s] <= Len(posts'[s]),
         Visiting', Behind'
  PROVE  Inv'
<1>1. Types'
  BY DEF Inv, Types, Grows, process
<1>2. KnownAccounted'
  BY DEF Inv, KnownAccounted, Grows, process
<1> QED
  BY <1>1, <1>2 DEF Inv

LEMMA PostGrows == ASSUME Types, NEW s \in Stream, Post(s) PROVE Grows
<1>1. PICK t \in Text : posts' = [posts EXCEPT ![s] = Append(posts[s], t)]
  BY DEF Post
<1>2. posts[s] \in Seq(Text)
  BY DEF Types
<1>3. /\ Append(posts[s], t) \in Seq(Text) /\ Len(Append(posts[s], t)) >= Len(posts[s])
      /\ \A i \in 1..Len(posts[s]) : Append(posts[s], t)[i] = posts[s][i]
  BY <1>2
<1>4. \A u \in Stream : Len(posts[u]) \in Nat
  BY DEF Types
<1>5. rows' = rows
  BY DEF Post
<1> QED
  BY <1>1, <1>3, <1>4, <1>5 DEF Types, Grows

LEMMA PostInv == ASSUME Inv, NEW s \in Stream, Post(s), UNCHANGED process PROVE Inv'
<1>1. Grows /\ UNCHANGED <<cursor, since, child, left>>
  BY PostGrows DEF Inv, Post
<1>2. \A u \in Stream : /\ cursor[u] \in Nat /\ since[u] \in Nat /\ Len(posts[u]) \in Nat
                        /\ Len(posts'[u]) \in Nat /\ Len(posts'[u]) >= Len(posts[u])
                        /\ cursor[u] <= Len(posts[u]) /\ since[u] <= Len(posts[u])
  BY <1>1 DEF Inv, Types, Grows
<1>3. Behind'
  <2> SUFFICES ASSUME NEW u \in Stream
               PROVE  Covered(u, cursor[u])' /\ (child' = "x" => Covered(u, since[u])')
    BY DEF Behind
  <2>1. Covered(u, cursor[u]) /\ (child = "x" => Covered(u, since[u]))
    BY DEF Inv, Behind
  <2>2. ASSUME NEW n \in Nat, n <= Len(posts[u]), Covered(u, n) PROVE Covered(u, n)'
    BY <1>1, <2>2, StaysCovered DEF Inv
  <2> QED
    BY <1>1, <1>2, <2>1, <2>2 DEF Covered
<1>4. Visiting'
  BY <1>1 DEF Inv, Visiting
<1>5. /\ cursor' \in [Stream -> Nat] /\ since' \in [Stream -> Nat]
      /\ \A u \in Stream : cursor'[u] <= Len(posts'[u]) /\ since'[u] <= Len(posts'[u])
  BY <1>1, <1>2 DEF Inv, Types
<1> QED
  BY <1>1, <1>3, <1>4, <1>5, GrowsInv

\* Where the cursors do not move, saving keeps Inv.
LEMMA SavesInv ==
  ASSUME Inv, Grows, UNCHANGED <<posts, cursor, process>>, Visiting',
         since' = since \/ child' # "x", since' \in [Stream -> Nat],
         \A s \in Stream : since'[s] <= Len(posts[s]),
         child' = "x" => child = "x"
  PROVE  Inv'
<1>1. \A s \in Stream : /\ cursor[s] \in Nat /\ cursor[s] <= Len(posts[s])
                        /\ since[s] \in Nat /\ since[s] <= Len(posts[s])
  BY DEF Inv, Types
<1>2. ASSUME NEW s \in Stream, NEW n \in Nat, n <= Len(posts[s]), Covered(s, n) PROVE Covered(s, n)'
  BY <1>2, StaysCovered DEF Inv
<1>3. Behind'
  <2> SUFFICES ASSUME NEW s \in Stream
               PROVE  Covered(s, cursor[s])' /\ (child' = "x" => Covered(s, since[s])')
    BY DEF Behind
  <2>1. Covered(s, cursor[s])'
    BY <1>1, <1>2 DEF Inv, Behind, Covered
  <2>2. child' = "x" => Covered(s, since[s])'
    BY <1>1, <1>2 DEF Inv, Behind, Covered
  <2> QED
    BY <2>1, <2>2
<1>4. /\ cursor' \in [Stream -> Nat]
      /\ \A s \in Stream : cursor'[s] <= Len(posts'[s]) /\ since'[s] <= Len(posts'[s])
  BY <1>1 DEF Inv, Types
<1> QED
  BY <1>3, <1>4, GrowsInv

\* A query that succeeds covers what its page showed; one that raises moves nothing.
LEMMA XQueryInv == ASSUME Inv, XQuery, UNCHANGED process PROVE Inv'
<1>0. left \in Seq(ToSet(Queries)) /\ left # <<>>
  BY DEF Inv, Visiting, XQuery
<1>q. PICK q \in ToSet(Queries) : q = Head(left)
  BY <1>0
<1>1. /\ child = "x" /\ UNCHANGED posts
      /\ q \in Stream /\ q \notin ToSet(Chats)
      /\ Tail(left) \in Seq(ToSet(Queries))
  BY <1>0 DEF XQuery, Stream
<1>2. posts[q] \in Seq(Text) /\ Len(posts[q]) \in Nat /\ since[q] \in Nat /\ cursor[q] \in Nat
  BY <1>1 DEF Inv, Types
<1>3. CASE /\ Save(Texts(q, PageOf(q)))
           /\ since' = [since EXCEPT ![q] = IF PageOf(q) = {} THEN since[q] ELSE Len(posts[q])]
           /\ left' = Tail(left) /\ UNCHANGED <<child, cursor>>
  <2>1. Grows /\ \A t \in Text : t \in Texts(q, PageOf(q)) => rows'[t] # "none"
    BY <1>1, <1>3, SaveGrows DEF Inv
  <2>2. Visiting'
    BY <1>1, <1>3 DEF Visiting
  <2>3. /\ since' \in [Stream -> Nat]
        /\ \A s \in Stream : since'[s] = since[s] \/ (s = q /\ since'[s] = Len(posts[q]) /\ PageOf(q) # {})
    BY <1>2, <1>3 DEF Inv, Types
  <2>4. \A s \in Stream : /\ cursor[s] <= Len(posts[s]) /\ cursor[s] \in Nat /\ since[s] \in Nat
                          /\ since[s] <= Len(posts[s]) /\ since'[s] <= Len(posts[s])
    <3>1. \A s \in Stream : /\ cursor[s] <= Len(posts[s]) /\ cursor[s] \in Nat
                            /\ since[s] \in Nat /\ since[s] <= Len(posts[s])
      BY DEF Inv, Types
    <3> QED
      BY <1>2, <2>3, <3>1
  <2>5. ASSUME NEW s \in Stream, NEW n \in Nat, n <= Len(posts[s]), Covered(s, n) PROVE Covered(s, n)'
    BY <2>1, <2>5, StaysCovered DEF Inv
  <2>6. Covered(q, Len(posts[q]))'
    <3> SUFFICES ASSUME NEW i \in 1..Len(posts[q]), i + MaxResults > Len(posts[q]),
                        posts[q][i] \in Relevant
                 PROVE  rows'[posts[q][i]] # "none"
      BY <1>1 DEF Covered
    <3>1. posts[q][i] \in Text
      BY <1>2
    <3>2. CASE i > since[q]
      <4>1. i \in PageOf(q)
        BY <3>2 DEF PageOf
      <4>2. posts[q][i] \in Texts(q, PageOf(q))
        BY <4>1 DEF Texts
      <4> QED
        BY <2>1, <3>1, <4>2
    <3>3. CASE ~(i > since[q])
      <4>1. i \in 1..since[q] /\ i + MaxResults > since[q]
        BY <1>1, <1>2, <2>4, <3>3
      <4>2. rows[posts[q][i]] # "none"
        BY <1>1, <4>1 DEF Inv, Behind, Covered
      <4> QED
        BY <2>1, <3>1, <4>2 DEF Grows
    <3> QED
      BY <3>2, <3>3
  <2>7. Behind'
    <3> SUFFICES ASSUME NEW s \in Stream PROVE Covered(s, cursor[s])' /\ Covered(s, since[s])'
      BY DEF Behind
    <3>1. Covered(s, cursor[s])'
      BY <1>3, <2>4, <2>5 DEF Inv, Behind, Covered
    <3>2. CASE since'[s] = since[s]
      BY <1>1, <3>1, <2>4, <2>5, <3>2 DEF Inv, Behind, Covered
    <3>3. CASE s = q /\ since'[s] = Len(posts[q])
      BY <1>1, <3>1, <2>6, <3>3 DEF Covered
    <3> QED
      BY <2>3, <3>1, <3>2, <3>3
  <2>8. /\ cursor' \in [Stream -> Nat]
        /\ \A s \in Stream : cursor'[s] <= Len(posts'[s]) /\ since'[s] <= Len(posts'[s])
    BY <1>1, <1>3, <2>4 DEF Inv, Types
  <2> QED
    BY <2>1, <2>2, <2>3, <2>7, <2>8, GrowsInv
<1>4. CASE /\ \E stop \in PageOf(q) \cup {Len(posts[q])} : Save(Texts(q, {i \in PageOf(q) : i > stop}))
           /\ child' = "none" /\ left' = <<>> /\ UNCHANGED cursor /\ since' = cursor'
  <2>1. Grows
    BY <1>1, <1>4, SaveGrows DEF Inv
  <2>2. Visiting'
    BY <1>4 DEF Visiting
  <2>3. since' \in [Stream -> Nat] /\ \A s \in Stream : since'[s] <= Len(posts[s])
    BY <1>4 DEF Inv, Types
  <2> QED
    BY <1>1, <1>4, <2>1, <2>2, <2>3, SavesInv
<1> QED
  BY <1>q, <1>3, <1>4 DEF XQuery, StateLost

LEMMA XEndsInv == ASSUME Inv, XEnds, UNCHANGED process PROVE Inv'
<1>1. child = "x" /\ cursor' = since /\ child' = "none" /\ UNCHANGED <<posts, rows, since, left>>
  BY DEF XEnds
<1>2. Types'
  BY <1>1 DEF Inv, Types, process
<1>3. Visiting'
  BY <1>1 DEF Visiting
<1>4. Behind'
  BY <1>1 DEF Inv, Behind, Covered
<1>5. KnownAccounted'
  BY <1>1 DEF Inv, KnownAccounted, process
<1> QED
  BY <1>2, <1>3, <1>4, <1>5 DEF Inv

\* A chat's cursor goes to the last message saved: all before it are saved.
LEMMA TelegramChatInv == ASSUME Inv, TelegramChat, UNCHANGED process PROVE Inv'
<1>0. left \in Seq(ToSet(Chats)) /\ left # <<>>
  BY DEF Inv, Visiting, TelegramChat
<1>c. PICK c \in ToSet(Chats) : c = Head(left)
  BY <1>0
<1>1. /\ child = "telegram" /\ UNCHANGED <<posts, since>>
      /\ c \in Stream /\ Tail(left) \in Seq(ToSet(Chats))
  BY <1>0 DEF TelegramChat, Stream
<1>2. posts[c] \in Seq(Text) /\ Len(posts[c]) \in Nat /\ cursor[c] \in Nat
  BY <1>1 DEF Inv, Types
<1>3. History(c) \in Nat /\ History(c) <= Len(posts[c])
  BY <1>2 DEF History
<1>n. PICK n \in 0..History(c) :
        /\ Advance(c, Persisted(c, n))
        /\ \/ /\ n = History(c)
              /\ Save(Texts(c, Persisted(c, n)))
              /\ left' = Tail(left) /\ UNCHANGED child
           \/ /\ \E m \in {n, n + 1} : m <= History(c) /\ Save(Texts(c, Persisted(c, m)))
              /\ left' = <<>> /\ child' = "none"
  BY <1>c DEF TelegramChat
<1>h. n \in Nat /\ n <= History(c)
  BY <1>3
<1>4. PICK m \in {n, n + 1} :
        /\ m <= History(c) /\ Save(Texts(c, Persisted(c, m)))
        /\ \/ left' = Tail(left) /\ child' = child
           \/ left' = <<>> /\ child' = "none"
  BY <1>n, <1>h
<1>5. n \in Nat /\ m \in Nat /\ n <= Len(posts[c]) /\ n <= m
  BY <1>2, <1>3, <1>h
<1>6. Grows /\ \A t \in Text : t \in Texts(c, Persisted(c, m)) => rows'[t] # "none"
  BY <1>1, <1>4, SaveGrows DEF Inv
<1>7. Visiting'
  BY <1>1, <1>4 DEF Visiting
<1>8. CASE UNCHANGED cursor
  <2>1. since' \in [Stream -> Nat] /\ \A s \in Stream : since'[s] <= Len(posts[s])
    BY <1>1 DEF Inv, Types
  <2>2. child' # "x"
    BY <1>1, <1>4
  <2> QED
    BY <1>1, <1>6, <1>7, <1>8, <2>1, <2>2, SavesInv
<1>9. ASSUME NEW last \in Persisted(c, n), \A i \in Persisted(c, n) : i <= last,
             cursor' = [cursor EXCEPT ![c] = last]
      PROVE  Inv'
  <2>1. last \in Nat /\ last <= n /\ last > cursor[c]
    BY <1>5 DEF Persisted
  <2>2. /\ cursor' \in [Stream -> Nat]
        /\ \A s \in Stream : cursor'[s] = cursor[s] \/ (s = c /\ cursor'[s] = last)
    BY <1>9, <2>1 DEF Inv, Types
  <2>3. \A s \in Stream : cursor[s] \in Nat /\ cursor[s] <= Len(posts[s]) /\ cursor'[s] <= Len(posts[s])
    <3>1. \A s \in Stream : cursor[s] \in Nat /\ cursor[s] <= Len(posts[s])
      BY DEF Inv, Types
    <3> QED
      BY <1>2, <1>5, <2>1, <2>2, <3>1
  <2>4. Covered(c, last)'
    <3> SUFFICES ASSUME NEW i \in 1..last, posts[c][i] \in Relevant
                 PROVE  rows'[posts[c][i]] # "none"
      BY <1>1 DEF Covered
    <3>1. i \in 1..Len(posts[c]) /\ i \in Nat
      BY <1>2, <1>5, <2>1
    <3>2. posts[c][i] \in Text
      BY <1>2, <3>1
    <3>3. CASE i > cursor[c]
      <4>1. i \in 1..m
        BY <1>5, <2>1
      <4>2. i \in Persisted(c, m)
        BY <3>3, <4>1 DEF Persisted
      <4>3. posts[c][i] \in Texts(c, Persisted(c, m))
        BY <4>2 DEF Texts
      <4> QED
        BY <1>6, <3>2, <4>3
    <3>4. CASE ~(i > cursor[c])
      <4>1. i \in 1..cursor[c]
        BY <1>2, <3>1, <3>4
      <4>2. rows[posts[c][i]] # "none"
        BY <1>1, <4>1 DEF Inv, Behind, Covered
      <4> QED
        BY <1>6, <3>2, <4>2 DEF Grows
    <3> QED
      BY <3>3, <3>4
  <2>5. ASSUME NEW s \in Stream, Covered(s, cursor[s]) PROVE Covered(s, cursor[s])'
    <3>1. CASE cursor'[s] = cursor[s]
      <4>1. ASSUME NEW k \in Nat, k <= Len(posts[s]), Covered(s, k) PROVE Covered(s, k)'
        BY <1>6, <4>1, StaysCovered DEF Inv
      <4> QED
        BY <2>3, <2>5, <3>1, <4>1 DEF Covered
    <3>2. CASE s = c /\ cursor'[s] = last
      BY <2>4, <3>2 DEF Covered
    <3> QED
      BY <2>2, <3>1, <3>2
  <2>6. Behind'
    BY <1>1, <1>4, <2>5 DEF Inv, Behind
  <2>7. /\ since' \in [Stream -> Nat]
        /\ \A s \in Stream : cursor'[s] <= Len(posts'[s]) /\ since'[s] <= Len(posts'[s])
    BY <1>1, <2>3 DEF Inv, Types
  <2> QED
    BY <1>6, <1>7, <2>2, <2>6, <2>7, GrowsInv
<1> QED
  BY <1>n, <1>8, <1>9 DEF Advance

LEMMA OtherChildInv ==
  ASSUME Inv, TelegramSkips \/ TelegramEnds \/ PublicSearch \/ Hydrate, UNCHANGED process
  PROVE  Inv'
<1>1. Grows
  <2>1. ASSUME UNCHANGED <<posts, rows>> PROVE Grows
    <3>1. \A s \in Stream : Len(posts[s]) \in Nat
      BY DEF Inv, Types
    <3> QED
      BY <2>1, <3>1 DEF Inv, Types, Grows
  <2>2. ASSUME NEW texts, Save(texts), UNCHANGED posts PROVE Grows
    BY <2>2, SaveGrows DEF Inv
  <2> QED
    BY <2>1, <2>2 DEF TelegramSkips, TelegramEnds, PublicSearch, Hydrate
<1>2. Visiting'
  <2>1. CASE TelegramSkips
    <3>1. left \in Seq(ToSet(Chats)) /\ left # <<>>
      BY <2>1 DEF Inv, Visiting, TelegramSkips
    <3>2. Tail(left) \in Seq(ToSet(Chats))
      BY <3>1
    <3> QED
      BY <2>1, <3>2 DEF Visiting, TelegramSkips
  <2>2. CASE TelegramEnds \/ PublicSearch \/ Hydrate
    BY <2>2 DEF Visiting, TelegramEnds, PublicSearch, Hydrate
  <2> QED
    BY <2>1, <2>2
<1>3. /\ UNCHANGED <<posts, cursor, since>> /\ child' # "x"
      /\ since' \in [Stream -> Nat] /\ \A s \in Stream : since'[s] <= Len(posts[s])
  BY DEF TelegramSkips, TelegramEnds, PublicSearch, Hydrate, Inv, Types
<1> QED
  BY <1>1, <1>2, <1>3, SavesInv

-----------------------------------------------------------------------------
(* The loop *)

LEMMA LaunchInv == ASSUME Inv, Launch PROVE Inv'
<1>1. /\ since' = cursor /\ UNCHANGED <<posts, rows, cursor, pc, pending, built, start>>
      /\ child' \in Kind
      /\ left' = CASE child' = "x" -> Queries [] child' = "telegram" -> Chats [] OTHER -> <<>>
  BY DEF Launch, Spawn
<1>2. Types' /\ Visiting'
  BY <1>1 DEF Inv, Types, Visiting
<1>3. Behind'
  BY <1>1 DEF Inv, Behind, Covered
<1>4. KnownAccounted'
  BY <1>1 DEF Inv, KnownAccounted
<1> QED
  BY <1>2, <1>3, <1>4 DEF Inv

\* The rows that become known join the batch.
LEMMA ConcludeInv == ASSUME Inv, Conclude PROVE Inv'
<1>1. /\ pending' = [t \in Text |-> IF rows[t] = "new" THEN pending[t] + 1 ELSE pending[t]]
      /\ rows' = [t \in Text |-> IF rows[t] = "new" THEN "seen" ELSE rows[t]]
      /\ UNCHANGED <<posts, cursor, since, child, left, pc, built, start>>
  BY DEF Conclude, Added, Inv, Types
<1>3. Types' /\ Visiting'
  BY <1>1 DEF Inv, Types, Visiting
<1>4. \A t \in Text : rows'[t] = "none" => rows[t] = "none"
  BY <1>1 DEF Inv, Types
<1>5. Behind'
  <2> SUFFICES ASSUME NEW s \in Stream, NEW n \in Nat, n <= Len(posts[s]), Covered(s, n)
               PROVE  Covered(s, n)'
    BY <1>1 DEF Inv, Types, Behind, Covered
  <2>1. posts[s] \in Seq(Text) /\ Len(posts[s]) \in Nat
    BY DEF Inv, Types
  <2>2. \A i \in 1..n : posts[s][i] \in Text
    BY <2>1
  <2> QED
    BY <1>1, <1>4, <2>2 DEF Covered
<1>6. KnownAccounted'
  BY <1>1 DEF Inv, Types, KnownAccounted
<1> QED
  BY <1>3, <1>5, <1>6 DEF Inv

\* A build takes the whole batch.
LEMMA EndTickInv == ASSUME Inv, EndTick PROVE Inv'
<1>1. /\ UNCHANGED <<world, start>> /\ pc' # "dead" /\ pc # "dead"
      /\ \/ UNCHANGED <<pending, built>>
         \/ built' = built \cup {t \in Text : pending[t] > 0} /\ pending' = Nothing
  BY DEF EndTick
<1>2. Types' /\ Visiting' /\ Behind'
  BY <1>1 DEF Inv, Types, Visiting, Behind, Covered, world, Nothing
<1>3. KnownAccounted'
  BY <1>1 DEF Inv, KnownAccounted, world
<1> QED
  BY <1>2, <1>3 DEF Inv

LEMMA DieInv == ASSUME Inv, Die PROVE Inv'
<1>1. /\ UNCHANGED <<posts, rows, cursor>> /\ pc' = "dead" /\ child' = "none"
      /\ since' = cursor /\ pending' = Nothing
  BY DEF Die
<1>2. Types' /\ Visiting' /\ Behind'
  BY <1>1 DEF Inv, Types, Visiting, Behind, Covered, Nothing
<1>3. KnownAccounted'
  BY <1>1 DEF KnownAccounted
<1> QED
  BY <1>2, <1>3 DEF Inv

LEMMA RestartInv == ASSUME Inv, Restart PROVE Inv'
<1>1. /\ rows' = [t \in Text |-> IF rows[t] = "new" THEN "seen" ELSE rows[t]]
      /\ start' = {t \in Text : rows[t] # "none"}
      /\ UNCHANGED <<posts, cursor, since, child, left, pending>>
  BY DEF Restart
<1>2. Types' /\ Visiting'
  BY <1>1 DEF Inv, Types, Visiting
<1>3. \A t \in Text : rows'[t] = "none" => rows[t] = "none"
  BY <1>1 DEF Inv, Types
<1>4. Behind'
  <2> SUFFICES ASSUME NEW s \in Stream, NEW n \in Nat, n <= Len(posts[s]), Covered(s, n)
               PROVE  Covered(s, n)'
    BY <1>1 DEF Inv, Types, Behind, Covered
  <2>1. posts[s] \in Seq(Text) /\ Len(posts[s]) \in Nat
    BY DEF Inv, Types
  <2>2. \A i \in 1..n : posts[s][i] \in Text
    BY <2>1
  <2> QED
    BY <1>1, <1>3, <2>2 DEF Covered
<1>5. KnownAccounted'
  BY <1>1 DEF Inv, Types, KnownAccounted
<1> QED
  BY <1>2, <1>4, <1>5 DEF Inv

\* The other steps touch neither the rows nor the batch.
LEMMA IdleInv == ASSUME Inv, Clock \/ Tick \/ Wake \/ UNCHANGED vars PROVE Inv'
<1>1. UNCHANGED <<world, pending, built, start>> /\ (pc' # "dead" => pc # "dead")
  BY DEF Clock, Tick, Wake, vars, process
<1>2. Types' /\ Visiting' /\ Behind'
  BY <1>1 DEF Inv, Types, Visiting, Behind, Covered, world
<1>3. KnownAccounted'
  BY <1>1 DEF Inv, KnownAccounted, world
<1> QED
  BY <1>2, <1>3 DEF Inv

LEMMA NextInv == ASSUME Inv, [Next]_vars PROVE Inv'
<1>1. CASE Posted
  BY <1>1, PostInv DEF Posted
<1>2. CASE Child
  BY <1>2, XQueryInv, XEndsInv, TelegramChatInv, OtherChildInv DEF Child, ChildStep
<1> QED
  BY <1>1, <1>2, LaunchInv, ConcludeInv, EndTickInv, DieInv, RestartInv, IdleInv DEF Next, Loop

LEMMA InitInv == Init => Inv
<1> SUFFICES ASSUME Init PROVE Inv
  OBVIOUS
<1>1. Types
  BY DEF Init, CollectorsInit, Types, Nothing
<1> QED
  BY <1>1 DEF Init, CollectorsInit, Inv, Visiting, Behind, Covered, KnownAccounted

LEMMA Invariance == Spec => []Inv
<1>1. Inv /\ [Next]_vars => Inv'
  BY NextInv
<1> QED
  BY <1>1, InitInv, PTL DEF Spec

\* No cursor of a state file passes a relevant post whose text is not stored, for
\* any streams and page sizes and wherever a collector raises.
THEOREM CursorsStayBehind == Spec => []CursorsBehindRows
<1>1. Inv => CursorsBehindRows
  <2> SUFFICES ASSUME Inv, NEW s \in Stream, NEW i \in 1..cursor[s],
                      s \in ToSet(Chats) \/ i + MaxResults > cursor[s],
                      posts[s][i] \in Relevant
               PROVE  rows[posts[s][i]] # "none"
    BY DEF CursorsBehindRows
  <2> QED
    BY DEF Inv, Behind, Covered
<1> QED
  BY <1>1, Invariance, PTL

\* A known row was there at the start, is in the batch or has been built.
THEOREM KnownRowsAccounted == Spec => []KnownAccounted
<1>1. Inv => KnownAccounted
  BY DEF Inv
<1> QED
  BY <1>1, Invariance, PTL

-----------------------------------------------------------------------------
(* Types of the loop *)

\* What Types leaves out of TypeOK; a child runs only during a tick.
LoopTypes ==
  /\ child \in Kind \cup {"none"} /\ left \in Seq(Stream)
  /\ pc \in {"tick", "run", "sleep", "dead"}
  /\ agenda \in Seq(Kind \cup {"fast", "slow"})
  /\ ran \in BOOLEAN
  /\ age \in [Layer -> Nat] /\ \A l \in Layer : age[l] <= Interval[l]
  /\ spent \in Nat /\ spent <= Longest
  /\ built \subseteq Text /\ start \subseteq Text
  /\ deaths \in 0..MaxDeaths
  /\ pc # "run" => child = "none"

LEMMA LongestBound ==
  /\ Longest \in Nat /\ \A l \in Layer : Interval[l] <= Longest
  /\ Interval \in [Layer -> Nat]
<1>1. \A l \in Layer : Interval[l] \in Nat
  OBVIOUS
<1>2. \E n \in {Interval[l] : l \in Layer} : \A l \in Layer : Interval[l] <= n
  <2>1. \E m \in Layer : \A l \in Layer : Interval[l] <= Interval[m]
    BY <1>1 DEF Layer
  <2> QED
    BY <2>1
<1> QED
  BY <1>1, <1>2 DEF Longest

LEMMA Empty == <<>> \in Seq(Stream) /\ <<>> \in Seq(Kind \cup {"fast", "slow"})
OBVIOUS

\* A child visits its streams, and ends.
LEMMA ChildTypes == ASSUME LoopTypes, Child PROVE LoopTypes'
<1>1. child' \in {child, "none"} /\ UNCHANGED process /\ pc = "run"
  BY DEF Child, ChildStep, XQuery, XEnds, TelegramChat, TelegramSkips, TelegramEnds,
     PublicSearch, Hydrate
<1>2. left' \in Seq(Stream)
  <2>1. left' = left \/ left' = <<>> \/ (left # <<>> /\ left' = Tail(left))
    BY DEF Child, ChildStep, XQuery, XEnds, TelegramChat, TelegramSkips, TelegramEnds,
       PublicSearch, Hydrate
  <2>2. CASE left # <<>> /\ left' = Tail(left)
    <3>1. left \in Seq(Stream)
      BY DEF LoopTypes
    <3>2. Tail(left) \in Seq(Stream)
      BY <2>2, <3>1
    <3> QED
      BY <2>2, <3>2
  <2>3. CASE left' = left \/ left' = <<>>
    BY <2>3, Empty DEF LoopTypes
  <2> QED
    BY <2>1, <2>2, <2>3
<1> QED
  BY <1>1, <1>2 DEF LoopTypes, process

\* The loop launches a child only when none runs, and concludes a layer or a tick
\* when the child has ended.
LEMMA LoopStepTypes ==
  ASSUME LoopTypes, Tick \/ Launch \/ Conclude \/ EndTick \/ Wake PROVE LoopTypes'
<1>1. CASE Tick
  <2>1. agenda' \in Seq(Kind \cup {"fast", "slow"})
    <3>1. /\ <<"x", "telegram", "fast">> \in Seq(Kind \cup {"fast", "slow"})
          /\ <<"public", "hydration", "slow">> \in Seq(Kind \cup {"fast", "slow"})
          /\ <<>> \in Seq(Kind \cup {"fast", "slow"})
      BY DEF Kind
    <3>2. ASSUME NEW a \in Seq(Kind \cup {"fast", "slow"}), NEW b \in Seq(Kind \cup {"fast", "slow"})
          PROVE  a \o b \in Seq(Kind \cup {"fast", "slow"})
      OBVIOUS
    <3> QED
      BY <1>1, <3>1, <3>2 DEF Tick
  <2> QED
    BY <1>1, <2>1 DEF Tick, LoopTypes, world
<1>2. CASE Launch
  <2>1. Queries \in Seq(Stream) /\ Chats \in Seq(Stream)
    BY DEF Stream
  <2>2. left' \in Seq(Stream) /\ child' \in Kind /\ agenda' \in Seq(Kind \cup {"fast", "slow"})
    BY <1>2, <2>1 DEF Launch, Spawn, LoopTypes
  <2> QED
    BY <1>2, <2>2 DEF Launch, LoopTypes
<1>3. CASE Conclude
  <2>1. agenda # <<>> /\ agenda' = Tail(agenda) /\ Head(agenda) \in Layer
        /\ age' = [age EXCEPT ![Head(agenda)] = IF spent < Interval[Head(agenda)] THEN spent
                                                ELSE Interval[Head(agenda)]]
    BY <1>3 DEF Conclude
  <2>2. agenda' \in Seq(Kind \cup {"fast", "slow"})
    BY <2>1 DEF LoopTypes
  <2>3. age' \in [Layer -> Nat] /\ \A l \in Layer : age'[l] <= Interval[l]
    BY <2>1 DEF LoopTypes
  <2> QED
    BY <1>3, <2>2, <2>3 DEF Conclude, LoopTypes
<1>4. CASE EndTick
  <2>1. age' \in [Layer -> Nat] /\ \A l \in Layer : age'[l] <= Interval[l]
    <3>1. \/ age' = age
          \/ age' = [age EXCEPT !["clue"] = IF spent < Interval["clue"] THEN spent
                                            ELSE Interval["clue"]]
      BY <1>4 DEF EndTick
    <3> QED
      BY <3>1 DEF LoopTypes, Layer
  <2>2. built' \subseteq Text
    BY <1>4 DEF EndTick, LoopTypes
  <2>3. child = "none" /\ child' = child /\ left' = left /\ spent' = 0 /\ ran' = FALSE
        /\ pc' \in {"tick", "sleep"} /\ UNCHANGED <<agenda, start, deaths>>
    BY <1>4 DEF EndTick, Waited, world
  <2>4. 0 <= Longest
    BY LongestBound
  <2> QED
    BY <2>1, <2>2, <2>3, <2>4 DEF LoopTypes
<1>5. CASE Wake
  BY <1>5 DEF Wake, LoopTypes, world
<1> QED
  BY <1>1, <1>2, <1>3, <1>4, <1>5

\* What happens to the loop: posts, time, its end and a new start.
LEMMA OutsideTypes ==
  ASSUME LoopTypes, Posted \/ Clock \/ Die \/ Restart \/ UNCHANGED vars PROVE LoopTypes'
<1>1. CASE Posted
  BY <1>1 DEF Posted, Post, LoopTypes, process
<1>2. CASE Clock
  <2>1. age' \in [Layer -> Nat] /\ \A l \in Layer : age'[l] <= Interval[l]
    BY SMTT(30), <1>2 DEF Clock, LoopTypes, Due
  <2>2. spent' \in Nat /\ spent' <= Longest
    BY <1>2, LongestBound DEF Clock, LoopTypes
  <2> QED
    BY <1>2, <2>1, <2>2 DEF Clock, LoopTypes, world
<1>3. CASE Die
  <2>1. age' \in [Layer -> Nat] /\ \A l \in Layer : age'[l] <= Interval[l]
    BY <1>3, LongestBound DEF Die
  <2>2. spent' \in Nat /\ spent' <= Longest
    BY <1>3, LongestBound DEF Die
  <2>3. deaths' \in 0..MaxDeaths
    BY <1>3 DEF Die, LoopTypes
  <2>4. /\ pc' = "dead" /\ child' = "none" /\ left' = <<>> /\ agenda' = <<>> /\ ran' = FALSE
        /\ UNCHANGED <<built, start>>
    BY <1>3 DEF Die
  <2> QED
    BY <2>1, <2>2, <2>3, <2>4, Empty DEF LoopTypes
<1>4. CASE Restart
  BY <1>4 DEF Restart, LoopTypes
<1>5. CASE UNCHANGED vars
  BY <1>5 DEF vars, world, process, LoopTypes
<1> QED
  BY <1>1, <1>2, <1>3, <1>4, <1>5

\* Type correctness of the watch and of the collectors it runs.
THEOREM WatchTypeCorrect == Spec => []TypeOK
<1>1. Init => LoopTypes
  <2> SUFFICES ASSUME Init PROVE LoopTypes
    OBVIOUS
  <2>1. age \in [Layer -> Nat] /\ \A l \in Layer : age[l] <= Interval[l]
    BY LongestBound DEF Init
  <2>2. spent \in Nat /\ spent <= Longest /\ deaths \in 0..MaxDeaths
    BY LongestBound DEF Init
  <2> QED
    BY <2>1, <2>2, Empty DEF Init, CollectorsInit, LoopTypes
<1>2. LoopTypes /\ [Next]_vars => LoopTypes'
  BY ChildTypes, LoopStepTypes, OutsideTypes DEF Next, Loop
<1>3. Inv /\ LoopTypes => TypeOK
  <2> SUFFICES ASSUME Inv, LoopTypes PROVE TypeOK
    OBVIOUS
  <2>1. CollectorsTypeOK
    BY DEF Inv, Types, LoopTypes, CollectorsTypeOK
  <2>2. \A l \in Layer : age[l] \in 0..Interval[l]
    BY DEF LoopTypes
  <2>3. spent \in 0..Longest
    BY LongestBound DEF LoopTypes
  <2> QED
    BY <2>1, <2>2, <2>3 DEF Inv, Types, LoopTypes, TypeOK
<1> QED
  BY <1>1, <1>2, <1>3, Invariance, PTL DEF Spec

=============================================================================
