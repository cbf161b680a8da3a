----------------------------- MODULE Collectors -----------------------------
(***************************************************************************)
(* The collector scripts the watch runs as child processes, one at a time, *)
(* against one database: scripts/x_recent_search_collector.py,             *)
(* telegram_telethon_collector.py --once, collect_public_sources.py and    *)
(* hydrate_public_search_results.py.                                       *)
(*                                                                         *)
(* raw_records has one row for each text (its hash_id is the hash of the   *)
(* text), and every save gives the row a new trace_id, so that to whoever  *)
(* goes by trace ids a row saved again is a new row.                       *)
(***************************************************************************)
EXTENDS Naturals, Sequences, SequencesExt, Functions

CONSTANTS
  Text,         \* the texts there are
  Relevant,     \* those decide_text_relevance lets through
  Queries,      \* the X queries, in the order of the configuration
  Chats,        \* the Telegram chats, in the order they were joined
  Listed,       \* the texts of search results of public sources
  Page,         \* the text of the page each of those leads to
  MaxResults,   \* tweets on the one page that is asked for
  HistoryLimit, \* messages of a chat that are read
  MaxPosts      \* bound: tweets and messages in one query or chat

Stream == ToSet(Queries) \cup ToSet(Chats)

ASSUME CollectorsAssumption ==
  /\ Relevant \subseteq Text /\ Listed \subseteq Text
  /\ Page \in [Listed -> Text]
  /\ Queries \in Seq(ToSet(Queries)) /\ Chats \in Seq(ToSet(Chats))
  /\ ToSet(Queries) \cap ToSet(Chats) = {}
  /\ MaxResults \in Nat \ {0} /\ HistoryLimit \in Nat /\ MaxPosts \in Nat

VARIABLES
  posts,   \* what each query matches and each chat holds; the index is the id
  rows,    \* raw_records: "none", "new" (its trace id not yet seen) or "seen"
  cursor,  \* the state files: since_id_by_query and last_message_ids
  since,   \* the since_id of the queries in the memory of the X collector
  child,   \* the child that runs, or "none"
  left     \* the queries or chats it has still to visit

world == <<posts, rows, cursor, since, child, left>>

Kind == {"x", "telegram", "public", "hydration"}

CollectorsTypeOK ==
  /\ posts \in [Stream -> Seq(Text)]
  /\ rows \in [Text -> {"none", "new", "seen"}]
  /\ cursor \in [Stream -> Nat] /\ since \in [Stream -> Nat]
  /\ \A s \in Stream : cursor[s] <= Len(posts[s])
  /\ child \in Kind \cup {"none"}
  /\ left \in Seq(Stream)

\* save_raw of the texts of a set, each committed by itself.
Save(texts) == rows' = [t \in Text |-> IF t \in texts THEN "new" ELSE rows[t]]

\* Somebody writes a tweet that matches a query, or a message.
Post(s) ==
  /\ Len(posts[s]) < MaxPosts
  /\ \E t \in Text : posts' = [posts EXCEPT ![s] = Append(@, t)]
  /\ UNCHANGED <<rows, cursor, since, child, left>>

\* run_child: the collector starts and reads its state file.
Spawn(kind) ==
  /\ child = "none"
  /\ child' = kind
  /\ left' = CASE kind = "x" -> Queries [] kind = "telegram" -> Chats [] OTHER -> <<>>
  /\ since' = cursor
  /\ UNCHANGED <<posts, rows, cursor>>

-----------------------------------------------------------------------------
(* X recent search *)

\* The texts of the relevant posts of a stream among some ids.
Texts(s, ids) == {posts[s][i] : i \in ids} \cap Relevant

\* One page: the newest of the tweets after since_id, newest first. What is
\* older and does not fit on it is never asked for.
PageOf(q) ==
  LET n == Len(posts[q]) IN
  {i \in 1..n : i > since[q] /\ i + MaxResults > n}

\* (SavedAnyway is a mutation: a collector that fails keeps its cursors.)
SavedAnyway(q) == cursor' = [cursor EXCEPT ![q] = Len(posts[q])]

\* The state file is written once, at the end of the run: a collector that
\* raises leaves the cursors of the run before.
StateLost(q) == UNCHANGED cursor

\* A query of main: the request raises (page = {}), or the relevant tweets of the
\* page are saved one by one, all of them or until the database raises; what
\* raises ends the collector.
XQuery ==
  /\ child = "x" /\ left # <<>>
  /\ LET q == Head(left) IN
     \/ /\ Save(Texts(q, PageOf(q)))
        /\ since' = [since EXCEPT ![q] = IF PageOf(q) = {} THEN @ ELSE Len(posts[q])]
        /\ left' = Tail(left)
        /\ UNCHANGED <<child, cursor>>
     \/ /\ \E stop \in PageOf(q) \cup {Len(posts[q])} :
             /\ Save(Texts(q, {i \in PageOf(q) : i > stop}))
             /\ child' = "none" /\ left' = <<>>
        /\ StateLost(q) /\ since' = cursor'
  /\ UNCHANGED posts

XEnds ==
  /\ child = "x" /\ left = <<>>
  /\ cursor' = since
  /\ child' = "none"
  /\ UNCHANGED <<posts, rows, since, left>>

-----------------------------------------------------------------------------
(* Telegram, --once *)

\* What persist_message saves of the first n messages iter_messages yields: it
\* yields from the oldest on (reverse=True).
Persisted(c, n) ==
  {i \in 1..n : posts[c][i] \in Relevant /\ i > cursor[c]}

History(c) == IF Len(posts[c]) < HistoryLimit THEN Len(posts[c]) ELSE HistoryLimit

\* update_last_message_id after each saved message: the last of them counts.
Advance(c, ids) ==
  IF ids = {} THEN UNCHANGED cursor
  ELSE \E last \in ids : /\ \A i \in ids : i <= last
                         /\ cursor' = [cursor EXCEPT ![c] = last]

\* The backfill of a chat: each message has its row, and then its cursor in the
\* state file, before the next. It goes through, or the client or the database
\* raises after the first n, when the row of the next may be saved already.
TelegramChat ==
  /\ child = "telegram" /\ left # <<>>
  /\ LET c == Head(left) IN
     \E n \in 0..History(c) :
       /\ Advance(c, Persisted(c, n))
       /\ \/ /\ n = History(c)
             /\ Save(Texts(c, Persisted(c, n)))
             /\ left' = Tail(left) /\ UNCHANGED child
          \/ /\ \E m \in {n, n + 1} : m <= History(c) /\ Save(Texts(c, Persisted(c, m)))
             /\ left' = <<>> /\ child' = "none"
  /\ UNCHANGED <<posts, since>>

\* A chat that cannot be resolved or joined is not tracked.
TelegramSkips ==
  /\ child = "telegram" /\ left # <<>>
  /\ left' = Tail(left)
  /\ UNCHANGED <<posts, rows, cursor, since, child>>

TelegramEnds ==
  /\ child = "telegram" /\ left = <<>>
  /\ child' = "none"
  /\ UNCHANGED <<posts, rows, cursor, since, left>>

-----------------------------------------------------------------------------
(* Public sources *)

\* collect_sources_batch with continue_on_error: any of the sources may fail.
PublicSearch ==
  /\ child = "public"
  /\ \E found \in SUBSET Listed : Save(found)
  /\ child' = "none"
  /\ UNCHANGED <<posts, cursor, since, left>>

\* load_candidates without --only-unhydrated: the page of every search result in
\* the database is fetched, whether it was before or not; one that fails, or that
\* a tail rule marks in its row, is passed over.
Hydrate ==
  /\ child = "hydration"
  /\ \E found \in SUBSET {t \in Listed : rows[t] # "none"} : Save({Page[t] : t \in found})
  /\ child' = "none"
  /\ UNCHANGED <<posts, cursor, since, left>>

-----------------------------------------------------------------------------
CollectorsInit ==
  /\ posts = [s \in Stream |-> <<>>]
  /\ rows = [t \in Text |-> "none"]
  /\ cursor = [s \in Stream |-> 0] /\ since = cursor
  /\ child = "none" /\ left = <<>>

\* A step of the child that runs.
ChildStep ==
  \/ XQuery \/ XEnds
  \/ TelegramChat \/ TelegramSkips \/ TelegramEnds
  \/ PublicSearch \/ Hydrate

\* No cursor in a state file has passed a relevant post without its text having
\* been saved: of a chat any message, of a query the last MaxResults tweets, which
\* fit on one page. Wherever a collector raises or is killed, its next run asks
\* again for what it did not save, as long as that is still on the page.
CursorsBehindRows ==
  \A s \in Stream : \A i \in 1..cursor[s] :
    (s \in ToSet(Chats) \/ i + MaxResults > cursor[s]) /\ posts[s][i] \in Relevant
      => rows[posts[s][i]] # "none"

=============================================================================
