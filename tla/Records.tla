------------------------------ MODULE Records -------------------------------
(***************************************************************************)
(* The archive of analyses, and the lists that a client walks through.  The*)
(* two parts share no variable; each has an Init and a Next of its own.    *)
(***************************************************************************)
EXTENDS Integers, Sequences, FiniteSets, TLC

-----------------------------------------------------------------------------
(***************************************************************************)
(* The archive of analyses (create_analysis_archive), where it is enabled:   *)
(* the source, the full image and the preview of each image are stored       *)
(* first, then the record that names them is written, over one with the same *)
(* identifier.  A video job has one identifier for all its attempts.  An     *)
(* image belongs to the frame with its place in what the caller hands over;  *)
(* an attempt that goes on behind a checkpoint hands over the images of its  *)
(* own part only, but the frames of all.  What is shown of a record takes    *)
(* each preview from the store (public_analysis_archive).                   *)
(***************************************************************************)

CONSTANTS
  Writers,   (* the analyses                                                *)
  Scenes,    (* per writer [id, source, frames: what the frames show,        *)
             (* embedded: the frames of the payload with an image in them,   *)
             (* images: what is handed over beside it, Nil where that is no  *)
             (* image]                                                      *)
  MaxFaults, (* bound on what fails: a put, a write, or a read              *)
  Nil        (* no value                                                    *)

VARIABLES
  calls,   (* what each writer archives                                     *)
  task,    (* what each does: [pc, artifacts, todo]                         *)
  objects, (* the store: <<type, content>>, a name is what it holds         *)
  table,   (* per identifier its record, or Nil                             *)
  shown,   (* per identifier what was shown last                            *)
  left     (* what may still fail                                           *)

archiveVars == <<calls, task, objects, table, shown, left>>

Identifiers == {calls[w].id : w \in Writers}

\* The images that are handed over, each with its place.
Handed(w) == {n \in DOMAIN calls[w].images : calls[w].images[n] # Nil}

\* _payload_images: the images of the payload, each with the place of its frame.
Embedded(w) == [n \in calls[w].embedded |-> calls[w].frames[n]]

\* What is archived: the images of the payload only where none is handed over.
Attached(w) == IF Handed(w) # {} THEN [n \in Handed(w) |-> calls[w].images[n]] ELSE Embedded(w)

ArchiveInit ==
  /\ calls \in Scenes /\ left = MaxFaults /\ objects = {}
  /\ task = [w \in Writers |-> [pc |-> "source", artifacts |-> {}, todo |-> {}]]
  /\ table = [i \in Identifiers |-> Nil] /\ shown = [i \in Identifiers |-> Nil]

Fault == left > 0 /\ left' = left - 1
NoFault == UNCHANGED left
SameReads == UNCHANGED <<calls, table, shown>>
Fails(w) == Fault /\ task' = [task EXCEPT ![w].pc = "failed"] /\ UNCHANGED objects

\* store_analysis_source_file, for those that have one.
StoreSource(w) ==
  /\ task[w].pc = "source" /\ SameReads
  /\ LET s == calls[w].source
     IN \/ /\ NoFault /\ objects' = objects \cup (IF s = Nil THEN {} ELSE {<<"source", s>>})
           /\ task' = [task EXCEPT ![w] = [pc |-> "images", todo |-> DOMAIN Attached(w),
                artifacts |-> IF s = Nil THEN {} ELSE {[role |-> "source", frame |-> 0, holds |-> s]}]]
        \/ s # Nil /\ Fails(w)

\* _store_artifact: the full image, then the preview.
StoreImage(w) ==
  /\ task[w].pc = "images" /\ task[w].todo # {} /\ SameReads
  /\ LET n == CHOOSE n \in task[w].todo : \A k \in task[w].todo : n <= k
         i == Attached(w)[n]
     IN \/ /\ NoFault /\ objects' = objects \cup {<<"image", i>>} /\ task' = [task EXCEPT ![w].pc = "preview"]
        \/ Fails(w)

StorePreview(w) ==
  /\ task[w].pc = "preview" /\ SameReads
  /\ LET n == CHOOSE n \in task[w].todo : \A k \in task[w].todo : n <= k
         i == Attached(w)[n]
     IN \/ /\ NoFault /\ objects' = objects \cup {<<"preview", i>>}
           /\ task' = [task EXCEPT ![w] = [pc |-> "images", todo |-> @.todo \ {n},
                         artifacts |-> @.artifacts \cup {[role |-> "result_image", frame |-> n, holds |-> i]}]]
        \/ Fails(w)

\* persist_analysis_archive: the payload goes in without the images of its frames.
Persist(w) ==
  /\ task[w].pc = "images" /\ task[w].todo = {} /\ UNCHANGED <<calls, objects, shown>>
  /\ \/ /\ NoFault /\ task' = [task EXCEPT ![w].pc = "done"]
        /\ table' = [table EXCEPT ![calls[w].id] = [by |-> w, frames |-> Len(calls[w].frames), artifacts |-> task[w].artifacts]]
     \/ Fault /\ task' = [task EXCEPT ![w].pc = "failed"] /\ UNCHANGED table

\* public_analysis_archive: a preview that cannot be read is left out.
Show(i) ==
  /\ table[i] # Nil /\ UNCHANGED <<calls, task, objects, table>>
  /\ \E unread \in SUBSET {a \in table[i].artifacts : a.role = "result_image"} :
       /\ Cardinality(unread) <= left /\ left' = left - Cardinality(unread)
       /\ LET read == {a \in table[i].artifacts \ unread : a.role = "result_image" /\ <<"preview", a.holds>> \in objects}
          IN shown' = [shown EXCEPT ![i] =
               [by |-> table[i].by, source |-> {a.holds : a \in {a \in table[i].artifacts : a.role = "source"}},
                frames |-> [n \in 1..table[i].frames |->
                  IF \E a \in read : a.frame = n THEN (CHOOSE a \in read : a.frame = n).holds ELSE Nil],
                whole |-> unread = {}]]

ArchiveNext == \/ \E w \in Writers : StoreSource(w) \/ StoreImage(w) \/ StorePreview(w) \/ Persist(w)
        \/ \E i \in Identifiers : Show(i)
ArchiveSpec == ArchiveInit /\ [][ArchiveNext]_archiveVars

-----------------------------------------------------------------------------
Named(r) == UNION {IF a.role = "source" THEN {<<"source", a.holds>>} ELSE {<<"image", a.holds>>, <<"preview", a.holds>>} : a \in r.artifacts}

\* A record names only what is stored, and is the whole of one analysis: never the images
\* of one attempt with the frames of another.
RecordsAreWhole ==
  \A i \in Identifiers : table[i] # Nil =>
    LET w == table[i].by
    IN /\ Named(table[i]) \subseteq objects /\ calls[w].id = i /\ task[w].pc = "done"
       /\ {<<a.frame, a.holds>> : a \in {a \in table[i].artifacts : a.role = "result_image"}}
            = {<<n, Attached(w)[n]>> : n \in DOMAIN Attached(w)}

\* The images are those of the first frames, in their order.
Aligned(w) == \A n \in DOMAIN Attached(w) \cap DOMAIN calls[w].frames : Attached(w)[n] = calls[w].frames[n]

\* Each frame is shown with its own image or with none, and with none only where it has
\* none or the preview could not be read.  Behind a checkpoint it is shown with another's.
ShownAsItWas ==
  \A i \in Identifiers : shown[i] # Nil =>
    LET s == shown[i] IN \A n \in DOMAIN s.frames :
      /\ Aligned(s.by) => s.frames[n] \in {Nil, calls[s.by].frames[n]}
      /\ s.whole => (s.frames[n] = Nil <=> n \notin DOMAIN Attached(s.by))

\* What was archived stays archived, in a later attempt's record if not in its own.
Kept == \A w \in Writers : task[w].pc = "done" => table[calls[w].id] # Nil

ArchivesAreWhole == RecordsAreWhole /\ ShownAsItWas /\ Kept

-----------------------------------------------------------------------------
(***************************************************************************)
(* A client walks through a list, page by page, while its rows come, go     *)
(* and move.  Four kinds of list: sorted rows with a cursor that is the key *)
(* of the last row ("keyset": people, jobs, streams), the events of a       *)
(* stream, which stay in the order they were appended in but have the same  *)
(* cursors ("events"), the archives, where the table is asked for what      *)
(* comes after the cursor ("table"), and rows that are filtered and sorted, *)
(* with a position for a cursor ("offset").  A walk begins at the beginning: *)
(* no first page is asked for with an offset.                               *)
(***************************************************************************)

CONSTANTS
  Ids,     (* a set of integers: the identifiers of rows                    *)
  Ranks,   (* a set of integers: what rows are sorted by first, a time that *)
           (* is negated where the newest comes first                       *)
  Walks,  (* [kind, limit, desc, since]                                    *)
  Changes, (* bound on the changes beside the walk                          *)
  MaxListed (* bound on what is listed: a walk through events may not end  *)

VARIABLES
  rows,   (* per identifier the rank of its row, or Nil                     *)
  order,  (* the identifiers, in the order the rows were appended in        *)
  walk,   (* what is asked for, where it is, and what was listed            *)
  steady, (* the rows that have been there, with the same rank, all along   *)
  sorted, (* the appended rows have always had ascending keys               *)
  changesLeft    (* changes that may still come                                    *)

listVars == <<rows, order, walk, steady, sorted, changesLeft>>

Key(r, i) == <<r[i], i>>
Less(a, b) == a[1] < b[1] \/ (a[1] = b[1] /\ a[2] < b[2])
InOrder(r, s) == \A m, n \in DOMAIN s : m < n => Less(Key(r, s[m]), Key(r, s[n]))
There(r) == {i \in Ids : r[i] # Nil}

ListInit ==
  /\ rows \in [Ids -> Ranks \cup {Nil}] /\ changesLeft = Changes /\ steady = There(rows)
  /\ order = SortSeq(SelectSeq([i \in 1..Cardinality(Ids) |-> i], LAMBDA i : rows[i] # Nil),
                     LAMBDA i, j : Less(Key(rows, i), Key(rows, j)))
  /\ sorted = TRUE
  /\ \E s \in Walks :
       walk = [kind |-> s.kind, limit |-> s.limit, desc |-> s.desc, since |-> s.since,
               cursor |-> Nil, listed |-> <<>>, done |-> FALSE]

-----------------------------------------------------------------------------
(* Pages.                                                                  *)

\* page_items
PageItems(items, offset) ==
  LET end == IF offset + walk.limit < Len(items) THEN offset + walk.limit ELSE Len(items)
  IN  [page |-> SubSeq(items, offset + 1, end),
       next |-> IF offset <= end /\ end < Len(items) THEN end ELSE Nil]

\* filter_sort_dict_rows: a row without the time that is asked for is left out.
FilterSort ==
  LET found == SelectSeq(order, LAMBDA i : walk.since = Nil \/ rows[i] >= walk.since)
      Asc(i, j) == Less(Key(rows, i), Key(rows, j))
  IN  IF walk.desc THEN SortSeq(found, LAMBDA i, j : Asc(j, i)) ELSE SortSeq(found, Asc)

\* The rows as the list sorts them; events are taken as they are.
Items == IF walk.kind = "events" THEN order ELSE SortSeq(order, LAMBDA i, j : Less(Key(rows, i), Key(rows, j)))

\* page_items_keyset: the first row whose key is greater than the cursor.
StartIndex(items, cursor) ==
  LET after == {n \in DOMAIN items : Less(cursor, Key(rows, items[n]))}
  IN  IF cursor = Nil THEN 0 ELSE IF after = {} THEN Len(items) ELSE (CHOOSE n \in after : \A k \in after : n <= k) - 1

Keyset(items) ==
  LET p == PageItems(items, StartIndex(items, walk.cursor))
  IN  [page |-> p.page, next |-> IF p.next = Nil \/ p.page = <<>> THEN Nil ELSE Key(rows, p.page[Len(p.page)])]

\* list_analysis_archives: the rows after the cursor, one more than the page has.
Table ==
  LET found == SelectSeq(Items, LAMBDA i : walk.cursor = Nil \/ Less(walk.cursor, Key(rows, i)))
      page  == SubSeq(found, 1, IF walk.limit < Len(found) THEN walk.limit ELSE Len(found))
  IN  [page |-> page, next |-> IF Len(found) > walk.limit /\ page # <<>> THEN Key(rows, page[Len(page)]) ELSE Nil]

\* page_items_cursor
Offset == PageItems(FilterSort, IF walk.cursor = Nil THEN 0 ELSE walk.cursor)

Fetch ==
  /\ ~walk.done /\ Len(walk.listed) < MaxListed
  /\ LET p == CASE walk.kind = "offset" -> Offset [] walk.kind = "table" -> Table [] OTHER -> Keyset(Items)
     IN walk' = [walk EXCEPT !.listed = @ \o p.page, !.cursor = p.next, !.done = p.next = Nil]
  /\ UNCHANGED <<rows, order, steady, sorted, changesLeft>>

-----------------------------------------------------------------------------
(* Changes.                                                                *)
Change == ~walk.done /\ changesLeft > 0 /\ changesLeft' = changesLeft - 1 /\ UNCHANGED walk
Keep == sorted' = (sorted /\ InOrder(rows', order'))

\* An event is appended whatever the clock says; other rows have no order of their own.
Add(i, r) ==
  /\ Change /\ rows[i] = Nil /\ rows' = [rows EXCEPT ![i] = r] /\ order' = Append(order, i) /\ Keep
  /\ UNCHANGED steady

\* A row is updated, or an archive stored again, and moves.
Touch(i, r) ==
  /\ Change /\ walk.kind # "events" /\ rows[i] # Nil /\ r # rows[i]
  /\ rows' = [rows EXCEPT ![i] = r] /\ steady' = steady \ {i} /\ UNCHANGED order /\ Keep

Remove(i) ==
  /\ Change /\ rows[i] # Nil /\ rows' = [rows EXCEPT ![i] = Nil] /\ steady' = steady \ {i}
  /\ order' = SelectSeq(order, LAMBDA j : j # i) /\ Keep

ListNext == Fetch \/ \E i \in Ids : Remove(i) \/ \E r \in Ranks : Add(i, r) \/ Touch(i, r)
ListSpec == ListInit /\ [][ListNext]_listVars

-----------------------------------------------------------------------------
Listed == {walk.listed[n] : n \in DOMAIN walk.listed}
Times(i) == Cardinality({n \in DOMAIN walk.listed : walk.listed[n] = i})
Quiet == changesLeft = Changes

TypeOK == There(rows) = {order[n] : n \in DOMAIN order} /\ Len(order) = Cardinality(There(rows)) /\ steady \subseteq There(rows)

\* Whatever changes beside it, a walk lists every row that was there all along exactly
\* once.  With a position for a cursor that is so only while nothing changes, and for
\* events only while they are appended in the order of their keys.
Exact ==
  (walk.kind \in {"keyset", "table"} \/ (walk.kind = "events" /\ sorted) \/ Quiet) =>
    \A i \in steady : /\ Times(i) <= 1
                      /\ walk.done /\ walk.limit > 0 /\ (walk.kind # "offset" \/ walk.since = Nil \/ rows[i] >= walk.since)
                           => i \in Listed

\* Such rows are listed in the order of the list.
Ascending ==
  walk.kind \in {"keyset", "table"} =>
    \A m, n \in DOMAIN walk.listed :
      m < n /\ {walk.listed[m], walk.listed[n]} \subseteq steady => Less(Key(rows, walk.listed[m]), Key(rows, walk.listed[n]))

\* A row that moved may be listed twice or not at all, and never more often than it moved.
\* A walk through events that were not appended in the order of their keys may list the
\* same page for ever.
Bounded == walk.kind \in {"keyset", "table"} \/ (walk.kind = "events" /\ sorted) => \A i \in Ids : Times(i) <= 1 + (Changes - changesLeft)

WalksAreExact == TypeOK /\ Exact /\ Ascending /\ Bounded
=============================================================================
