------------------------------- MODULE Audit --------------------------------
(***************************************************************************)
(* The audit log: the chain of its records, and what a record says of an   *)
(* event.  The two parts share no variable; each has an Init and a Next.   *)
(***************************************************************************)
EXTENDS Integers, Sequences, FiniteSets, SequencesExt

-----------------------------------------------------------------------------
(***************************************************************************)
(* The audit log: a file of one JSON record per line, each with the hash of *)
(* the record before it, and in the database a table of the same records.  *)
(* audit_event reads the last line and appends the next one without a lock, *)
(* so that writers of one process (threads) or of several may meet.         *)
(*                                                                         *)
(* A record is known by its hash, its identity.  It goes to the file in two *)
(* pieces, the second with the end of the line: at once when it is small,   *)
(* and in two writes when it is larger than the buffer of the file.         *)
(***************************************************************************)

CONSTANTS
  Writers,    (* tasks that record events                                  *)
  Scenes,     (* [todo: per writer the events [tenant, large], closed:     *)
              (* AUDIT_WRITE_FAIL_CLOSED, table: the database is used]     *)
  MaxFaults,  (* bound on failing writes, failing inserts and crashes      *)
  Nil         (* no value                                                  *)

VARIABLES
  closed, table, (* as configured                                          *)
  todo,    (* per writer: the events to record                             *)
  task,    (* per writer: what audit_event is doing                        *)
  file,    (* the pieces [rec, part] in the file, part 1 or 2              *)
  rows,    (* the records in the table                                     *)
  acked, refused, (* the events whose callers went on, or were told 503    *)
  met,     (* two writers have been between reading and writing            *)
  left     (* faults that may still happen                                 *)

chainVars == <<closed, table, todo, task, file, rows, acked, refused, met, left>>

Idle == [pc |-> "idle", rec |-> Nil]

ChainInit ==
  /\ \E s \in Scenes : closed = s.closed /\ table = s.table /\ todo = s.todo
  /\ task = [t \in Writers |-> Idle]
  /\ file = <<>> /\ rows = {} /\ acked = {} /\ refused = {} /\ met = FALSE /\ left = MaxFaults

-----------------------------------------------------------------------------
(* What is in the file.                                                    *)

\* The pieces of the lines; the last line may lack its end.
Lines ==
  FoldLeft(LAMBDA ls, p : IF ls = <<>> \/ Last(Last(ls)).part = 2 THEN Append(ls, <<p>>)
                          ELSE Append(Front(ls), Append(Last(ls), p)), <<>>, file)

\* A line can be read as JSON when it is one record, whole; the end of the line itself may
\* be missing only together with the second piece.
Whole(line)  == Len(line) = 2 /\ line[1].rec = line[2].rec /\ line[1].part = 1
Records      == LET good == SelectSeq(Lines, Whole) IN [k \in 1..Len(good) |-> good[k][1].rec]
Malformed    == Len(SelectSeq(Lines, LAMBDA line : ~Whole(line)))

\* verify_audit_chain
Verified ==
  LET rs == Records
  IN Malformed = 0 /\ \A k \in 1..Len(rs) : rs[k].prev = (IF k = 1 THEN Nil ELSE rs[k - 1].id)

\* read_public_audit_events and read_public_backup_snapshots: the last records of a tenant,
\* newest first.
Page(tenant, limit) ==
  LET mine == SelectSeq(Records, LAMBDA r : r.tenant = tenant)
  IN Reverse(SubSeq(mine, IF Len(mine) > limit THEN Len(mine) - limit + 1 ELSE 1, Len(mine)))

-----------------------------------------------------------------------------
(* audit_event, for writer t.                                              *)
Answer(t, ok) ==
  /\ task' = [task EXCEPT ![t] = Idle]
  /\ acked' = IF ok THEN acked \cup {task[t].rec} ELSE acked
  /\ refused' = IF ok THEN refused ELSE refused \cup {task[t].rec}
Fault == left > 0 /\ left' = left - 1

\* Mutant: a last line that cannot be read never ends the event.
ReadHeadLenient(t) ==
  /\ task[t].pc = "idle" /\ todo[t] # <<>>
  /\ LET e    == Head(todo[t])
         last == IF file = <<>> THEN Nil ELSE Last(Lines)
         rec  == [id |-> <<t, Len(todo[t])>>, tenant |-> e.tenant, large |-> e.large,
                  prev |-> IF last = Nil \/ ~Whole(last) THEN Nil ELSE last[1].rec.id]
     IN task' = [task EXCEPT ![t] = [pc |-> "write", rec |-> rec]] /\ UNCHANGED refused
  /\ todo' = [todo EXCEPT ![t] = Tail(@)]
  /\ met' = (met \/ \E w \in Writers : task[w].pc \in {"write", "rest"})
  /\ UNCHANGED <<closed, table, file, rows, acked, left>>

\* last_audit_hash: the head of the chain; a last line that cannot be read ends the event
\* with 503, or counts as the beginning of a chain when the log may fail.
ReadHead(t) ==
  /\ task[t].pc = "idle" /\ todo[t] # <<>>
  /\ LET e    == Head(todo[t])
         last == IF file = <<>> THEN Nil ELSE Last(Lines)
         rec  == [id |-> <<t, Len(todo[t])>>, tenant |-> e.tenant, large |-> e.large,
                  prev |-> IF last = Nil \/ ~Whole(last) THEN Nil ELSE last[1].rec.id]
     IN IF last # Nil /\ ~Whole(last) /\ closed
        THEN refused' = refused \cup {rec} /\ UNCHANGED task
        ELSE task' = [task EXCEPT ![t] = [pc |-> "write", rec |-> rec]] /\ UNCHANGED refused
  /\ todo' = [todo EXCEPT ![t] = Tail(@)]
  /\ met' = (met \/ \E w \in Writers : task[w].pc \in {"write", "rest"})
  /\ UNCHANGED <<closed, table, file, rows, acked, left>>

Piece(t, n) == [rec |-> task[t].rec, part |-> n]
ThenTable(t) == IF table THEN task' = [task EXCEPT ![t].pc = "insert"] /\ UNCHANGED <<acked, refused>> ELSE Answer(t, TRUE)

\* append_jsonl
Write(t) ==
  /\ task[t].pc = "write"
  /\ IF task[t].rec.large
     THEN /\ file' = Append(file, Piece(t, 1)) /\ task' = [task EXCEPT ![t].pc = "rest"]
          /\ UNCHANGED <<acked, refused>>
     ELSE file' = file \o <<Piece(t, 1), Piece(t, 2)>> /\ ThenTable(t)
  /\ UNCHANGED <<closed, table, todo, rows, met, left>>

Rest(t) ==
  /\ task[t].pc = "rest"
  /\ file' = Append(file, Piece(t, 2)) /\ ThenTable(t)
  /\ UNCHANGED <<closed, table, todo, rows, met, left>>

\* The disk is full: nothing, or the first piece, is in the file.
WriteFails(t) ==
  /\ task[t].pc \in {"write", "rest"} /\ Fault
  /\ IF closed THEN Answer(t, FALSE) ELSE ThenTable(t)
  /\ UNCHANGED <<closed, table, todo, file, rows, met>>

\* insert_audit_event
Insert(t) ==
  /\ task[t].pc = "insert"
  /\ rows' = rows \cup {task[t].rec} /\ Answer(t, TRUE)
  /\ UNCHANGED <<closed, table, todo, file, met, left>>

InsertFails(t) ==
  /\ task[t].pc = "insert" /\ Fault /\ Answer(t, ~closed)
  /\ UNCHANGED <<closed, table, todo, file, rows, met>>

\* The processes end; what they were writing stays as it is.
Crash ==
  /\ Fault /\ \E t \in Writers : task[t].pc # "idle"
  /\ task' = [t \in Writers |-> Idle]
  /\ UNCHANGED <<closed, table, todo, file, rows, acked, refused, met>>

ChainNext ==
  \/ \E t \in Writers : ReadHead(t) \/ Write(t) \/ Rest(t) \/ WriteFails(t) \/ Insert(t) \/ InsertFails(t)
  \/ Crash
ChainSpec == ChainInit /\ [][ChainNext]_chainVars

-----------------------------------------------------------------------------
TypeOK ==
  /\ \A t \in Writers : task[t].pc \in {"idle", "write", "rest", "insert"}
  /\ \A i \in 1..Len(file) : file[i].part \in 1..2
  /\ left \in 0..MaxFaults

\* As long as the writers have not met and no line was left torn the chain verifies, whatever
\* failed, and whichever events were refused: a failed event leaves no gap
\* (audit_event, verify_audit_chain).
ChainHolds ==
  ~met /\ Malformed = 0 => Verified

\* An event whose caller went on is in the log, unless writers met; and when the chain
\* verifies every such event is in it, whatever happened before: nothing is lost without
\* the verification telling (last_audit_hash, append_jsonl with fail_closed).
NoSilentLoss ==
  LET rs == ToSet(Records)
  IN closed => /\ Verified \/ ~met => acked \subseteq rs
               /\ table => acked \subseteq rows

\* The table has no event that the file lost, unless the log may fail.
TableFollows == closed => \A r \in rows : \E i \in 1..Len(file) : file[i].rec = r

\* A page has the latest events of the tenant: none that is older than one it leaves out
\* (read_public_audit_events).
PageIsLatest ==
  LET rs == Records
  IN \A k \in 1..Len(rs), limit \in 1..2 :
       LET page == Page(rs[k].tenant, limit)
       IN /\ Len(page) <= limit
          /\ \/ rs[k] \in ToSet(page)
             \/ Len(page) = limit /\ ToSet(page) \subseteq ToSet(SubSeq(rs, k + 1, Len(rs)))

AuditIsSound == TypeOK /\ ChainHolds /\ NoSilentLoss /\ TableFollows /\ PageIsLatest

-----------------------------------------------------------------------------
(***************************************************************************)
(* What of an event's fields gets into its audit record: sensitive values   *)
(* are masked, and depth, keys, items and size are bounded                  *)
(* (build_audit_payload).  A value is a leaf with a size, a dict or a list; *)
(* the sizes of keys and brackets are left out, and names of fields are     *)
(* distinct.                                                               *)
(***************************************************************************)

CONSTANTS
  Events,   (* what is recorded: sequences of fields [name, secret, value]  *)
  MaxDepth, (* MAX_AUDIT_DEPTH                                             *)
  MaxKeys,  (* MAX_AUDIT_KEYS                                              *)
  MaxItems, (* MAX_AUDIT_LIST_ITEMS                                        *)
  MaxSize,  (* MAX_AUDIT_PAYLOAD_BYTES                                     *)
  Core,     (* sizes of event, request, tenant and outcome together: as     *)
            (* they are, at most 128, 64 and 32 characters each            *)
  MaxNames  (* MAX_OMITTED_FIELD_NAMES                                     *)

VARIABLES fields, record (* the event's fields, and the record made of them *)

recordVars == <<fields, record>>

None == [kind |-> "none"]
RecordInit == fields \in Events /\ record = None

Masked == [kind |-> "masked", size |-> 1]
TooDeep == [kind |-> "deep", size |-> 1]

-----------------------------------------------------------------------------
\* sanitize_audit_value: the value of a field, with the number of keys that may still be
\* taken, shared by the whole record, and with what was left out so far.
RECURSIVE Sanitized(_, _, _, _)
Sanitized(v, secret, depth, st) ==
  CASE secret -> [value |-> Masked, st |-> st]
    [] ~secret /\ depth >= MaxDepth -> [value |-> TooDeep, st |-> [st EXCEPT !.cut = TRUE]]
    [] ~secret /\ depth < MaxDepth /\ v.kind = "leaf" -> [value |-> v, st |-> st]
    [] ~secret /\ depth < MaxDepth /\ v.kind = "dict" ->
         LET take(acc, f) ==
               IF acc.st.keys <= 0
               THEN [acc EXCEPT !.st = [@ EXCEPT !.cut = TRUE, !.fields = @ + 1]]
               ELSE LET r == Sanitized(f.value, f.secret, depth + 1, [acc.st EXCEPT !.keys = @ - 1])
                    IN [out |-> Append(acc.out, [f EXCEPT !.value = r.value]), st |-> r.st]
             all == FoldLeft(take, [out |-> <<>>, st |-> st], v.entries)
         IN [value |-> [kind |-> "dict", entries |-> all.out], st |-> all.st]
    [] ~secret /\ depth < MaxDepth /\ v.kind = "list" ->
         LET take(acc, x) ==
               LET r == Sanitized(x, FALSE, depth + 1, acc.st)
               IN [out |-> Append(acc.out, r.value), st |-> r.st]
             all == FoldLeft(take, [out |-> <<>>, st |-> st],
                             SubSeq(v.items, 1, IF Len(v.items) > MaxItems THEN MaxItems ELSE Len(v.items)))
         IN [value |-> [kind |-> "list", items |-> all.out],
             st |-> IF Len(v.items) > MaxItems THEN [all.st EXCEPT !.cut = TRUE, !.items = @ + 1] ELSE all.st]

RECURSIVE Bytes(_)
Bytes(v) ==
  CASE v.kind = "dict" -> FoldLeft(LAMBDA n, f : n + Bytes(f.value), 1, v.entries)
    [] v.kind = "list" -> FoldLeft(LAMBDA n, x : n + Bytes(x), 1, v.items)
    [] OTHER -> v.size

\* build_audit_payload: the fields of the event.
Picked(fs) ==
  FoldLeft(LAMBDA acc, f :
             IF acc.st.keys <= 0 THEN [acc EXCEPT !.st = [@ EXCEPT !.cut = TRUE, !.fields = @ + 1]]
             ELSE LET r == Sanitized(f.value, f.secret, 0, [acc.st EXCEPT !.keys = @ - 1])
                  IN [out |-> Append(acc.out, [f EXCEPT !.value = r.value]), st |-> r.st],
           [out |-> <<>>, st |-> [keys |-> MaxKeys, cut |-> FALSE, fields |-> 0, items |-> 0]], fs)

-----------------------------------------------------------------------------
(* _fit_payload_to_budget                                                  *)

\* The size of a record: core, fields, and one unit for each of _attach_audit_stats.
Size(r) ==
  r.core + FoldLeft(LAMBDA n, f : n + Bytes(f.value), 0, r.fields)
    + (IF r.cut THEN 1 ELSE 0) + (IF r.omitted > 0 THEN 1 ELSE 0) + (IF r.items > 0 THEN 1 ELSE 0) + Len(r.names)
Fits(r) == Size(r) <= MaxSize

\* The largest fields are left out first, until the record fits.
Largest(fs) == CHOOSE i \in 1..Len(fs) : \A j \in 1..Len(fs) :
                 Bytes(fs[i].value) > Bytes(fs[j].value) \/ (Bytes(fs[i].value) = Bytes(fs[j].value) /\ i <= j)
Drop(r) ==
  LET i == Largest(r.fields)
  IN [r EXCEPT !.fields = RemoveAt(@, i), !.cut = TRUE, !.omitted = @ + 1,
               !.names = IF Len(@) < MaxNames THEN Append(@, r.fields[i].name) ELSE @]

RECURSIVE Dropped(_)
Dropped(r) == IF Fits(r) \/ r.fields = <<>> THEN r ELSE Dropped(Drop(r))

Fitted(r) ==
  LET bare  == Dropped(r)
      short == {i \in 2..4 : Fits([bare EXCEPT !.core = Core[i], !.cut = TRUE])}
      least == [bare EXCEPT !.core = Core[4], !.cut = TRUE]
  IN IF Fits(bare) THEN bare
     ELSE IF short # {} THEN [least EXCEPT !.core = Core[CHOOSE i \in short : \A j \in short : i <= j]]
     ELSE [least EXCEPT !.names = <<>>]

\* build_audit_payload
Build ==
  /\ record = None
  /\ LET p == Picked(fields)
     IN record' = Fitted([kind |-> "record", core |-> Core[1], fields |-> p.out, cut |-> p.st.cut,
                          omitted |-> p.st.fields, items |-> p.st.items, names |-> <<>>])
  /\ UNCHANGED fields

RecordNext == Build
RecordSpec == RecordInit /\ [][RecordNext]_recordVars

-----------------------------------------------------------------------------
(* What is asked of a record.                                              *)
RECURSIVE Below(_)
Below(v) ==
  {v} \cup CASE v.kind = "dict" -> UNION {Below(v.entries[i].value) : i \in 1..Len(v.entries)}
             [] v.kind = "list" -> UNION {Below(v.items[i]) : i \in 1..Len(v.items)}
             [] OTHER -> {}
RECURSIVE Secrets(_)
Secrets(v) ==
  CASE v.kind = "dict" -> UNION {IF v.entries[i].secret THEN {v.entries[i].value} ELSE Secrets(v.entries[i].value) :
                                   i \in 1..Len(v.entries)}
    [] v.kind = "list" -> UNION {Secrets(v.items[i]) : i \in 1..Len(v.items)}
    [] OTHER -> {}
RECURSIVE Keys(_)
Keys(v) ==
  CASE v.kind = "dict" -> FoldLeft(LAMBDA n, f : n + 1 + Keys(f.value), 0, v.entries)
    [] v.kind = "list" -> FoldLeft(LAMBDA n, x : n + Keys(x), 0, v.items)
    [] OTHER -> 0
RECURSIVE Depth(_)
Depth(v) ==
  CASE v.kind = "dict" -> 1 + FoldLeft(LAMBDA n, f : IF Depth(f.value) > n THEN Depth(f.value) ELSE n, 0, v.entries)
    [] v.kind = "list" -> 1 + FoldLeft(LAMBDA n, x : IF Depth(x) > n THEN Depth(x) ELSE n, 0, v.items)
    [] OTHER -> 0

AsDict == [kind |-> "dict", entries |-> record.fields]

\* A record is never larger than its bound, unless its core alone is; it has no more keys
\* and no deeper values than are allowed, and no sensitive value: not by a key that comes
\* after the bound was reached, and not inside a list (sanitize_audit_value,
\* _fit_payload_to_budget).
RecordIsBounded ==
  record # None =>
    /\ Fits(record) \/ (record.fields = <<>> /\ record.core = Core[4])
    /\ Keys(AsDict) <= MaxKeys /\ Depth(AsDict) <= MaxDepth + 1
    /\ Secrets(AsDict) \subseteq {Masked}

\* What is left out is told: a record that says nothing of it has every field of the event,
\* with the values that are not sensitive, and each omitted field is counted.
OmissionsAreTold ==
  record # None =>
    /\ ~record.cut => /\ Len(record.fields) = Len(fields)
                      /\ \A i \in 1..Len(fields) : Keys(record.fields[i].value) = Keys(fields[i].value)
                                                     \/ Secrets(fields[i].value) # {} \/ fields[i].secret
                      /\ record.omitted = 0 /\ record.items = 0
    /\ Len(fields) - Len(record.fields) <= record.omitted
    /\ Len(record.names) <= record.omitted

RecordsAreSound == RecordIsBounded /\ OmissionsAreTold
=============================================================================
