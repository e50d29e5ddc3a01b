------------------------------ MODULE AuditLog ------------------------------
(***************************************************************************)
(* The local audit evidence of local-default (api/audit.py): an NDJSON log *)
(* of hash-linked events and an anchor file holding its count and head.    *)
(*                                                                         *)
(* An append verifies the whole log, writes the event lines of one request *)
(* and fsyncs them, replaces the anchor file and fsyncs the directory.  It *)
(* runs in one go on the event loop, so other requests never see it half   *)
(* done; an OSError or the end of the process can stop it after any step.  *)
(* What is not fsynced survives the end of the process but not a loss of   *)
(* power.                                                                  *)
(*                                                                         *)
(* Actions here say what happens to the files and to the writer; the       *)
(* serving process (LocalServing) says when.                               *)
(***************************************************************************)
EXTENDS Naturals, Sequences

VARIABLES
  log,          \* complete lines of the log file, as the process reads them
  torn,         \* the log file ends in an incomplete line
  synced,       \* number of lines that are on disk
  anchor,       \* the anchor file, as the process reads it
  anchorOnDisk, \* the anchor file that a loss of power leaves
  memory,       \* count and head kept by the AuditLog object
  writer        \* append_inference: how far it is, and the lines it appends

auditVars == <<log, torn, synced, anchor, anchorOnDisk, memory, writer>>
fileVars  == <<log, torn, synced, anchor, anchorOnDisk>>

-----------------------------------------------------------------------------
GenesisHash == <<>>

\* sha256_canonical of an event: collision-free, and it binds the previous hash.
EventHash(e) == <<e.previous, e.request, e.index>>

HashBefore(l, i) == IF i = 1 THEN GenesisHash ELSE EventHash(l[i - 1])

HeadOf(l) == [count |-> Len(l), head |-> HashBefore(l, Len(l) + 1)]

\* What the events of one request are linked to: the head in memory, then each
\* to the one before it.
Links(request, size) ==
  LET link[i \in 1..size] ==
        IF i = 1 THEN memory.head
        ELSE EventHash([previous |-> link[i - 1], request |-> request, index |-> i - 1])
  IN  link

\* The events of one request, one per decision, linked to the head in memory.
LinesFor(request, key, digest, decision, size, life) ==
  [i \in 1..size |->
     [previous |-> Links(request, size)[i], request |-> request, index |-> i, key |-> key,
      digest |-> digest, decision |-> decision, life |-> life]]

\* Every line is a JSON object of its own: a line that was cut off is not.
LinesParse == ~torn

\* verify_audit_log accepts: no torn line, no request id and index used twice,
\* an unbroken chain, and the count and head of the anchor.
Intact ==
  /\ LinesParse
  /\ \A i \in DOMAIN log : log[i].previous = HashBefore(log, i)
  /\ \A i, j \in DOMAIN log :
       log[i].key = log[j].key /\ log[i].index = log[j].index => i = j
  /\ anchor = HeadOf(log)

\* Faulty: the writer trusts its own count and head.
AppendUnverified == TRUE

\* Faulty: the writer trusts whatever the files say.
AppendToAnyHead == Intact

\* append_inference goes on: the files verify and are the ones it wrote.
MayAppend == Intact /\ memory = HeadOf(log)

-----------------------------------------------------------------------------
AuditInit ==
  /\ log = <<>>
  /\ torn = FALSE
  /\ synced = 0
  /\ anchor = HeadOf(<<>>)
  /\ anchorOnDisk = HeadOf(<<>>)
  /\ memory = HeadOf(<<>>)
  /\ writer = [at |-> "idle", lines |-> <<>>]

Idle == [at |-> "idle", lines |-> <<>>]

BeginAppend(lines) ==
  /\ MayAppend
  /\ writer' = [at |-> "open", lines |-> lines]
  /\ UNCHANGED <<fileVars, memory>>

WriteLines ==
  /\ writer.at = "open"
  /\ log' = log \o writer.lines
  /\ writer' = [writer EXCEPT !.at = "written"]
  /\ UNCHANGED <<torn, synced, anchor, anchorOnDisk, memory>>

\* os.write (or os.open) fails: some lines, and perhaps half a line, are there.
WriteLinesFails ==
  /\ writer.at = "open"
  /\ \E n \in 0..(Len(writer.lines) - 1) : log' = log \o SubSeq(writer.lines, 1, n)
  /\ torn' \in BOOLEAN
  /\ writer' = Idle
  /\ UNCHANGED <<synced, anchor, anchorOnDisk, memory>>

\* Faulty: no fsync before the anchor moves.
SyncNothing ==
  /\ writer.at = "written"
  /\ writer' = [writer EXCEPT !.at = "synced"]
  /\ UNCHANGED <<fileVars, memory>>

SyncLines ==
  /\ writer.at = "written"
  /\ synced' = Len(log)
  /\ writer' = [writer EXCEPT !.at = "synced"]
  /\ UNCHANGED <<log, torn, anchor, anchorOnDisk, memory>>

\* _write_anchor: temporary file, fsync, os.replace.
ReplaceAnchor ==
  /\ writer.at = "synced"
  /\ anchor' = HeadOf(log)
  /\ writer' = [writer EXCEPT !.at = "replaced"]
  /\ UNCHANGED <<log, torn, synced, anchorOnDisk, memory>>

\* The directory is on disk and append_inference returns.
EndAppend ==
  /\ writer.at = "replaced"
  /\ anchorOnDisk' = anchor
  /\ memory' = anchor
  /\ writer' = Idle
  /\ UNCHANGED <<log, torn, synced, anchor>>

\* An fsync, the temporary anchor file or its replacement fails.  What was
\* written stays, and the count and head in memory are the old ones.
AppendFails ==
  /\ writer.at \in {"written", "synced", "replaced"}
  /\ writer' = Idle
  /\ UNCHANGED <<fileVars, memory>>

-----------------------------------------------------------------------------
(* The end of the process, and its next start *)

\* What the log file can hold when an append is cut off.
CutOff(first) ==
  LET full == IF writer.at = "open" THEN log \o writer.lines ELSE log
  IN  \E n \in first..Len(full) :
        /\ log' = SubSeq(full, 1, n)
        /\ torn' \in (IF n < Len(full) \/ torn THEN BOOLEAN ELSE {FALSE})

\* The kernel keeps what the process has written.
Killed ==
  /\ CutOff(Len(log))
  /\ torn => torn'
  /\ writer' = Idle
  /\ UNCHANGED <<synced, anchor, anchorOnDisk, memory>>

\* Whatever was not fsynced may be gone.
PowerLost ==
  /\ CutOff(synced)
  /\ synced' = Len(log')
  /\ anchor' \in {anchor, anchorOnDisk}
  /\ anchorOnDisk' = anchor'
  /\ writer' = Idle
  /\ UNCHANGED memory

\* AuditLog.__init__ verifies the files and adopts their count and head.
OpenLog ==
  /\ Intact
  /\ memory' = HeadOf(log)
  /\ UNCHANGED <<fileVars, writer>>

=============================================================================
