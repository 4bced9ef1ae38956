------------------------------- MODULE RingBuffer -------------------------------
(***************************************************************************)
(* RingBuffer of src/runtime/ringbuffer.ts: the last log entries of one    *)
(* process, bounded by their age and by their size, and the excerpt that   *)
(* persistIncidentLogs of src/runtime/capture.ts keeps with an incident.   *)
(*                                                                         *)
(* An entry has a time and a message, whose length is its number of words. *)
(* A ring is its entries and the running count of their bytes.             *)
(***************************************************************************)
EXTENDS Selection, FiniteSetsExt

CONSTANTS
  MaxAge,       \* ring_buffer.max_age_seconds
  MaxBytes,     \* ring_buffer.max_bytes_per_service
  Overhead,     \* what an entry costs beside its message (48)
  BeforeError,  \* ring_buffer.include_before_error_seconds
  AfterError,   \* ring_buffer.include_after_error_seconds
  MaxChars      \* llm.max_log_excerpt_chars

ASSUME RingBufferAssumption ==
  {MaxAge, MaxBytes, Overhead, BeforeError, AfterError, MaxChars} \subseteq Nat

Bytes(entries) ==
  LET upTo[n \in 0 .. Len(entries)] ==
        IF n = 0 THEN 0 ELSE upTo[n - 1] + Len(entries[n].message) + Overhead
  IN  upTo[Len(entries)]

From(entries, i) == SubSeq(entries, i, Len(entries))

\* A slip of ShiftedTo: what is shifted is subtracted without its overhead.
ShiftedToWithoutOverhead(ring, i) ==
  [entries |-> From(ring.entries, i),
   bytes   |-> ring.bytes - (Bytes(SubSeq(ring.entries, 1, i - 1)) - (i - 1) * Overhead)]

\* The entries before the i-th are shifted out and subtracted from the count.
ShiftedTo(ring, i) ==
  [entries |-> From(ring.entries, i),
   bytes   |-> ring.bytes - Bytes(SubSeq(ring.entries, 1, i - 1))]

\* Up to the first place that is young enough: an old entry behind it stays.
OfAge(ring, time) ==
  ShiftedTo(ring, Min({i \in DOMAIN ring.entries : ring.entries[i].at + MaxAge >= time}
                      \cup {Len(ring.entries) + 1}))

\* Until the count is small enough; the last entry is kept, whatever its size.
OfSize(ring) ==
  ShiftedTo(ring, Min({i \in DOMAIN ring.entries :
                        i = Len(ring.entries) \/ ShiftedTo(ring, i).bytes <= MaxBytes}
                      \cup {Len(ring.entries) + 1}))

Pruned(ring, time) == OfSize(OfAge(ring, time))

Push(ring, entry) ==
  Pruned([entries |-> Append(ring.entries, entry),
          bytes   |-> ring.bytes + Len(entry.message) + Overhead], entry.at)

\* A slip of InWindow: the upper end is left out.
InWindowBefore(entry, from, to) == entry.at + BeforeError >= from /\ entry.at < to + AfterError

\* Both ends belong to the window around the first error and this moment.
InWindow(entry, from, to) == entry.at + BeforeError >= from /\ entry.at <= to + AfterError

\* The entries of the window.
Inside(entries, from, to) ==
  Selected(entries, {i \in DOMAIN entries : InWindow(entries[i], from, to)})

\* The last entry that fits in part is cut.
Keeping(acc, entry) ==
  LET kept == SubSeq(entry.message, 1, Min({Len(entry.message), acc.left}))
  IN  IF acc.left = 0 THEN acc
      ELSE [out  |-> Append(acc.out, [entry EXCEPT !.message = kept]),
            left |-> acc.left - Len(kept)]

\* The oldest entries come first.
Cut(entries) ==
  LET upTo[n \in 0 .. Len(entries)] ==
        IF n = 0 THEN [out |-> <<>>, left |-> MaxChars] ELSE Keeping(upTo[n - 1], entries[n])
  IN  upTo[Len(entries)].out

Excerpt(ring, from, to) == Cut(Inside(Pruned(ring, to).entries, from, to))

=============================================================================
