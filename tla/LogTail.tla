------------------------------- MODULE LogTail -------------------------------
(* GET /logs: LogsService finds the log file and readTailLines reads its last *)
(* lines in chunks from the end, by synchronous calls, while winston appends  *)
(* to the file and rotates it from other threads. A file is a sequence of     *)
(* bytes: an ASCII character, the two of a longer one, the end of a line.     *)
EXTENDS Integers, Sequences, FiniteSets, SequencesExt

CONSTANTS
  CHUNK_SIZE,
  Limit,     \* the lines asked for
  MaxBytes,  \* bound on a file: the size at which winston rotates it
  MaxFiles   \* bound on rotations

AsciiChar == "x"
Lead == "lead"
Rest == "rest"
Newline == "newline"

\* What a line may be: an entry starts with its time; the empty lines that a stack
\* may have inside are left out.
Entries == {<<AsciiChar>>, <<Lead, Rest>>, <<AsciiChar, Lead, Rest>>}

VARIABLES
  files,    \* the log file, last, after those that it was rotated to
  present,  \* whether the name app.log leads to a file
  reader    \* one request: where it is, and the variables of readTailLines

vars == <<files, present, reader>>

Idle == [at |-> "idle", file |-> 0, size |-> 0, position |-> 0, leftover |-> <<>>,
         collected |-> <<>>]

Init == files = << <<>> >> /\ present = TRUE /\ reader = Idle

-----------------------------------------------------------------------------
(* Text *)

\* toString('utf8'): a byte of a longer character without the other is U+FFFD.
Decoded(bytes) ==
  FlattenSeq([i \in DOMAIN bytes |->
    IF bytes[i] = Lead
    THEN IF i < Len(bytes) /\ bytes[i + 1] = Rest THEN <<"long">> ELSE <<"U+FFFD">>
    ELSE IF bytes[i] = Rest
    THEN IF i > 1 /\ bytes[i - 1] = Lead THEN <<>> ELSE <<"U+FFFD">>
    ELSE <<bytes[i]>>])

\* split: the pieces between the ends of lines.
Split(text) ==
  LET ends == SetToSortSeq({i \in DOMAIN text : text[i] = Newline}, <)
      from(k) == IF k = 1 THEN 1 ELSE ends[k - 1] + 1
      to(k) == IF k > Len(ends) THEN Len(text) ELSE ends[k] - 1
  IN [k \in 1 .. Len(ends) + 1 |-> SubSeq(text, from(k), to(k))]

\* The lines of a chunk, last first; empty ones at the end of the file are none.
Collect(collected, parts) ==
  LET fresh == Reverse(parts)
      blank == IF collected # <<>> THEN {} ELSE {k \in DOMAIN fresh :
                 \A j \in 1 .. k : fresh[j] = <<>>}
      all == collected \o SubSeq(fresh, Cardinality(blank) + 1, Len(fresh))
  IN SubSeq(all, 1, IF Len(all) < Limit THEN Len(all) ELSE Limit)

-----------------------------------------------------------------------------
(* The request *)

Goes(to) == reader' = [reader EXCEPT !.at = to] /\ UNCHANGED <<files, present>>

\* listLogFiles: existsSync, then statSync, which throws if the file went meanwhile.
ListLogFiles ==
  /\ reader.at \in {"idle", "done", "failed"}
  /\ reader' = [Idle EXCEPT !.at = IF present THEN "describe" ELSE "failed"]
  /\ UNCHANGED <<files, present>>

DescribeLogFile == reader.at = "describe" /\ Goes(IF present THEN "exists" ELSE "failed")

\* readTailLines: no file, no lines; a file that goes before it is opened throws.
Exists == reader.at = "exists" /\ Goes(IF present THEN "open" ELSE "done")

Open ==
  /\ reader.at = "open"
  /\ reader' = IF present THEN [reader EXCEPT !.at = "stat", !.file = Len(files)]
               ELSE [reader EXCEPT !.at = "failed"]
  /\ UNCHANGED <<files, present>>

\* From here on the descriptor is the file, whatever its name becomes.
Stat ==
  /\ reader.at = "stat"
  /\ LET size == Len(files[reader.file])
     IN reader' = [reader EXCEPT !.at = IF size = 0 THEN "done" ELSE "read",
                                 !.size = size, !.position = size]
  /\ UNCHANGED <<files, present>>

ReadChunk ==
  /\ reader.at = "read" /\ reader.position > 0 /\ Len(reader.collected) < Limit
  /\ LET from == IF reader.position < CHUNK_SIZE THEN 0 ELSE reader.position - CHUNK_SIZE
         parts == Split(Decoded(SubSeq(files[reader.file], from + 1, reader.position))
                        \o reader.leftover)
     IN reader' = [reader EXCEPT !.position = from, !.leftover = Head(parts),
                                 !.collected = Collect(@, Tail(parts))]
  /\ UNCHANGED <<files, present>>

Return ==
  /\ reader.at = "read" /\ (reader.position = 0 \/ Len(reader.collected) >= Limit)
  /\ reader' = [reader EXCEPT !.at = "done",
       !.collected = Reverse(IF reader.leftover # <<>> /\ Len(@) < Limit
                             THEN Append(@, reader.leftover) ELSE @)]
  /\ UNCHANGED <<files, present>>

-----------------------------------------------------------------------------
(* winston's file transport *)

Write(entry) ==
  /\ present /\ Len(Last(files)) + Len(entry) < MaxBytes
  /\ files' = [files EXCEPT ![Len(files)] = @ \o Append(entry, Newline)]
  /\ UNCHANGED <<present, reader>>

\* A full file is renamed; then a new one is made.
RotateAway ==
  /\ present /\ Last(files) # <<>> /\ Len(files) < MaxFiles
  /\ present' = FALSE
  /\ UNCHANGED <<files, reader>>

RotateCreate ==
  /\ ~present
  /\ present' = TRUE /\ files' = Append(files, <<>>)
  /\ UNCHANGED reader

Next ==
  \/ ListLogFiles \/ DescribeLogFile \/ Exists \/ Open \/ Stat \/ ReadChunk \/ Return
  \/ \E entry \in Entries : Write(entry)
  \/ RotateAway \/ RotateCreate

Spec == Init /\ [][Next]_vars

-----------------------------------------------------------------------------
(* The property *)

\* The last lines of a text; only its end has an empty one.
LastLines(text) ==
  LET lines == SelectSeq(Split(text), LAMBDA line : line # <<>>)
      first == IF Len(lines) > Limit THEN Len(lines) - Limit + 1 ELSE 1
  IN SubSeq(lines, first, Len(lines))

\* A request that is answered has the last complete lines of the file as it was when
\* its size was taken (read-log-tail.ts:5, "complete lines from the end of a UTF-8 text
\* file"), whatever is appended, renamed and created meanwhile.
TailIsOfFile ==
  reader.at = "done" /\ reader.file # 0 =>
    reader.collected = LastLines(Decoded(SubSeq(files[reader.file], 1, reader.size)))
=============================================================================
