---------------------------- MODULE RecordFormat ----------------------------
(***************************************************************************)
(* The record file: proto/writeProto.go and proto/readProto.go.            *)
(*                                                                         *)
(* Data is a sequence of symbols.  A symbol stands for one byte ("\n", "t",*)
(* or any other), or for a field that nothing looks into: the magic header *)
(* up to its last two bytes, the fixed fields (time stamp, type, length),  *)
(* and the FromTo text, which has no line break and is longer than a byte. *)
(* A packet is a record [body, from, to]; its time is given when written.  *)
(***************************************************************************)
EXTENDS Integers, Sequences, SequencesExt

Prefix == <<"--benbens--">>
NL     == <<"newline">>
T      == <<"t">>
Fixed(time, length) == <<"fixed", time, length>>
FromTo(from, to)    == <<"fromto", from, to>>

MagicHeader == <<Prefix, NL, T>>

-----------------------------------------------------------------------------
(* Writing.                                                                *)

\* The sequence occurs in data at place i.
OccursAt(s, data, i) == i >= 1 /\ IsPrefix(s, SubSeq(data, i, Len(data)))

\* Mutant: nothing is taken apart.
HandleNothing(body) == body

\* Every "\nt" gets a second "\n".
HandleDataBody(body) ==
  FlattenSeq([i \in 1 .. Len(body) |->
                IF OccursAt(<<NL, T>>, body, i) THEN <<NL, NL>> ELSE <<body[i]>>])

\* The length in the header is that of the body after HandleDataBody.
Marshal(p, time) ==
  LET body == HandleDataBody(p.body)
  IN  MagicHeader \o <<Fixed(time, Len(body)), FromTo(p.from, p.to), NL>> \o body

-----------------------------------------------------------------------------
(* Reading one record.                                                     *)

\* Only those that follow the magic prefix are removed again.
RemoveNewlineAfter(body) ==
  FlattenSeq([i \in 1 .. Len(body) |->
                IF OccursAt(<<Prefix, NL, NL, T>>, body, i - 1) THEN <<>> ELSE <<body[i]>>])

Nothing == [kind |-> "none"]
Error   == [kind |-> "error"]
Panic   == [kind |-> "panic"]

\* The loop over FromTo runs out of the data when there is no line break in it.
UnMarshal(data) ==
  LET fromTo   == Len(MagicHeader) + 2
      newlines == {i \in fromTo .. Len(data) : data[i] = NL}
      at       == CHOOSE i \in newlines : \A j \in newlines : i <= j
      after    == RemoveNewlineAfter(SubSeq(data, at + 1, Len(data)))
  IN  CASE ~IsPrefix(MagicHeader, data) \/ Len(data) < fromTo -> Error
        [] IsPrefix(MagicHeader, data) /\ Len(data) >= fromTo /\ newlines = {} -> Panic
        [] OTHER ->
             IF data[fromTo - 1][3] # Len(after) THEN Error
             ELSE [kind |-> "packet", body |-> after, time |-> data[fromTo - 1][2],
                   from |-> data[fromTo][2], to |-> data[fromTo][3]]

-----------------------------------------------------------------------------
(* Taking records off a stream.                                            *)

Delims(data) == {i \in 1 .. Len(data) : OccursAt(MagicHeader, data, i)}

\* Mutant: what has been read is taken for a whole record.
SplitEagerly(data, atEOF) ==
  LET starts == Delims(data)
  IN  IF starts = {} THEN [advance |-> IF atEOF THEN Len(data) ELSE 0, token |-> <<>>]
      ELSE [advance |-> Len(data), token |-> SubSeq(data, Min(starts), Len(data))]

\* The split function of the scanner: how far it advances, and the token (<<>> for
\* none).  A record ends where the next begins, or at the end of the file.
Split(data, atEOF) ==
  LET starts == Delims(data)
      first  == Min(starts)
      later  == starts \ {first}
      end    == IF later = {} THEN Len(data) ELSE Min(later) - 1
  IN  IF starts = {} THEN [advance |-> IF atEOF THEN Len(data) ELSE 0, token |-> <<>>]
      ELSE IF later = {} /\ ~atEOF THEN [advance |-> 0, token |-> <<>>]
      ELSE [advance |-> end, token |-> SubSeq(data, first, end)]
=============================================================================
