---------------------------- MODULE DeltaCodec ----------------------------
(***************************************************************************)
(* The delta encoder of delta.py: the scan of compute_delta with its       *)
(* rolling checksum, and apply_delta.  Bytes are numbers; Mod is the word  *)
(* size of the checksum, so that a small one makes blocks collide as a     *)
(* large file does.  The strong checksum does not collide: it is equality. *)
(***************************************************************************)
EXTENDS Integers, FiniteSetsExt, SequencesExt

CONSTANTS BlockSize, Mod

ASSUME CodecAssumption == BlockSize \in Nat \ {0} /\ Mod \in Nat \ {0}

CopyOp(offset, length) == [op |-> "copy", offset |-> offset, length |-> length]
InsertOp(data)         == [op |-> "insert", data |-> data]

\* One scan: where it is, what it compares, the position in the target, the
\* two sums of the window, the literals not emitted yet, and the operations.
VARIABLE scan

NoScan == [at |-> "done", base |-> <<>>, target |-> <<>>, pos |-> 0, a |-> 0, b |-> 0,
           lit |-> <<>>, ops |-> <<>>]

\* data[offset : offset + length], which ends with the data.
Slice(data, offset, length) == SubSeq(data, offset + 1, Min({offset + length, Len(data)}))

Window == Slice(scan.target, scan.pos, BlockSize)

\* _weak_checksum, its two halves apart.
WeakA(w) == MapThenSumSet(LAMBDA i : w[i], DOMAIN w) % Mod
WeakB(w) == MapThenSumSet(LAMBDA i : (Len(w) - i + 1) * w[i], DOMAIN w) % Mod

Offsets(base) == {o \in 0 .. Len(base) - 1 : o % BlockSize = 0}

\* Mutation: a later block takes the place of an earlier one with its sums.
MatchingLast ==
  LET same == {o \in Offsets(scan.base) : LET block == Slice(scan.base, o, BlockSize) IN
                 WeakA(block) = scan.a /\ WeakB(block) = scan.b}
  IN {o \in same : o = Max(same) /\ Slice(scan.base, o, BlockSize) = Window}

\* Mutation: the strong checksum is not compared.
MatchingWeak ==
  {o \in Offsets(scan.base) : LET block == Slice(scan.base, o, BlockSize) IN
     WeakA(block) = scan.a /\ WeakB(block) = scan.b}

\* The blocks in the table under the window's sums that are the window.
Matching ==
  {o \in Offsets(scan.base) : LET block == Slice(scan.base, o, BlockSize) IN
     WeakA(block) = scan.a /\ WeakB(block) = scan.b /\ block = Window}

StartScan(base, target) ==
  scan' = IF base = <<>>
    THEN [NoScan EXCEPT !.at = "flush", !.target = target, !.lit = target, !.pos = Len(target)]
    ELSE [NoScan EXCEPT !.at = "fresh", !.base = base, !.target = target]

\* The outer loop: the tail that is no whole block, or the sums of a window
\* from scratch.
Fresh ==
  /\ scan.at = "fresh"
  /\ scan' = IF Len(Window) < BlockSize
       THEN [scan EXCEPT !.lit = @ \o Window, !.pos = Len(scan.target), !.at = "flush"]
       ELSE [scan EXCEPT !.a = WeakA(Window), !.b = WeakB(Window), !.at = "roll"]

Flushed == IF scan.lit = <<>> THEN scan.ops ELSE Append(scan.ops, InsertOp(scan.lit))

\* Mutation: the literals before a copy are emitted after it.
CopyLate ==
  /\ scan.at = "roll"
  /\ Matching # {}
  /\ scan' = [scan EXCEPT !.ops = Append(@, CopyOp(Min(Matching), BlockSize)),
                          !.pos = @ + BlockSize, !.at = "fresh"]

\* A match: the literals so far, then the first of the blocks.
Copy ==
  /\ scan.at = "roll"
  /\ Matching # {}
  /\ scan' = [scan EXCEPT !.ops = Append(Flushed, CopyOp(Min(Matching), BlockSize)),
                          !.lit = <<>>, !.pos = @ + BlockSize, !.at = "fresh"]

\* Mutation: the byte that leaves is weighed as if it were the second.
SlideLight ==
  /\ scan.at = "roll"
  /\ Matching = {}
  /\ LET out   == scan.target[scan.pos + 1]
         moved == [scan EXCEPT !.lit = Append(@, out), !.pos = @ + 1]
         a     == (scan.a - out + scan.target[scan.pos + 1 + BlockSize]) % Mod
     IN scan' = IF scan.pos + 1 + BlockSize > Len(scan.target)
                  THEN [moved EXCEPT !.at = "fresh"]
                  ELSE [moved EXCEPT !.a = a, !.b = (@ - (BlockSize - 1) * out + a) % Mod]

\* No match: one literal, and the window moves on by a byte.
Slide ==
  /\ scan.at = "roll"
  /\ Matching = {}
  /\ LET out   == scan.target[scan.pos + 1]
         moved == [scan EXCEPT !.lit = Append(@, out), !.pos = @ + 1]
         a     == (scan.a - out + scan.target[scan.pos + 1 + BlockSize]) % Mod
     IN scan' = IF scan.pos + 1 + BlockSize > Len(scan.target)
                  THEN [moved EXCEPT !.at = "fresh"]
                  ELSE [moved EXCEPT !.a = a, !.b = (@ - BlockSize * out + a) % Mod]

Flush ==
  /\ scan.at = "flush"
  /\ scan' = [scan EXCEPT !.ops = Flushed, !.lit = <<>>, !.at = "done"]

Scan == Fresh \/ Copy \/ Slide \/ Flush

\* One compute_delta after the other, of any two files.
CodecNext ==
  \/ scan.at = "done" /\ \E base, target \in Seq(Int) : StartScan(base, target)
  \/ Scan
  \/ scan.at = "done" /\ scan' = NoScan

CodecSpec == scan = NoScan /\ [][CodecNext]_scan

\* apply_delta
ApplyDelta(base, ops) ==
  FlattenSeq([i \in DOMAIN ops |->
    IF ops[i].op = "copy" THEN Slice(base, ops[i].offset, ops[i].length) ELSE ops[i].data])

-----------------------------------------------------------------------------
(***************************************************************************)
(* Properties                                                              *)
(***************************************************************************)
\* What was emitted and the literals held back are the target so far.
ScanExact == ApplyDelta(scan.base, scan.ops) \o scan.lit = SubSeq(scan.target, 1, scan.pos)

\* The reason for the scan: no whole block of the base is left among the
\* literals, although only windows with equal sums are looked at.
NoBlockMissed ==
  \A i \in DOMAIN scan.ops : scan.ops[i].op = "insert" =>
    \A o \in Offsets(scan.base), p \in 0 .. Len(scan.ops[i].data) - BlockSize :
      Slice(scan.ops[i].data, p, BlockSize) # Slice(scan.base, o, BlockSize)

=============================================================================
