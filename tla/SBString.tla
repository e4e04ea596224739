------------------------------ MODULE SBString ------------------------------
(***************************************************************************)
(* The bounded string copies of cfe_sb_util.c that move a string into and *)
(* out of a fixed-size field of a software-bus message:                    *)
(*   CFE_SB_MessageStringSet  copies a C string into the field and pads    *)
(*                            the rest with NUL, without a terminator     *)
(*                            when the string fills the field;            *)
(*   CFE_SB_MessageStringGet  copies the field into a C string, always    *)
(*                            NUL-terminated, using a default string      *)
(*                            when the field is empty.                    *)
(* Each while loop is a RECURSIVE operator, one call per iteration; the   *)
(* results are checked against declarative reference definitions.         *)
(*                                                                         *)
(* A buffer is a function from 1..n to characters; NUL is 0.  The sender  *)
(* sets the field, the receiver gets it into a local buffer of OutSize    *)
(* cells, of which the first DestMaxSize belong to its array and the rest *)
(* stand for the memory that follows it.                                  *)
(***************************************************************************)
EXTENDS Integers, Sequences, FiniteSetsExt

CONSTANTS
  Chars,        \* non-NUL characters
  FieldSize,    \* size of the message's string field
  SrcStrings,   \* source buffers the sender passes (NUL-terminated or not)
  Default,      \* the receiver's default string (NUL-terminated)
  DestSizes,    \* DestMaxSize arguments of the receiver
  Garbage,      \* content of an uninitialised cell
  None          \* no call recorded

NUL == 0
OutSize == Max(DestSizes) + 1
NoDefault == <<>>              \* DefaultString == NULL
CFE_SB_BAD_ARGUMENT == -1

ASSUME /\ NUL \notin Chars
       /\ Garbage \notin Chars \cup {NUL}
       /\ \A s \in SrcStrings : DOMAIN s = 1..FieldSize
       /\ \E i \in DOMAIN Default : Default[i] = NUL

VARIABLES
  field,     \* the string field inside the message
  out,       \* the receiver's buffer and the cell after it
  lastGet,   \* the last MessageStringGet: its inputs and result
  sent       \* ghost: the last MessageStringSet's source and SourceMaxSize

vars == <<field, out, lastGet, sent>>

CharOrNul == Chars \cup {NUL}

TypeOK ==
  /\ field \in [1..FieldSize -> CharOrNul]
  /\ out \in [1..OutSize -> CharOrNul \cup {Garbage}]
  /\ lastGet = None \/
     /\ lastGet.src \in [1..FieldSize -> CharOrNul]
     /\ lastGet.dflt \in {NoDefault, Default}
     /\ lastGet.dm \in DestSizes
     /\ lastGet.result \in (0..(lastGet.dm - 1)) \cup {CFE_SB_BAD_ARGUMENT}
  /\ sent = None \/ sent \in [s : SrcStrings, sm : 0..FieldSize]

-----------------------------------------------------------------------------
(* The copy loop of CFE_SB_MessageStringGet: d is the destination, i the  *)
(* next cell to write, s and j the source and its next cell, sm and dm    *)
(* the remaining SourceMaxSize and DestMaxSize.                           *)
RECURSIVE GetLoop(_, _, _, _, _, _)
GetLoop(d, i, s, j, sm, dm) ==
  IF sm > 0 /\ s[j] # NUL /\ dm > 0
  THEN GetLoop([d EXCEPT ![i] = s[j]], i + 1, s, j + 1, sm - 1, dm - 1)
  ELSE [dest |-> d, next |-> i]

(* Mutant: the loop without the reserve for the NUL (no --DestMaxSize). *)
MessageStringGetNoReserve(d, s, dflt, DestMaxSize, SourceMaxSize) ==
  IF DestMaxSize = 0
  THEN [dest |-> d, result |-> CFE_SB_BAD_ARGUMENT]
  ELSE LET useDflt == dflt # NoDefault /\ (SourceMaxSize = 0 \/ s[1] = NUL)
           r == GetLoop(d, 1, IF useDflt THEN dflt ELSE s, 1,
                        IF useDflt THEN DestMaxSize ELSE SourceMaxSize,
                        DestMaxSize)
       IN  [dest |-> [r.dest EXCEPT ![r.next] = NUL], result |-> r.next - 1]

(* CFE_SB_MessageStringGet *)
MessageStringGet(d, s, dflt, DestMaxSize, SourceMaxSize) ==
  IF DestMaxSize = 0
  THEN [dest |-> d, result |-> CFE_SB_BAD_ARGUMENT]
  ELSE LET useDflt == dflt # NoDefault /\ (SourceMaxSize = 0 \/ s[1] = NUL)
           r == GetLoop(d, 1, IF useDflt THEN dflt ELSE s, 1,
                        IF useDflt THEN DestMaxSize ELSE SourceMaxSize,
                        DestMaxSize - 1)
       IN  [dest |-> [r.dest EXCEPT ![r.next] = NUL], result |-> r.next - 1]

(* The padding loop of CFE_SB_MessageStringSet. *)
RECURSIVE PadLoop(_, _, _)
PadLoop(d, i, dm) ==
  IF dm > 0 THEN PadLoop([d EXCEPT ![i] = NUL], i + 1, dm - 1) ELSE d

(* The copy loop of CFE_SB_MessageStringSet, r counting the copied chars. *)
RECURSIVE SetLoop(_, _, _, _, _, _, _)
SetLoop(d, i, s, j, sm, dm, r) ==
  IF sm > 0 /\ s[j] # NUL /\ dm > 0
  THEN SetLoop([d EXCEPT ![i] = s[j]], i + 1, s, j + 1, sm - 1, dm - 1, r + 1)
  ELSE [dest |-> PadLoop(d, i, dm), result |-> r]

(* Mutant: the copy without the NUL padding of the rest of the field. *)
MessageStringSetNoPad(d, s, DestMaxSize, SourceMaxSize) ==
  LET r == SetLoop(d, 1, s, 1, SourceMaxSize, DestMaxSize, 0)
      n == r.result
  IN  [dest |-> [i \in DOMAIN d |-> IF i <= n THEN r.dest[i] ELSE d[i]],
       result |-> n]

(* CFE_SB_MessageStringSet *)
MessageStringSet(d, s, DestMaxSize, SourceMaxSize) ==
  SetLoop(d, 1, s, 1, SourceMaxSize, DestMaxSize, 0)

-----------------------------------------------------------------------------
(* The sender fills the field of its message from a source buffer,        *)
(* passing sizeof the field as DestMaxSize.                               *)
SetField(s, sm) ==
  /\ field' = MessageStringSet(field, s, FieldSize, sm).dest
  /\ sent' = [s |-> s, sm |-> sm]
  /\ UNCHANGED <<out, lastGet>>

(* The receiver extracts the field into a fresh local buffer, passing     *)
(* sizeof the field as SourceMaxSize.                                     *)
GetField(dflt, dm) ==
  LET r == MessageStringGet([i \in 1..OutSize |-> Garbage], field, dflt, dm,
                            FieldSize)
  IN  /\ out' = r.dest
      /\ lastGet' = [src |-> field, dflt |-> dflt, dm |-> dm,
                     result |-> r.result]
      /\ UNCHANGED <<field, sent>>

Init ==
  /\ field = [i \in 1..FieldSize |-> NUL]
  /\ out = [i \in 1..OutSize |-> Garbage]
  /\ lastGet = None
  /\ sent = None

Next ==
  \/ \E s \in SrcStrings, sm \in 0..FieldSize : SetField(s, sm)
  \/ \E dflt \in {NoDefault, Default}, dm \in DestSizes : GetField(dflt, dm)

Spec == Init /\ [][Next]_vars

-----------------------------------------------------------------------------
(* Reference definitions                                                  *)

(* The length of the C string in the first max cells of b. *)
StrLen(b, max) ==
  LET nuls == {i \in 1..max : b[i] = NUL}
  IN  IF nuls = {} THEN max ELSE Min(nuls) - 1

(* CFE_SB_MessageStringGet returns the field's string, or the default    *)
(* when the field is empty, cut to DestMaxSize - 1 characters, followed  *)
(* by a NUL, and writes nothing else; with DestMaxSize 0 it writes       *)
(* nothing and returns CFE_SB_BAD_ARGUMENT.                              *)
StringGetMatchesReference ==
  lastGet # None =>
    LET g == lastGet
        useDflt == g.dflt # NoDefault /\ StrLen(g.src, FieldSize) = 0
        str == IF useDflt THEN g.dflt ELSE g.src
        n == IF g.dm = 0 THEN 0
             ELSE Min({StrLen(str, IF useDflt THEN Len(str) ELSE FieldSize),
                       g.dm - 1})
    IN  IF g.dm = 0
        THEN /\ g.result = CFE_SB_BAD_ARGUMENT
             /\ \A i \in 1..OutSize : out[i] = Garbage
        ELSE /\ g.result = n
             /\ \A i \in 1..n : out[i] = str[i]
             /\ out[n + 1] = NUL
             /\ \A i \in (n + 2)..OutSize : out[i] = Garbage

(* A string set into the field by CFE_SB_MessageStringSet comes back out *)
(* of CFE_SB_MessageStringGet (without a default) as the sender's string *)
(* cut to the field size, to its SourceMaxSize and to the receiver's     *)
(* DestMaxSize - 1: the padding makes a shorter string overwrite a longer *)
(* one completely, and the receiver stops at the field's end when the    *)
(* string filled it without a terminator.                                *)
FieldRoundTrip ==
  (/\ sent # None /\ lastGet # None
   /\ lastGet.src = field /\ lastGet.dflt = NoDefault /\ lastGet.dm > 0)
    => LET n == Min({StrLen(sent.s, sent.sm), FieldSize, lastGet.dm - 1})
       IN  /\ lastGet.result = n
           /\ \A i \in 1..n : out[i] = sent.s[i]
           /\ out[n + 1] = NUL

=============================================================================
