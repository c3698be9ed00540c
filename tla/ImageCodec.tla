----------------------------- MODULE ImageCodec -----------------------------
(***************************************************************************)
(* Camera frames on the wire (alpaca/imagebytes.go, server/imagearray.go,  *)
(* client/imagearray.go).  A driver's pixels are row-major, the wire's are *)
(* column-major, in both transports; colour planes travel as they are.     *)
(* Pixels are numbers; the width of their encoding is left out.            *)
(***************************************************************************)
EXTENDS Integers, Sequences

CONSTANT Workers  \* goroutines that share a transposition

ASSUME WorkersAssumption == Workers \in Nat \ {0}

\* Indices are the code's: a sequence's i-th element has index i - 1.
PixelAt(pix, i) == pix[i + 1]

\* What one goroutine writes: the source rows r0 up to r1.
Band(src, rows, cols, r0, r1) ==
  [i \in {c * rows + r : c \in 0..(cols - 1), r \in r0..(r1 - 1)} |->
     PixelAt(src, (i % rows) * cols + i \div rows)]

\* A band that loses the rows left over when the workers do not divide them.
TransposeInto_Floor(src, rows, cols) ==
  LET workers == IF Workers > rows THEN rows ELSE Workers
      band == rows \div workers
      whole == Band(src, rows, cols, 0, workers * band)
  IN [k \in 1..Len(src) |-> IF k - 1 \in DOMAIN whole THEN whole[k - 1] ELSE 0]

\* The transposition of a rows x cols grid, band by band; what no band writes stays 0.
TransposeInto(src, rows, cols) ==
  LET workers == IF Workers > rows THEN rows ELSE Workers
      band == (rows + workers - 1) \div workers
      End(r0) == IF r0 + band > rows THEN rows ELSE r0 + band
      bands == {Band(src, rows, cols, r0, End(r0)) : r0 \in {r \in 0..(rows - 1) : r % band = 0}}
  IN [k \in 1..Len(src) |->
        IF \E b \in bands : k - 1 \in DOMAIN b
        THEN (CHOOSE b \in bands : k - 1 \in DOMAIN b)[k - 1] ELSE 0]

Sized(f) == f.w > 0 /\ f.h > 0 /\ Len(f.pix) = f.w * f.h * (IF f.rank = 2 THEN 1 ELSE f.planes)

-----------------------------------------------------------------------------
(* ImageBytes.  The fixed header is one unit, a pixel is one unit.           *)

HeaderLen == 1

EncodeImageBytes(f) ==
  [err |-> 0, start |-> HeaderLen, rank |-> f.rank, w |-> f.w, h |-> f.h, planes |-> f.planes,
   pix |-> IF f.rank = 2 /\ Sized(f) THEN TransposeInto(f.pix, f.h, f.w) ELSE f.pix]

EncodeImageBytesError(err) ==
  [err |-> err, start |-> HeaderLen, rank |-> 0, w |-> 0, h |-> 0, planes |-> 0, pix |-> <<>>]

\* The payload begins where the header says, at the end of the message at the latest.
\* A unit of the header that is read as a pixel is 0.
Payload(m) ==
  LET units == <<0>> \o m.pix
  IN SubSeq(units, (IF m.start > Len(units) THEN Len(units) ELSE m.start) + 1, Len(units))

DecodeImageBytes(m) ==
  LET wire == Payload(m)
      f == [rank |-> m.rank, w |-> m.w, h |-> m.h, planes |-> m.planes, pix |-> wire]
  IN IF f.rank = 2 /\ Sized(f) THEN [f EXCEPT !.pix = TransposeInto(wire, f.w, f.h)] ELSE f

-----------------------------------------------------------------------------
(* The JSON ImageArray.  Value[x][y] is written out flat, x slowest.         *)

Malformed == 1279  \* ErrNumUnspecified

WriteImageArrayJSON(f) ==
  IF (f.rank # 2 /\ f.planes <= 0) \/ f.rank \notin {2, 3} \/ ~Sized(f)
  THEN EncodeImageBytesError(Malformed)
  ELSE [EncodeImageBytesError(0) EXCEPT
          !.rank = f.rank, !.w = f.w, !.h = f.h, !.planes = f.planes,
          !.pix = IF f.rank = 2
                  THEN [k \in 1..(f.w * f.h) |-> PixelAt(f.pix, ((k - 1) % f.h) * f.w + (k - 1) \div f.h)]
                  ELSE f.pix]

\* Dimensions come from the nesting of Value, which here the message carries.
DecodeImageArrayJSON(m) ==
  [rank |-> m.rank, w |-> m.w, h |-> m.h, planes |-> m.planes,
   pix |-> IF m.rank = 2
           THEN [k \in 1..(m.w * m.h) |-> PixelAt(m.pix, ((k - 1) % m.w) * m.h + (k - 1) \div m.w)]
           ELSE m.pix]
=============================================================================
