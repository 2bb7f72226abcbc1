------------------------------- MODULE MWWire -------------------------------
(***************************************************************************)
(* What the five implementations of MWRMComm make of a message: the calls  *)
(* of pack() between initsend() and send(), and the calls of unpack() that *)
(* follow recv() on the other side.                                        *)
(*                                                                         *)
(* An item is one call of pack: a type and the values of the array.  Most  *)
(* back ends keep the bytes of the values and nothing else; there a value  *)
(* is found again only by a read of its type at the place where it starts. *)
(* MW-File writes text, and keeps the types.  Garbage is whatever a read   *)
(* returns that does not find a value.                                     *)
(*                                                                         *)
(* A CHAR is any value, a STRING a sequence of them; a real number is its  *)
(* count of ten-millionths; a LONG is <<the upper, the lower 32 bits>>.    *)
(***************************************************************************)
EXTENDS Integers, SequencesExt

CONSTANTS
  Garbage,     \* what is read where nothing is written
  Blank,       \* a CHAR that is white space
  MaxMessage   \* MWSOCKET_MAX_MSG_SIZE

ASSUME MaxMessageIsNatural == MaxMessage \in Nat

BackEnd == {"Ind", "Socket", "File", "PVM", "MPI"}

(* MWFileTypes.h numbers the types from 0. *)
FileTypes == <<"INT", "CHAR", "LONG", "FLOAT", "DOUBLE", "UNSIGNED_INT", "SHORT",
               "UNSIGNED_SHORT", "UNSIGNED_LONG", "STRING">>
Type == ToSet(FileTypes)
FileTypeNumber(type) == CHOOSE i \in 0..9 : FileTypes[i + 1] = type

Item(type, vals) == [type |-> type, vals |-> vals]
Num(i) == Item("INT", <<i>>)
Ints(s) == Item("INT", s)
Double(d) == Item("DOUBLE", <<d>>)
Chars(s) == Item("CHAR", s)
Text(s) == Item("STRING", <<s>>)

(* A call of unpack: so many values of a type. *)
Read(type, n) == [type |-> type, n |-> n]
(* A number that was read, as the length of what to read next. *)
Count(v) == IF v = Garbage THEN 0 ELSE v

Size(type, val) ==
  CASE type = "CHAR" -> 1
    [] type \in {"SHORT", "UNSIGNED_SHORT"} -> 2
    [] type \in {"INT", "UNSIGNED_INT", "FLOAT"} -> 4
    [] type = "STRING" -> 4 + Len(val)
    [] OTHER -> 8

-----------------------------------------------------------------------------
(* Packing.  mem is what the bytes hold, by where a value starts, and size   *)
(* the next free one; list and sum are the sendList and checksum of MW-File. *)

EmptyBuffer == [mem |-> <<>>, size |-> 0, list |-> <<>>, sum |-> 0]

(* Op(v), where TLC works out v once. *)
Once(Op(_), v) == CHOOSE d \in {Op(e) : e \in {v}} : TRUE

(* The bytes of a value go over what was there before. *)
PutOne(b, type, val) ==
  LET end == b.size + Size(type, val)
      kept == {p \in DOMAIN b.mem : p + Size(b.mem[p].type, b.mem[p].val) <= b.size \/ end <= p}
  IN [b EXCEPT !.mem = [p \in kept \cup {b.size} |->
                          IF p = b.size THEN [type |-> type, val |-> val] ELSE @[p]],
               !.size = end]
PutAll(b, x) == FoldLeft(LAMBDA c, v : Once(LAMBDA d : PutOne(d, x.type, v), c), b, x.vals)

(* Mutant of IndInitsend: a message is appended to the one before. *)
IndInitsendAppends(b) == b

(* MW-Independent: one buffer for master and worker, which nothing clears: a *)
(* message is written over the one before.                                   *)
IndInitsend(b) == [b EXCEPT !.size = 0]
IndPack(b, x) == PutAll(b, x)

PvmPack(b, x) == PutAll(b, x)

MpiPack(b, x) == PutAll(b, x)
(* A string is its length, an MPI_INT, and its characters. *)
MpiPackString(b, x) == PutAll(b, x)

(* htonl takes the lower half of a long. *)
Marshalled(type, val) ==
  IF val # Garbage /\ type \in {"LONG", "UNSIGNED_LONG"} THEN <<0, val[2]>> ELSE val
(* An array is packed whole or not at all. *)
SocketPack(b, x) ==
  IF b.size + Len(x.vals) * Size(x.type, <<>>) > MaxMessage
  THEN b
  ELSE PutAll(b, [x EXCEPT !.vals = [i \in DOMAIN @ |-> Marshalled(x.type, @[i])]])
(* The test takes four bytes for each character and none for the length. *)
SocketPackString(b, x) ==
  IF b.size + 4 * Len(x.vals[1]) > MaxMessage THEN b ELSE PutAll(b, x)

FileAppend(b, x) ==
  [b EXCEPT !.list = @ \o [i \in DOMAIN x.vals |-> [type |-> x.type, val |-> x.vals[i]]],
            !.sum = @ + Len(x.vals) * FileTypeNumber(x.type)]
FilePackReal(b, x) == FileAppend(b, x)
FilePackInteger(b, x) == FileAppend(b, x)
(* The empty string is not packed. *)
FilePackString(b, x) == IF x.vals[1] = <<>> THEN b ELSE FileAppend(b, x)

PackItem(rmc, b, x) ==
  CASE rmc = "Ind" -> IndPack(b, x)
    [] rmc = "PVM" -> PvmPack(b, x)
    [] rmc = "MPI" -> IF x.type = "STRING" THEN MpiPackString(b, x) ELSE MpiPack(b, x)
    [] rmc = "Socket" -> IF x.type = "STRING" THEN SocketPackString(b, x) ELSE SocketPack(b, x)
    [] rmc = "File" -> CASE x.type = "STRING" -> FilePackString(b, x)
                         [] x.type \in {"CHAR", "FLOAT", "DOUBLE"} -> FilePackReal(b, x)
                         [] OTHER -> FilePackInteger(b, x)

(* The message: the items packed after initsend. *)
Packed(rmc, b, items) ==
  FoldLeft(LAMBDA c, x : Once(LAMBDA d : PackItem(rmc, d, x), c),
           IF rmc = "Ind" THEN IndInitsend(b) ELSE EmptyBuffer, items)

-----------------------------------------------------------------------------
(* The file of MW-File, written by send() and read by recv(). *)

(* "%f" writes six decimals; of a string whose first character is blank the *)
(* reader skips that one and takes the separator after it instead.          *)
Printed(type, val) ==
  CASE val = Garbage -> val
    [] val # Garbage /\ type \in {"FLOAT", "DOUBLE"} -> ((val + 5) \div 10) * 10
    [] val # Garbage /\ type = "STRING" -> IF Head(val) = Blank THEN Append(Tail(val), Blank) ELSE val
    [] OTHER -> val

(* A blank character is skipped with the separators, and the rest is read    *)
(* out of step.                                                              *)
InStep(list) == \A i \in DOMAIN list : list[i].type = "CHAR" => list[i].val # Blank
BeforeBlank(list) == SelectInSeq(list, LAMBDA e : e.type = "CHAR" /\ e.val = Blank) - 1

(* What can be read of a file: the list, or that it is not in order (the     *)
(* checksum, or a type there is none of).                                    *)
FileRead(b) ==
  LET text == [i \in DOMAIN b.list |->
                 [b.list[i] EXCEPT !.val = Printed(b.list[i].type, @)]]
      sum == FoldLeft(LAMBDA s, e : s - FileTypeNumber(e.type), b.sum, text)
  IN IF InStep(text)
     THEN {[ok |-> sum = 0, list |-> text]}
     ELSE {[ok |-> FALSE, list |-> <<>>],
           [ok |-> TRUE, list |-> SubSeq(text, 1, BeforeBlank(text))]}

HandleFinishedWorker(b) == FileRead(b)   \* the master's reader
HandleWork(b) == FileRead(b)             \* the worker's

-----------------------------------------------------------------------------
(* Unpacking, from a buffer with the next byte to be read (pos), the list of *)
(* MW-File and, for PVM, the messages received after this one (rest).        *)

Opened(b, list, rest) ==
  [mem |-> b.mem, size |-> b.size, pos |-> 0, list |-> list, rest |-> rest]

Nowhere == 1000000
At(b, p, type) ==
  IF p \in DOMAIN b.mem /\ b.mem[p].type = type THEN b.mem[p].val ELSE Garbage

Got(b, vals, ok) == [buf |-> b, vals |-> vals, ok |-> ok]
Failed(b, n) == Got(b, [i \in 1..n |-> Garbage], FALSE)

(* The values from pos on, whatever they are. *)
TakeBytes(b, type, n) ==
  IF type = "STRING"
  THEN LET s == At(b, b.pos, type)
       IN Got([b EXCEPT !.pos = IF s = Garbage THEN Nowhere ELSE @ + Size(type, s)], <<s>>, TRUE)
  ELSE Got([b EXCEPT !.pos = @ + n * Size(type, <<>>)],
           [i \in 1..n |-> At(b, b.pos + (i - 1) * Size(type, <<>>), type)], TRUE)
IsThere(b, type, n) == TakeBytes(b, type, n).buf.pos <= b.size

IndUnpack(b, type, n) == TakeBytes(b, type, n)

SocketUnpack(b, type, n) ==
  IF IsThere(b, type, n) THEN TakeBytes(b, type, n) ELSE Failed(b, n)
(* The length is consumed even if the characters are not there. *)
SocketUnpackString(b) ==
  IF IsThere(b, "STRING", 1) THEN TakeBytes(b, "STRING", 1)
  ELSE Failed([b EXCEPT !.pos = IF @ + 4 <= b.size THEN @ + 4 ELSE @], 1)

(* At the end of a message the next one that was received takes its place. *)
NextBuf(b) == Opened(Head(b.rest).buf, <<>>, Tail(b.rest))
PvmUnpackFrom(b, type, n) ==
  IF IsThere(b, type, n) THEN TakeBytes(b, type, n) ELSE Failed(b, n)
PvmUnpack(b, type, n) ==
  IF IsThere(b, type, n) \/ b.rest = <<>>
  THEN PvmUnpackFrom(b, type, n)
  ELSE PvmUnpackFrom(NextBuf(b), type, n)

(* &f, where f is the pointer already: the caller's variable is not set.     *)
ByReference == {"FLOAT", "UNSIGNED_INT", "SHORT", "UNSIGNED_SHORT", "LONG", "UNSIGNED_LONG"}
MpiUnpack(b, type, n) ==
  LET r == TakeBytes(b, type, n)
  IN CASE ~IsThere(b, type, n) -> Failed(b, n)
       [] type \in ByReference -> Got(r.buf, [i \in 1..n |-> Garbage], TRUE)
       [] OTHER -> r
(* The length is read into a char. *)
MpiUnpackString(b) ==
  LET r == TakeBytes(b, "STRING", 1)
  IN IF ~IsThere(b, "STRING", 1) \/ Len(r.vals[1]) >= 128 THEN Failed(b, 1) ELSE r

(* As many of the values as are of the type; the one that is not goes back. *)
FileUnpack(b, type, n) ==
  LET k == CHOOSE j \in 0..n :
             /\ j <= Len(b.list) /\ \A i \in 1..j : b.list[i].type = type
             /\ j < n => j = Len(b.list) \/ b.list[j + 1].type # type
  IN Got([b EXCEPT !.list = SubSeq(@, k + 1, Len(@))],
         [i \in 1..n |-> IF i <= k THEN b.list[i].val ELSE Garbage], k = n)
FileUnpackReal(b, type, n) == FileUnpack(b, type, n)
FileUnpackInteger(b, type, n) == FileUnpack(b, type, n)
FileUnpackString(b) == FileUnpack(b, "STRING", 1)

Unpack(rmc, b, r) ==
  LET text == r.type = "STRING"
  IN CASE rmc = "Ind" -> IndUnpack(b, r.type, r.n)
       [] rmc = "PVM" -> PvmUnpack(b, r.type, r.n)
       [] rmc = "MPI" -> IF text THEN MpiUnpackString(b) ELSE MpiUnpack(b, r.type, r.n)
       [] rmc = "Socket" -> IF text THEN SocketUnpackString(b) ELSE SocketUnpack(b, r.type, r.n)
       [] rmc = "File" -> CASE text -> FileUnpackString(b)
                            [] r.type \in {"CHAR", "FLOAT", "DOUBLE"} ->
                                 FileUnpackReal(b, r.type, r.n)
                            [] OTHER -> FileUnpackInteger(b, r.type, r.n)

-----------------------------------------------------------------------------
(* The room a value needs of MW-Socket, counted as its pack() does. *)
Claim(type, v) == IF type = "STRING" THEN 4 + 4 * Len(v) ELSE Size(type, v)

(* What a back end brings over as it was packed.  MW-Independent and PVM:    *)
(* everything.                                                               *)
Carries(rmc, x) ==
  \A i \in DOMAIN x.vals :
     LET v == x.vals[i]
     IN CASE rmc = "File" -> /\ x.type = "CHAR" => v # Blank
                             /\ x.type = "STRING" => v # <<>> /\ Head(v) # Blank
                             /\ x.type \in {"FLOAT", "DOUBLE"} => v % 10 = 0
          [] rmc = "Socket" -> x.type \in {"LONG", "UNSIGNED_LONG"} => v[1] = 0
          [] rmc = "MPI" -> /\ x.type \notin ByReference
                            /\ x.type = "STRING" => Len(v) < 128
          [] OTHER -> TRUE
CarriesAll(rmc, items) ==
  /\ \A i \in DOMAIN items : Carries(rmc, items[i])
  /\ rmc = "Socket" =>
       FoldLeft(LAMBDA n, x : n + FoldLeft(LAMBDA k, v : k + Claim(x.type, v), 0, x.vals),
                0, items) <= MaxMessage
=============================================================================
