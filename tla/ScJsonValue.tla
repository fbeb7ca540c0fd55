----------------------------- MODULE ScJsonValue -----------------------------
(***************************************************************************)
(* Values of JSON: how they are made and read, what becomes of them in a   *)
(* node of cJSON and back, and what references to items of arrays and      *)
(* objects answer; and what is said of a text that is no JSON. A value is   *)
(* its type and what the union holds. A number is a double, given here by  *)
(* how many halves it is. cJSON is external.                               *)
(***************************************************************************)
EXTENDS Integers, Sequences, SequencesExt, FiniteSetsExt

CONSTANTS IntBits,     \* of an int
          DoubleBits,  \* of the mantissa of a double, half a unit included
          LongBits     \* of scint64

Signed(bits) == -(2 ^ (bits - 1)) .. 2 ^ (bits - 1) - 1
IntRange == Signed(IntBits)
Long == Signed(LongBits)

\* The double next to so many halves, the even one of two: the step doubles with the size.
Rounded(halves) ==
  LET size == IF halves < 0 THEN -halves ELSE halves
      step == Min({2 ^ k : k \in {k \in 0 .. LongBits + 1 : size < 2 ^ (DoubleBits + k)}})
      low  == (size \div step) * step
      near == IF 2 * (size - low) < step \/ (2 * (size - low) = step /\ (low \div step) % 2 = 0)
              THEN low ELSE low + step
  IN  IF halves < 0 THEN -near ELSE near

-----------------------------------------------------------------------------
(* Constructors                                                             *)

Value(type, content) == [type |-> type, content |-> content]
NullValue == Value("Null", FALSE)
InvalidValue == Value("Invalid", FALSE)
OfBool(b) == Value("Bool", b)
OfInteger(n) == Value("Number", Rounded(2 * n))      \* int, scint64 and scuint64
OfDouble(halves) == Value("Number", halves)
OfString(s) == Value("String", s)                     \* an empty array is Value("Array", <<>>)
OfArray == Value("Array", <<>>)
OfObject == Value("Object", <<>>)
Nothing == Value("Moved", FALSE)                      \* d_ptr of a value that was moved is null

Gone(v) == v.type = "Moved"
Type(v) == IF Gone(v) THEN "Invalid" ELSE v.type

\* The copy constructor; a copy of nothing is null. A text is assigned to a ScString that
\* was never constructed, and nothing is known of what comes of it; a container's
\* pointer is overwritten, whatever it was.
Unknown == "unknown"
Copy(v) ==
  IF Gone(v) THEN NullValue ELSE IF v.type = "String" THEN OfString(Unknown) ELSE v

-----------------------------------------------------------------------------
(* What a value is read as                                                  *)

Read(v, type, default) == IF v.type = type THEN v.content ELSE default
toBool(v, default) == Read(v, "Bool", default)
toDouble(v, default) == Read(v, "Number", default)
toString(v, default) == Read(v, "String", default)

toIntFault(v, default) == IF v.type # "Number" THEN default ELSE v.content \div 2

\* A double is an int if the conversion there and back leaves it as it is.
toInt(v, default) ==
  IF v.type = "Number" /\ v.content % 2 = 0 /\ v.content \div 2 \in IntRange
  THEN v.content \div 2 ELSE default

\* Of two values of other types than Bool and Number only the types are compared.
Equal(v, w) ==
  /\ ~Gone(v) /\ v.type = Type(w)
  /\ v.type \in {"Bool", "Number"} => v.content = w.content

-----------------------------------------------------------------------------
(* Nodes. NoNode is the null pointer; a null of JSON and a value that is null *)
(* or invalid reach SC_UNREACHABLE().                                       *)

NoNode == Value("None", FALSE)
Convertible(v) == Type(v) \notin {"Null", "Invalid"}

\* Up to the first NUL.
CString(s) == SubSeq(s, 1, Min({i - 1 : i \in {i \in DOMAIN s : s[i] = 0}} \cup {Len(s)}))

\* An array or object is put in as an empty one.
ToNode(v) ==
  CASE v.type = "Bool"   -> Value(IF v.content THEN "True" ELSE "False", FALSE)
    [] v.type = "Number" -> v
    [] v.type = "String" -> Value("String", CString(v.content))
    [] v.type = "Array"  -> OfArray
    [] v.type = "Object" -> OfObject

FromNode(n) ==
  CASE n.type = "None"  -> InvalidValue
    [] n.type = "False" -> OfBool(FALSE)
    [] n.type = "True"  -> OfBool(TRUE)
    [] OTHER            -> n

\* Nodes of an array. What is out of range has no node.
at(array, i) == IF i \in 0 .. Len(array) - 1 THEN FromNode(array[i + 1]) ELSE InvalidValue
first(array) == at(array, 0)
last(array) == at(array, Len(array) - 1)

\* Members of an object are found whatever the case of their key; Folded gives the case
\* up. Put in anew, a member takes the key that it is put in with.
Folded(key) == key[1]
Places(object, key) == {i \in DOMAIN object : Folded(object[i].key) = Folded(key)}
contains(object, key) == Places(object, key) # {}
objectItem(object, key) ==
  IF contains(object, key) THEN object[Min(Places(object, key))].node ELSE NoNode
value(object, key) == FromNode(objectItem(object, key))
keyAt(object, i) == IF i \in 0 .. Len(object) - 1 THEN object[i + 1].key ELSE ""

addOrReplaceFault(object, key, v) == Append(object, [key |-> key, node |-> ToNode(v)])
addOrReplace(object, key, v) ==
  LET member == [key |-> key, node |-> ToNode(v)]
  IN  IF contains(object, key)
      THEN [object EXCEPT ![Min(Places(object, key))] = member]
      ELSE Append(object, member)

removed(object, key) ==
  IF contains(object, key)
  THEN LET place == Min(Places(object, key))
       IN  SubSeq(object, 1, place - 1) \o SubSeq(object, place + 1, Len(object))
  ELSE object

\* toValue() of a reference, which every question to it goes through.
RefToItem(array, i) == at(array, i)
RefToMember(object, key) == value(object, key)

-----------------------------------------------------------------------------
(* What is meant                                                            *)

\* A number is read as the int it is, or not at all; a large one as a double nearby.
IntegersAreRight(n) ==
  LET v == OfInteger(n)
  IN  /\ toInt(v, 1) = IF n \in IntRange THEN n ELSE 1
      /\ \A m \in Long : Rounded(2 * m) = 2 * m => (m <= n => 2 * m <= v.content) /\ (m >= n => 2 * m >= v.content)

\* What a node keeps of a value: a string to the first NUL.
Kept(v) == IF v.type = "String" THEN OfString(CString(v.content)) ELSE v

\* Into a node and out of it a value is what a node keeps; it is read as what it is and
\* as nothing else; a copy is what it is of, if that is no string; and equality does not
\* depend on the side, nor holds between types or between numbers or truth values that
\* differ. Of strings and containers nothing is said: any two of a type are equal.
ValuesAreRight(v, w) ==
  /\ Convertible(v) => FromNode(ToNode(v)) = Kept(v)
  /\ Type(v) \notin {"String", "Invalid"} => Copy(v) = v
  /\ Type(v) # "Bool" <=> toBool(v, TRUE) /\ ~toBool(v, FALSE)
  /\ Type(v) # "Number" <=> toDouble(v, 1) = 1 /\ toDouble(v, 2) = 2
  /\ ~Gone(v) /\ ~Gone(w) => Equal(v, w) = Equal(w, v)
  /\ ~Gone(v) /\ Equal(v, w) /\ Type(w) \in {"Null", "Bool", "Number"} => v = w
  /\ toInt(v, 1) = 1 \/ toDouble(v, 1) = 2 * toInt(v, 1)

\* After members were put in one after the other, each is found by its key in any case,
\* with the value that was put in last, and once; a reference to it reads that value,
\* and none is found when it is removed.
MembersAreRight(keys, values) ==
  LET object[i \in 0 .. Len(keys)] ==
        IF i = 0 THEN <<>> ELSE addOrReplace(object[i - 1], keys[i], values[i])
      all == object[Len(keys)]
  IN  \A k \in DOMAIN keys :
        LET same == {j \in DOMAIN keys : Folded(keys[j]) = Folded(keys[k])}
            end  == Max(same)
        IN  /\ RefToMember(all, keys[k]) = Kept(values[end])
            /\ Cardinality(Places(all, keys[k])) = 1
            /\ keyAt(all, Min(Places(all, keys[k])) - 1) = keys[end]
            /\ value(removed(all, keys[k]), keys[end]).type = "Invalid"
            /\ Len(removed(all, keys[k])) = Len(all) - 1

\* A reference out of range is invalid, any other reads the item.
ItemsAreRight(values) ==
  LET array == [i \in DOMAIN values |-> ToNode(values[i])]
  IN  /\ \A i \in -1 .. Len(values) :
           IF i \in 0 .. Len(values) - 1 THEN RefToItem(array, i) = Kept(values[i + 1])
           ELSE RefToItem(array, i).type = "Invalid"
      /\ values = <<>> => first(array).type = "Invalid" /\ last(array).type = "Invalid"
      /\ values # <<>> => first(array) = Kept(values[1]) /\ last(array) = Kept(values[Len(values)])

-----------------------------------------------------------------------------
(* What is said of a text that is no JSON. A text is a sequence of the codes of its
   characters, a place in it counts from 0. cJSON gives the place where it stopped, or
   NoPlace when it parsed the text or nobody asked. *)

NoPlace == -1

Spaces == {32, 9, 10, 13}
Bom == <<239, 187, 191>>
BeginArray == 91
EndArray == 93
BeginObject == 123
EndObject == 125

Error(e, offset) == [error |-> e, offset |-> offset]

\* eatBOM(): where the text begins. A char is signed and the mark is not: no char is
\* equal to one of the mark, and nothing is skipped.
Char(code) == IF code < 128 THEN code ELSE code - 256
Begin(text) ==
  IF Len(text) > 3 /\ \A i \in 1 .. 3 : Char(text[i]) = Bom[i] THEN 3 ELSE 0

\* eatEndSpace(), back to json at the most, and eatSpace(), which stop at a
\* character that isTokenVisible().
End(text, json) == Max({i \in json + 1 .. Len(text) : text[i] \notin Spaces} \cup {json})
First(text, json, end) == Min({i \in json .. end - 1 : text[i + 1] \notin Spaces} \cup {end})

\* parseArrayError() and parseObjectError(), of what has its last visible character
\* before end.
ClosedBy(text, end, offset, bracket, unterminated) ==
  IF offset < 0 /\ text[end] # bracket THEN Error("GarbageAtEnd", end - 1)
  ELSE Error(IF Len(text) = offset THEN unterminated ELSE "NoError", offset)

\* parse(). nextToken() has gone behind the first visible character, if there is one.
Parse(text, offset) ==
  LET json == Begin(text)
      end == End(text, json)
      start == First(text, json, end)
  IN  IF start < end /\ text[start + 1] = BeginArray
      THEN ClosedBy(text, end, offset, EndArray, "UnterminatedArray")
      ELSE IF start < end /\ text[start + 1] = BeginObject
      THEN ClosedBy(text, end, offset, EndObject, "UnterminatedObject")
      ELSE Error("IllegalValue", IF start < end THEN start + 1 ELSE start)

-----------------------------------------------------------------------------
(* What is meant.                                                          *)

\* The text without the spaces around it.
VisiblePlaces(text) == {i \in 1 .. Len(text) : text[i] \notin Spaces}

Closing(c) == IF c = BeginArray THEN EndArray ELSE EndObject

\* Whatever stands around it, a value is an array or an object or illegal; a text that
\* was read to the end and is not closed by its last character has garbage there, and
\* the place is that of the garbage; one that cJSON gave up at its end was not
\* terminated; and no place lies outside of the text (scjson_p.cpp:28-140). Left out are
\* a text with a mark, which is always called illegal, and what is said of one that cJSON
\* gave up before its end, which is called free of errors.
ErrorIsRight(text) ==
  \A offset \in {NoPlace} \cup 0 .. Len(text) :
    LET r == Parse(text, offset)
        places == VisiblePlaces(text)
        begins == places # {} /\ text[Min(places)] \in {BeginArray, BeginObject}
        closed == begins /\ text[Max(places)] = Closing(text[Min(places)])
    IN  /\ r.offset \in {NoPlace} \cup 0 .. Len(text)
        /\ r.error = "IllegalValue" <=> ~begins
        /\ begins /\ offset = NoPlace /\ ~closed => r = Error("GarbageAtEnd", Max(places) - 1)
        /\ begins /\ offset = NoPlace /\ closed => r.error = "NoError"
        /\ begins /\ offset = Len(text) => r.error \in {"UnterminatedArray", "UnterminatedObject"}
=============================================================================
