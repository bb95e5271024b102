------------------------- MODULE PythonPayloadProofs --------------------------
(***************************************************************************)
(* Proofs about what the Python SDK does before it sends an event, for     *)
(* every graph of properties, depth and largest safe integer that is odd.  *)
(* PayloadInvariant is inductive: the set of ancestors that the calls of   *)
(* _container share holds exactly the containers they are in, each of      *)
(* which is a value of the one around it and has been read up to there.    *)
(* WalkInvariant is inductive with it: below a container the walk has left *)
(* there is nothing to find, for the containers it was in at the time.     *)
(***************************************************************************)
EXTENDS PythonPayload, SequenceTheorems, TLAPS

Frames   == [object : Objects, next : Nat \ {0}]
Contents == [o \in Objects |-> Items(o)]

\* A value _normalize does not refuse, whatever it says of the values inside.
Sound(value) == value.type = "container" \/ (value.type # "bad key" /\ Fits(value))

\* The values before the next one have been read.
ReadUpTo(values, next) ==
  /\ next <= Len(values) + 1
  /\ \A k \in 1 .. next - 1 : Sound(values[k])

\* The value read last is this container.
Contains(values, next, o) ==
  /\ next > 1
  /\ values[next - 1].type = "container" /\ values[next - 1].object = o

\* The calls of _container under way, the outermost first, and the set they share.
Walk(contents, frames, open) ==
  /\ frames # <<>> => frames[1].object = Root
  /\ \A i \in DOMAIN frames : ReadUpTo(contents[frames[i].object], frames[i].next)
  /\ \A i \in DOMAIN frames : i > 1 =>
       Contains(contents[frames[i - 1].object], frames[i - 1].next, frames[i].object)
  /\ \A i, j \in DOMAIN frames : frames[i].object = frames[j].object => i = j
  /\ open = {frames[i].object : i \in DOMAIN frames}
  /\ Len(frames) <= MaxDepth + 1

Types ==
  /\ settings \in Configurations
  /\ event \in Arguments
  /\ graph \in [Objects -> Seq(PropertyValues)]
  /\ stack \in Seq(Frames)
  /\ verdict \in {"new", "called", "walking", "encoding", "accepted", "refused", "raised",
                  "invalid", "cycle", "deep"}

\* An event is built by a client that was constructed, and an order from arguments that
\* were not refused.
ArgumentsChecked ==
  /\ verdict \in {"called", "walking", "encoding", "accepted"} => ~SettingsRefused
  /\ verdict \in {"walking", "encoding", "accepted"} /\ event.method \in OrderEvents =>
       ~OrderRefused

\* After the walk no value of an order's properties is one that _normalize refuses.
OrderRead ==
  verdict \in {"encoding", "accepted"} /\ event.method \in OrderEvents =>
    \A k \in DOMAIN Items(Root) : Sound(Items(Root)[k])

PayloadInvariant ==
  /\ Types
  /\ ArgumentsChecked
  /\ Walk(Contents, stack, ancestors)
  /\ verdict = "walking" <=> stack # <<>>
  /\ OrderRead

-----------------------------------------------------------------------------
(* What the walk knows of the containers it has left.                      *)

\* Containers from o down, each a value of the one before it.
Chain(contents, o, chain) ==
  /\ chain \in Seq(Objects) /\ chain # <<>> /\ chain[1] = o
  /\ \A i \in 1 .. Len(chain) - 1 :
       \E k \in DOMAIN contents[chain[i]] :
         /\ contents[chain[i]][k].type = "container"
         /\ contents[chain[i]][k].object = chain[i + 1]

Last(contents, chain) == contents[chain[Len(chain)]]

\* Below o, itself inside the first containers of frames, all is as it should be: no chain
\* comes back to those or to itself, none is too long and all values are sound.
Clean(contents, frames, depth, o) ==
  \A chain : Chain(contents, o, chain) =>
    /\ \A i \in 1 .. Len(chain), j \in 1 .. depth : chain[i] # frames[j].object
    /\ \A i, j \in 1 .. Len(chain) : chain[i] = chain[j] => i = j
    /\ \A k \in DOMAIN Last(contents, chain) : Sound(Last(contents, chain)[k])
    /\ Last(contents, chain) # <<>> => depth + Len(chain) <= MaxDepth

\* Every container the walk has left is clean below; the one read last in a frame that is
\* not the innermost is still being walked.
CompletedIn(contents, frames, i) ==
  \A k \in 1 .. frames[i].next - 1 :
    /\ i = Len(frames) \/ k < frames[i].next - 1
    /\ contents[frames[i].object][k].type = "container"
    => Clean(contents, frames, i, contents[frames[i].object][k].object)

Completed(contents, frames) ==
  \A i \in DOMAIN frames :
    /\ frames[i].next > 1 => i <= MaxDepth
    /\ CompletedIn(contents, frames, i)

WalkInvariant == WalkIsRight /\ Completed(Contents, stack)

-----------------------------------------------------------------------------
(* Lemmas about the calls of _container under way.                         *)

\* A frame is a container and the position of its next value.
LEMMA FrameType ==
  ASSUME NEW frames \in Seq(Frames), frames # <<>>
  PROVE  /\ Len(frames) \in Nat /\ Len(frames) > 0 /\ DOMAIN frames = 1 .. Len(frames)
         /\ \A i \in 1 .. Len(frames) : /\ frames[i] \in Frames /\ frames[i].object \in Objects
                                        /\ frames[i].next \in Nat /\ frames[i].next >= 1
<1>1. Len(frames) \in Nat \ {0} /\ DOMAIN frames = 1 .. Len(frames)
  BY EmptySeq
<1>2. \A i \in 1 .. Len(frames) : frames[i] \in Frames
  BY <1>1
<1>3. QED
  BY <1>1, <1>2 DEF Frames

\* One more value has been read.
LEMMA ReadOneMore ==
  ASSUME NEW values \in Seq(PropertyValues), NEW next \in Nat, next >= 1, ReadUpTo(values, next),
         next \in DOMAIN values, Sound(values[next])
  PROVE  ReadUpTo(values, next + 1)
<1>1. next <= Len(values) /\ Len(values) \in Nat
  OBVIOUS
<1>2. \A k \in 1 .. next + 1 - 1 : k \in 1 .. next - 1 \/ k = next
  OBVIOUS
<1>3. next + 1 <= Len(values) + 1
  BY <1>1
<1>4. \A k \in 1 .. next + 1 - 1 : Sound(values[k])
  BY <1>2 DEF ReadUpTo
<1>5. QED
  BY <1>3, <1>4 DEF ReadUpTo

\* The calls where the innermost has read one more value.
Advance(frames, read) ==
  /\ Len(read) = Len(frames)
  /\ \A i \in 1 .. Len(frames) - 1 : read[i] = frames[i]
  /\ read[Len(frames)] = [object |-> frames[Len(frames)].object,
                          next |-> frames[Len(frames)].next + 1]

\* The innermost call reads a value it need not refuse.
LEMMA WalkAdvances ==
  ASSUME NEW contents \in [Objects -> Seq(PropertyValues)], NEW open,
         NEW frames \in Seq(Frames), frames # <<>>, Walk(contents, frames, open),
         NEW read \in Seq(Frames), read # <<>>, Advance(frames, read),
         frames[Len(frames)].next \in DOMAIN contents[frames[Len(frames)].object],
         Sound(contents[frames[Len(frames)].object][frames[Len(frames)].next])
  PROVE  Walk(contents, read, open)
<1> DEFINE n      == Len(frames)
           top    == frames[n]
           values == contents[top.object]
<1>1. /\ n \in Nat /\ n > 0 /\ n \in 1 .. n /\ DOMAIN frames = 1 .. n
      /\ DOMAIN read = 1 .. n /\ Len(read) = n
      /\ \A i \in 1 .. n : i \in 1 .. n - 1 \/ i = n
      /\ \A i \in 1 .. n - 1 : i \in 1 .. n
      /\ \A i \in 1 .. n : i > 1 => i - 1 \in 1 .. n - 1
      /\ 1 \in 1 .. n
  BY FrameType DEF Advance
<1>2. /\ top.object \in Objects /\ top.next \in Nat /\ top.next >= 1
      /\ values \in Seq(PropertyValues)
  BY <1>1, FrameType
<1>3. /\ \A i \in 1 .. n - 1 : read[i] = frames[i]
      /\ read[n].object = top.object /\ read[n].next = top.next + 1
  BY DEF Advance
<1>4. \A i \in 1 .. n : read[i].object = frames[i].object
  BY <1>1, <1>3
<1>5. ReadUpTo(values, top.next + 1)
  <2>1. ReadUpTo(values, top.next)
    BY <1>1 DEF Walk
  <2>2. top.next \in DOMAIN values /\ Sound(values[top.next])
    OBVIOUS
  <2> HIDE DEF values, top
  <2>3. QED
    BY <1>2, <2>1, <2>2, ReadOneMore
<1> HIDE DEF values, top, n
<1>6. \A i \in 1 .. n : ReadUpTo(contents[read[i].object], read[i].next)
  <2>1. ASSUME NEW i \in 1 .. n - 1 PROVE ReadUpTo(contents[read[i].object], read[i].next)
    BY <1>1, <1>3 DEF Walk
  <2>2. ReadUpTo(contents[read[n].object], read[n].next)
    BY <1>3, <1>5 DEF values
  <2>3. QED
    BY <1>1, <2>1, <2>2
<1>7. \A i \in 1 .. n : i > 1 =>
        Contains(contents[read[i - 1].object], read[i - 1].next, read[i].object)
  BY <1>1, <1>3, <1>4 DEF Walk
<1>8. read[1].object = Root
  BY <1>1, <1>4 DEF Walk
<1>9. /\ \A i, j \in 1 .. n : read[i].object = read[j].object => i = j
      /\ open = {read[i].object : i \in 1 .. n}
  <2>1. /\ \A i, j \in 1 .. n : frames[i].object = frames[j].object => i = j
        /\ open = {frames[i].object : i \in 1 .. n}
    BY <1>1 DEF Walk
  <2>2. \A i, j \in 1 .. n : read[i].object = read[j].object => i = j
    BY <1>4, <2>1
  <2>3. {read[i].object : i \in 1 .. n} = {frames[i].object : i \in 1 .. n}
    BY <1>4, Zenon
  <2>4. QED
    BY <2>1, <2>2, <2>3
<1>10. n <= MaxDepth + 1
  BY DEF Walk, n
<1>11. QED
  BY <1>1, <1>6, <1>7, <1>8, <1>9, <1>10 DEF Walk

\* The innermost call has just read a container that is not one of the ancestors, and
\* _container is called for it.
LEMMA WalkEnters ==
  ASSUME NEW contents \in [Objects -> Seq(PropertyValues)], NEW open,
         NEW frames \in Seq(Frames), frames # <<>>, Walk(contents, frames, open),
         Len(frames) <= MaxDepth, NEW o \in Objects, o \notin open,
         Contains(contents[frames[Len(frames)].object], frames[Len(frames)].next, o)
  PROVE  /\ Append(frames, [object |-> o, next |-> 1]) \in Seq(Frames)
         /\ Walk(contents, Append(frames, [object |-> o, next |-> 1]), open \cup {o})
<1> DEFINE n       == Len(frames)
           frame   == [object |-> o, next |-> 1]
           entered == Append(frames, frame)
<1>1. /\ n \in Nat /\ n > 0 /\ n \in 1 .. n /\ DOMAIN frames = 1 .. n
      /\ \A i \in 1 .. n + 1 : i \in 1 .. n \/ i = n + 1
      /\ \A i \in 1 .. n : i \in 1 .. n + 1 /\ i # n + 1
      /\ \A i \in 1 .. n : i > 1 => i - 1 \in 1 .. n
      /\ n + 1 - 1 = n /\ 1 \in 1 .. n /\ n + 1 \in 1 .. n + 1
  BY FrameType
<1>2. frame \in Frames /\ frame.object = o /\ frame.next = 1
  BY DEF Frames
<1>3. /\ entered \in Seq(Frames) /\ Len(entered) = n + 1 /\ entered # <<>>
      /\ \A i \in 1 .. n : entered[i] = frames[i]
      /\ entered[n + 1] = frame
  <2> HIDE DEF frame
  <2>1. QED
    BY <1>2, AppendProperties
<1>4. DOMAIN entered = 1 .. n + 1
  BY <1>3
<1>5. entered[n + 1].object = o /\ entered[n + 1].next = 1
  BY <1>2, <1>3
<1>6. ReadUpTo(contents[o], 1)
  <2>1. Len(contents[o]) \in Nat
    BY EmptySeq
  <2>2. QED
    BY <2>1 DEF ReadUpTo
<1>7. Contains(contents[frames[n].object], frames[n].next, o)
  OBVIOUS
<1> HIDE DEF entered, frame, n
<1>8. \A i \in 1 .. n + 1 : ReadUpTo(contents[entered[i].object], entered[i].next)
  BY <1>1, <1>3, <1>5, <1>6 DEF Walk
<1>9. \A i \in 1 .. n + 1 : i > 1 =>
        Contains(contents[entered[i - 1].object], entered[i - 1].next, entered[i].object)
  <2>1. ASSUME NEW i \in 1 .. n, i > 1
        PROVE  Contains(contents[entered[i - 1].object], entered[i - 1].next, entered[i].object)
    BY <1>1, <1>3, <2>1 DEF Walk
  <2>2. Contains(contents[entered[n].object], entered[n].next, entered[n + 1].object)
    BY <1>1, <1>3, <1>5, <1>7
  <2>3. QED
    BY <1>1, <2>1, <2>2
<1>10. entered[1].object = Root
  BY <1>1, <1>3 DEF Walk
<1>11. /\ \A i \in 1 .. n : frames[i].object # o
       /\ \A i, j \in 1 .. n : frames[i].object = frames[j].object => i = j
       /\ open = {frames[i].object : i \in 1 .. n}
  <2>1. /\ \A i, j \in 1 .. n : frames[i].object = frames[j].object => i = j
        /\ open = {frames[i].object : i \in 1 .. n}
    BY <1>1 DEF Walk
  <2>2. QED
    BY <2>1, Zenon
<1>12. \A i, j \in 1 .. n + 1 : entered[i].object = entered[j].object => i = j
  BY <1>1, <1>3, <1>5, <1>11
<1>13. open \cup {o} = {entered[i].object : i \in 1 .. n + 1}
  <2>1. \A i \in 1 .. n : entered[i].object = frames[i].object
    BY <1>3
  <2>2. ASSUME NEW x \in open \cup {o} PROVE \E i \in 1 .. n + 1 : x = entered[i].object
    <3>1. CASE x = o
      BY <1>1, <1>5, <3>1
    <3>2. CASE x \in open
      BY <1>1, <1>11, <2>1, <3>2
    <3>3. QED
      BY <3>1, <3>2
  <2>3. ASSUME NEW i \in 1 .. n + 1 PROVE entered[i].object \in open \cup {o}
    <3>1. CASE i = n + 1
      BY <1>5, <3>1
    <3>2. CASE i \in 1 .. n
      BY <1>11, <2>1, <3>2
    <3>3. QED
      BY <1>1, <3>1, <3>2
  <2>4. QED
    BY <2>2, <2>3
<1>14. n + 1 <= MaxDepth + 1
  BY <1>1, PayloadAssumption DEF n
<1>15. QED
  BY <1>3, <1>4, <1>8, <1>9, <1>10, <1>12, <1>13, <1>14 DEF Walk, entered, frame

\* The finally block of the innermost call.
LEMMA WalkLeaves ==
  ASSUME NEW contents \in [Objects -> Seq(PropertyValues)], NEW open,
         NEW frames \in Seq(Frames), frames # <<>>, Walk(contents, frames, open)
  PROVE  /\ SubSeq(frames, 1, Len(frames) - 1) \in Seq(Frames)
         /\ Walk(contents, SubSeq(frames, 1, Len(frames) - 1),
                 open \ {frames[Len(frames)].object})
         /\ SubSeq(frames, 1, Len(frames) - 1) = <<>> <=> Len(frames) = 1
<1> DEFINE n    == Len(frames) - 1
           left == SubSeq(frames, 1, n)
<1>1. /\ n \in Nat /\ n \in Int /\ Len(frames) = n + 1 /\ DOMAIN frames = 1 .. n + 1
      /\ \A i \in 1 .. n : frames[i] \in Frames
      /\ \A i \in 1 .. n + 1 : i \in 1 .. n \/ i = n + 1
      /\ \A i \in 1 .. n : i \in 1 .. n + 1 /\ i # n + 1
      /\ \A i \in 1 .. n : i > 1 => i - 1 \in 1 .. n
      /\ n + 1 \in 1 .. n + 1
  BY FrameType
<1>2. /\ left \in Seq(Frames)
      /\ Len(left) = IF 1 <= n THEN n - 1 + 1 ELSE 0
      /\ \A i \in 1 .. n - 1 + 1 : left[i] = frames[1 + i - 1]
  <2> HIDE DEF n
  <2>1. QED
    BY <1>1, SubSeqProperties
<1>3. Len(left) = n /\ DOMAIN left = 1 .. n /\ \A i \in 1 .. n : left[i] = frames[i]
  <2> HIDE DEF n, left
  <2>1. Len(left) = n /\ \A i \in 1 .. n : left[i] = frames[i]
    BY <1>1, <1>2
  <2>2. QED
    BY <1>2, <2>1
<1>4. left = <<>> <=> Len(frames) = 1
  <2> HIDE DEF n, left
  <2>1. left = <<>> <=> n = 0
    BY <1>1, <1>2, <1>3, EmptySeq
  <2>2. QED
    BY <1>1, <2>1
<1> HIDE DEF n, left
<1>5. \A i \in 1 .. n : ReadUpTo(contents[left[i].object], left[i].next)
  BY <1>1, <1>3 DEF Walk
<1>6. \A i \in 1 .. n : i > 1 =>
        Contains(contents[left[i - 1].object], left[i - 1].next, left[i].object)
  BY <1>1, <1>3 DEF Walk
<1>7. left # <<>> => left[1].object = Root
  <2>1. left # <<>> => 1 \in 1 .. n
    BY <1>1, <1>4
  <2>2. QED
    BY <1>3, <2>1 DEF Walk
<1>8. \A i, j \in 1 .. n : left[i].object = left[j].object => i = j
  BY <1>1, <1>3 DEF Walk
<1>9. open \ {frames[n + 1].object} = {left[i].object : i \in 1 .. n}
  <2>1. open = {frames[i].object : i \in 1 .. n + 1}
    BY <1>1 DEF Walk
  <2>2. \A i \in 1 .. n : frames[i].object # frames[n + 1].object
    <3>1. \A i, j \in 1 .. n + 1 : frames[i].object = frames[j].object => i = j
      BY <1>1 DEF Walk
    <3>2. QED
      BY <1>1, <3>1
  <2>3. \A i \in 1 .. n : left[i].object = frames[i].object
    BY <1>3
  <2>4. QED
    BY <1>1, <2>1, <2>2, <2>3
<1>10. n <= MaxDepth + 1
  BY <1>1, PayloadAssumption DEF Walk
<1>11. QED
  BY <1>1, <1>2, <1>3, <1>4, <1>5, <1>6, <1>7, <1>8, <1>9, <1>10 DEF Walk, left, n

\* The call of _container for the properties themselves.
LEMMA WalkStarts ==
  ASSUME NEW contents \in [Objects -> Seq(PropertyValues)]
  PROVE  /\ Walk(contents, <<>>, {})
         /\ <<[object |-> Root, next |-> 1]>> \in Seq(Frames)
         /\ Walk(contents, <<[object |-> Root, next |-> 1]>>, {Root})
<1> DEFINE frame == [object |-> Root, next |-> 1]
<1>1. Walk(contents, <<>>, {})
  <2>1. 0 <= MaxDepth + 1
    BY PayloadAssumption
  <2>2. QED
    BY <2>1 DEF Walk
<1>2. frame \in Frames /\ frame.object = Root /\ frame.next = 1
  BY PayloadAssumption DEF Frames
<1>3. ReadUpTo(contents[Root], 1)
  <2>1. Len(contents[Root]) \in Nat
    BY EmptySeq, PayloadAssumption
  <2>2. QED
    BY <2>1 DEF ReadUpTo
<1>4. 1 <= MaxDepth + 1
  BY PayloadAssumption
<1> HIDE DEF frame
<1>5. <<frame>> \in Seq(Frames) /\ Len(<<frame>>) = 1 /\ <<frame>>[1] = frame
      /\ DOMAIN <<frame>> = {1}
  BY <1>2
<1>6. Walk(contents, <<frame>>, {Root})
  BY <1>2, <1>3, <1>4, <1>5 DEF Walk
<1>7. QED
  BY <1>1, <1>5, <1>6 DEF frame

-----------------------------------------------------------------------------
(* Lemmas about events and values.                                         *)

\* What a container holds, the order's amount and currency included.
LEMMA ContentsType ==
  ASSUME Types
  PROVE  /\ Contents \in [Objects -> Seq(PropertyValues)]
         /\ \A o \in Objects : Contents[o] = Items(o)
<1>1. /\ graph \in [Objects -> Seq(PropertyValues)] /\ Root \in Objects
      /\ event.amount \in {"int", "float", "decimal", "bool", "not finite", "signalling", "other"}
      /\ event.amountQuarters \in Int /\ event.currency \in Texts
  BY PayloadAssumption DEF Types, Arguments
<1>2. /\ [type |-> event.amount, object |-> Root, quarters |-> event.amountQuarters] \in PropertyValues
      /\ [type |-> event.currency, object |-> Root, quarters |-> 0] \in PropertyValues
  <2> DEFINE kinds == Texts \cup {"null", "bool", "int", "float", "decimal", "not finite",
                                  "signalling", "container", "bad key"}
  <2>1. event.amount \in kinds /\ event.currency \in kinds
    BY <1>1 DEF Texts, Strings
  <2> HIDE DEF kinds
  <2>2. \A type \in kinds, quarters \in Int :
          [type |-> type, object |-> Root, quarters |-> quarters] \in
            [type : kinds, object : Objects, quarters : Int]
    BY <1>1
  <2>3. PropertyValues = [type : kinds, object : Objects, quarters : Int]
    BY DEF PropertyValues, kinds
  <2>4. [type |-> event.amount, object |-> Root, quarters |-> event.amountQuarters] \in
          [type : kinds, object : Objects, quarters : Int]
    BY <1>1, <2>1, <2>2
  <2>5. [type |-> event.currency, object |-> Root, quarters |-> 0] \in
          [type : kinds, object : Objects, quarters : Int]
    BY <2>1, <2>2
  <2>6. QED
    BY <2>3, <2>4, <2>5
<1>3. \A o \in Objects : Items(o) \in Seq(PropertyValues)
  <2>1. ASSUME NEW values \in Seq(PropertyValues), NEW a \in PropertyValues,
               NEW b \in PropertyValues
        PROVE  values \o <<a, b>> \in Seq(PropertyValues)
    <3>1. <<a, b>> \in Seq(PropertyValues)
      OBVIOUS
    <3>2. QED
      BY <3>1, ConcatProperties
  <2>2. \A o \in Objects : graph[o] \in Seq(PropertyValues)
    BY <1>1
  <2>3. QED
    BY <1>2, <2>1, <2>2 DEF Items
<1>4. QED
  BY <1>3 DEF Contents

\* The last two values of an order's properties.
LEMMA OrderItems ==
  ASSUME Types, event.method \in OrderEvents
  PROVE  \E k, l \in DOMAIN Items(Root) :
           /\ Items(Root)[k].type = event.amount /\ Items(Root)[k].quarters = event.amountQuarters
           /\ Items(Root)[l].type = event.currency
<1> DEFINE values == graph[Root]
           amount == [type |-> event.amount, object |-> Root, quarters |-> event.amountQuarters]
           currency == [type |-> event.currency, object |-> Root, quarters |-> 0]
<1>1. values \in Seq(PropertyValues)
  BY PayloadAssumption DEF Types
<1>2. Items(Root) = values \o <<amount, currency>>
  BY DEF Items
<1>3. /\ amount.type = event.amount /\ amount.quarters = event.amountQuarters
      /\ currency.type = event.currency
  OBVIOUS
<1> HIDE DEF values, amount, currency
<1>4. /\ DOMAIN (values \o <<amount, currency>>) = 1 .. Len(values) + 2
      /\ (values \o <<amount, currency>>)[Len(values) + 1] = amount
      /\ (values \o <<amount, currency>>)[Len(values) + 2] = currency
  BY <1>1
<1>5. Len(values) + 1 \in 1 .. Len(values) + 2 /\ Len(values) + 2 \in 1 .. Len(values) + 2
  BY <1>1
<1>6. QED
  BY <1>2, <1>3, <1>4, <1>5

\* A magnitude is no less than zero.
LEMMA MagnitudeType == \A n \in Int : Magnitude(n) \in Nat
  BY DEF Magnitude

\* float() rounds a number less than one half above the largest safe integer into the range
\* and no other, and one in the range by no more than one half.
LEMMA FloatsAreNear ==
  ASSUME NEW quarters \in Int
  PROVE  /\ AsFloat(quarters) \in Nat
         /\ Magnitude(quarters) < 4 * MaxSafe + 2 =>
              /\ AsFloat(quarters) <= 4 * MaxSafe
              /\ Magnitude(AsFloat(quarters) - Magnitude(quarters)) <= 2
         /\ Magnitude(quarters) >= 4 * MaxSafe + 2 =>
              AsFloat(quarters) % 4 = 0 /\ AsFloat(quarters) > 4 * MaxSafe
<1> DEFINE size   == Magnitude(quarters)
           number == AsFloat(quarters)
<1>1. size \in Nat /\ MaxSafe \in Nat /\ MaxSafe % 2 = 1
  BY PayloadAssumption DEF Magnitude
<1>2. number = Nearest(size, Spacing(size))
  BY DEF AsFloat
<1> HIDE DEF size, number
<1>3. CASE size <= MaxSafe
  <2>1. number = Nearest(size, 1)
    BY <1>1, <1>2, <1>3 DEF Spacing
  <2>2. number = size
    BY <1>1, <2>1 DEF Nearest
  <2>3. QED
    BY <1>1, <1>3, <2>2 DEF Magnitude, size, number
<1>4. CASE size \in MaxSafe + 1 .. 2 * MaxSafe + 1
  <2>1. number = Nearest(size, 2)
    BY <1>1, <1>2, <1>4 DEF Spacing
  <2>2. number \in Nat /\ number - size \in -1 .. 1 /\ number <= 2 * MaxSafe + 2
    BY <1>1, <1>4, <2>1 DEF Nearest
  <2>3. QED
    BY <1>1, <1>4, <2>2 DEF Magnitude, size, number
<1>5. CASE size \in 2 * (MaxSafe + 1) .. 4 * MaxSafe + 3
  <2>1. number = Nearest(size, 4)
    BY <1>1, <1>2, <1>5 DEF Spacing
  <2>2. QED
    BY <1>1, <1>5, <2>1 DEF Nearest, Magnitude, size, number
<1>6. CASE size >= 4 * (MaxSafe + 1)
  <2>1. number = Nearest(size, 8)
    BY <1>1, <1>2, <1>6 DEF Spacing
  <2>2. QED
    BY <1>1, <1>6, <2>1 DEF Nearest, size, number
<1>7. QED
  BY <1>1, <1>3, <1>4, <1>5, <1>6

\* A number that _normalize passes on is one that is in range as it is sent, and the other
\* way round.
LEMMA NumbersInRangeFit ==
  ASSUME NEW value, value.type \in {"int", "float", "decimal"}, value.quarters \in Int
  PROVE  Fits(value) <=> IF value.type = "int" THEN Magnitude(value.quarters) <= 4 * MaxSafe
                         ELSE Magnitude(value.quarters) < 4 * MaxSafe + 2
<1>1. /\ \A n \in Int : Magnitude(n) \in Nat
      /\ AsFloat(value.quarters) \in Nat /\ MaxSafe \in Nat
  BY FloatsAreNear, PayloadAssumption, MagnitudeType
<1>2. CASE value.type = "int"
  BY <1>2 DEF Fits
<1>3. CASE value.type \in {"float", "decimal"}
  <2>1. Fits(value) <=> ~(AsFloat(value.quarters) % 4 = 0 /\ AsFloat(value.quarters) > 4 * MaxSafe)
    BY <1>3 DEF Fits
  <2>2. QED
    BY <1>1, <1>3, <2>1, FloatsAreNear
<1>4. QED
  BY <1>2, <1>3

\* A value _normalize passes on, or whose values it looks at, is one python/README.md:60
\* lists, and no other is.
LEMMA SoundIsDocumented ==
  ASSUME NEW value \in PropertyValues
  PROVE  Sound(value) <=> Documented(value)
<1>1. value.quarters \in Int
  BY DEF PropertyValues
<1>2. CASE value.type = "container"
  BY <1>2 DEF Sound, Documented
<1>3. CASE value.type = "bad key"
  BY <1>3 DEF Sound, Documented
<1>4. CASE value.type \in {"int", "float", "decimal"}
  <2>1. Sound(value) <=> Fits(value)
    BY <1>4 DEF Sound
  <2>2. Documented(value) <=> IF value.type = "int"
                              THEN Magnitude(value.quarters) <= 4 * MaxSafe
                              ELSE Magnitude(value.quarters) < 4 * MaxSafe + 2
    BY <1>4 DEF Documented
  <2>3. QED
    BY <1>1, <1>4, <2>1, <2>2, NumbersInRangeFit
<1>5. CASE value.type \notin {"container", "bad key", "int", "float", "decimal"}
  <2>1. Sound(value) <=> Fits(value)
    BY <1>5 DEF Sound
  <2>2. Fits(value) <=> value.type \in {"null", "bool", "text", "blank"}
    BY <1>5 DEF Fits
  <2>3. Documented(value) <=> value.type \in {"null", "bool", "text", "blank"}
    BY <1>5 DEF Documented
  <2>4. QED
    BY <2>1, <2>2, <2>3
<1>6. QED
  BY <1>2, <1>3, <1>4, <1>5

\* A path as the model's property has it, and as the invariant has it.
LEMMA PathsAreChains ==
  ASSUME Types
  PROVE  \A path :
           /\ path \in Paths <=> Chain(Contents, Root, path) /\ Len(path) <= MaxDepth + 1
           /\ Chain(Contents, Root, path) =>
                /\ Len(path) \in Nat /\ Len(path) >= 1 /\ path[Len(path)] \in Objects
                /\ Last(Contents, path) = ItemsAt(path)
                /\ ItemsAt(path) \in Seq(PropertyValues)
<1>1. /\ Contents \in [Objects -> Seq(PropertyValues)] /\ Root \in Objects
      /\ \A o \in Objects : Contents[o] = Items(o)
  BY ContentsType, PayloadAssumption
<1> SUFFICES ASSUME NEW path
             PROVE  /\ path \in Paths <=> Chain(Contents, Root, path) /\ Len(path) <= MaxDepth + 1
                    /\ Chain(Contents, Root, path) =>
                         /\ Len(path) \in Nat /\ Len(path) >= 1 /\ path[Len(path)] \in Objects
                         /\ Last(Contents, path) = ItemsAt(path)
                         /\ ItemsAt(path) \in Seq(PropertyValues)
  OBVIOUS
<1>2. ASSUME path \in Paths PROVE Chain(Contents, Root, path) /\ Len(path) <= MaxDepth + 1
  <2>1. PICK n \in 1 .. MaxDepth + 1 : path \in [1 .. n -> Objects]
    BY <1>2 DEF Paths
  <2>2. path \in Seq(Objects) /\ Len(path) = n /\ path # <<>> /\ n \in Nat
        /\ \A i \in 1 .. n - 1 : path[i] \in Objects
    BY <2>1, PayloadAssumption
  <2>3. path[1] = Root /\ \A i \in 1 .. n - 1 : Inside(path[i], path[i + 1])
    BY <1>2, <2>2 DEF Paths
  <2>4. ASSUME NEW i \in 1 .. Len(path) - 1
        PROVE  \E k \in DOMAIN Contents[path[i]] :
                 /\ Contents[path[i]][k].type = "container"
                 /\ Contents[path[i]][k].object = path[i + 1]
    <3>1. Inside(path[i], path[i + 1]) /\ Contents[path[i]] = Items(path[i])
      BY <1>1, <2>2, <2>3
    <3>2. QED
      BY <3>1 DEF Inside
  <2>5. Len(path) <= MaxDepth + 1
    BY <2>1, <2>2, PayloadAssumption
  <2>6. QED
    BY <2>2, <2>3, <2>4, <2>5 DEF Chain
<1>3. ASSUME Chain(Contents, Root, path)
      PROVE  /\ path \in Seq(Objects) /\ Len(path) \in Nat /\ Len(path) >= 1
             /\ path[Len(path)] \in Objects
  BY <1>3, EmptySeq DEF Chain
<1>4. ASSUME Chain(Contents, Root, path)
      PROVE  Last(Contents, path) = ItemsAt(path) /\ ItemsAt(path) \in Seq(PropertyValues)
  BY <1>1, <1>3, <1>4 DEF Last, ItemsAt
<1>5. ASSUME Chain(Contents, Root, path), Len(path) <= MaxDepth + 1 PROVE path \in Paths
  <2>1. path \in Seq(Objects) /\ Len(path) \in 1 .. MaxDepth + 1
    BY <1>3, <1>5, PayloadAssumption
  <2>2. path \in [1 .. Len(path) -> Objects]
    BY <2>1
  <2>3. ASSUME NEW i \in 1 .. Len(path) - 1 PROVE Inside(path[i], path[i + 1])
    <3>1. path[i] \in Objects
      BY <2>1
    <3>2. \E k \in DOMAIN Contents[path[i]] : /\ Contents[path[i]][k].type = "container"
                                              /\ Contents[path[i]][k].object = path[i + 1]
      BY <1>5 DEF Chain
    <3>3. QED
      BY <1>1, <3>1, <3>2 DEF Inside
  <2>4. path[1] = Root
    BY <1>5 DEF Chain
  <2>5. QED
    BY <2>1, <2>2, <2>3, <2>4 DEF Paths
<1>6. QED
  BY <1>2, <1>3, <1>4, <1>5

-----------------------------------------------------------------------------
(* Lemmas about the containers the walk has left.                          *)

\* A chain from o is o alone, or o and a chain from one of its containers.
LEMMA ChainUnfolds ==
  ASSUME NEW contents, NEW o, NEW chain, Chain(contents, o, chain), Len(chain) > 1
  PROVE  /\ Chain(contents, chain[2], Tail(chain))
         /\ Len(Tail(chain)) = Len(chain) - 1
         /\ \A i \in 1 .. Len(Tail(chain)) : Tail(chain)[i] = chain[i + 1]
         /\ \E k \in DOMAIN contents[o] : /\ contents[o][k].type = "container"
                                          /\ contents[o][k].object = chain[2]
<1> DEFINE n    == Len(chain)
           rest == Tail(chain)
<1>1. /\ chain \in Seq(Objects) /\ chain # <<>> /\ chain[1] = o /\ n \in Nat /\ n > 1
      /\ \A i \in 1 .. n - 1 :
           \E k \in DOMAIN contents[chain[i]] :
             /\ contents[chain[i]][k].type = "container"
             /\ contents[chain[i]][k].object = chain[i + 1]
  BY DEF Chain
<1>2. /\ rest \in Seq(Objects) /\ Len(rest) = n - 1
      /\ \A i \in 1 .. Len(rest) : rest[i] = chain[i + 1]
  BY <1>1
<1> HIDE DEF n, rest
<1>3. rest # <<>> /\ rest[1] = chain[2]
  BY <1>1, <1>2
<1>4. ASSUME NEW i \in 1 .. Len(rest) - 1
      PROVE  \E k \in DOMAIN contents[rest[i]] : /\ contents[rest[i]][k].type = "container"
                                                 /\ contents[rest[i]][k].object = rest[i + 1]
  <2>1. PICK j : j = i + 1
    OBVIOUS
  <2>2. j \in 1 .. n - 1 /\ i \in 1 .. Len(rest) /\ j \in 1 .. Len(rest)
    BY <1>1, <1>2, <2>1
  <2>3. rest[i] = chain[j] /\ rest[i + 1] = chain[j + 1]
    BY <1>2, <2>1, <2>2
  <2>4. QED
    BY <1>1, <2>2, <2>3
<1>5. Chain(contents, chain[2], rest)
  BY <1>2, <1>3, <1>4 DEF Chain
<1>6. \E k \in DOMAIN contents[o] : /\ contents[o][k].type = "container"
                                    /\ contents[o][k].object = chain[2]
  <2>1. 1 \in 1 .. n - 1 /\ 1 + 1 = 2
    BY <1>1
  <2>2. \E k \in DOMAIN contents[chain[1]] : /\ contents[chain[1]][k].type = "container"
                                             /\ contents[chain[1]][k].object = chain[1 + 1]
    BY <1>1, <2>1
  <2>3. QED
    BY <1>1, <2>1, <2>2
<1>7. QED
  BY <1>2, <1>5, <1>6 DEF n, rest

\* Which containers are around the ones left depends on the frames' objects only.
LEMMA CleanDependsOnObjects ==
  ASSUME NEW contents, NEW frames, NEW read, NEW depth, NEW o,
         \A j \in 1 .. depth : read[j].object = frames[j].object,
         Clean(contents, frames, depth, o)
  PROVE  Clean(contents, read, depth, o)
BY DEF Clean

\* The innermost call goes on to the value after one that is not a container.
LEMMA CompletedAdvances ==
  ASSUME NEW contents, NEW frames \in Seq(Frames), frames # <<>>, Completed(contents, frames),
         Len(frames) <= MaxDepth, NEW read \in Seq(Frames), read # <<>>, Advance(frames, read),
         contents[frames[Len(frames)].object][frames[Len(frames)].next].type # "container"
  PROVE  Completed(contents, read)
<1> DEFINE n == Len(frames)
<1>1. /\ n \in Nat /\ n > 0 /\ n \in 1 .. n /\ DOMAIN frames = 1 .. n
      /\ DOMAIN read = 1 .. n /\ Len(read) = n
      /\ \A i \in 1 .. n : i \in 1 .. n - 1 \/ i = n
      /\ \A i \in 1 .. n : frames[i].next \in Nat /\ frames[i].next >= 1
      /\ \A i \in 1 .. n : \A j \in 1 .. i : j \in 1 .. n
  BY FrameType DEF Advance
<1>2. /\ \A i \in 1 .. n - 1 : read[i] = frames[i]
      /\ read[n].object = frames[n].object /\ read[n].next = frames[n].next + 1
      /\ contents[frames[n].object][frames[n].next].type # "container"
      /\ n <= MaxDepth
  BY DEF Advance
<1> HIDE DEF n
<1>3. \A i \in 1 .. n : read[i].object = frames[i].object
  BY <1>1, <1>2
<1>4. ASSUME NEW i \in 1 .. n, NEW k \in 1 .. read[i].next - 1,
             i = n \/ k < read[i].next - 1,
             contents[read[i].object][k].type = "container"
      PROVE  Clean(contents, read, i, contents[read[i].object][k].object)
  <2>1. /\ k \in 1 .. frames[i].next - 1 /\ (i = n \/ k < frames[i].next - 1)
    <3>1. CASE i = n
      <4>1. k \in 1 .. frames[n].next /\ k # frames[n].next
        BY <1>1, <1>2, <1>4, <3>1
      <4>2. QED
        BY <1>1, <3>1, <4>1
    <3>2. CASE i # n
      BY <1>1, <1>2, <1>4, <3>2
    <3>3. QED
      BY <3>1, <3>2
  <2>2. contents[frames[i].object][k].type = "container"
    BY <1>3, <1>4
  <2>3. Clean(contents, frames, i, contents[frames[i].object][k].object)
    BY <1>1, <2>1, <2>2 DEF Completed, CompletedIn, n
  <2>4. \A j \in 1 .. i : read[j].object = frames[j].object
    BY <1>1, <1>3
  <2>5. QED
    BY <1>3, <2>3, <2>4, CleanDependsOnObjects
<1>5. ASSUME NEW i \in 1 .. n, read[i].next > 1 PROVE i <= MaxDepth
  BY <1>1, <1>2, <1>5 DEF Completed
<1>6. QED
  BY <1>1, <1>4, <1>5 DEF Completed, CompletedIn

\* The innermost call has just read a container, and _container is called for it.
LEMMA CompletedEnters ==
  ASSUME NEW contents, NEW frames \in Seq(Frames), frames # <<>>, Completed(contents, frames),
         Len(frames) <= MaxDepth, NEW read \in Seq(Frames), read # <<>>, Advance(frames, read),
         NEW o \in Objects
  PROVE  Completed(contents, Append(read, [object |-> o, next |-> 1]))
<1> DEFINE n       == Len(frames)
           frame   == [object |-> o, next |-> 1]
           entered == Append(read, frame)
<1>1. /\ n \in Nat /\ n > 0 /\ n \in 1 .. n /\ DOMAIN frames = 1 .. n
      /\ Len(read) = n
      /\ \A i \in 1 .. n : frames[i].next \in Nat /\ frames[i].next >= 1
      /\ \A i \in 1 .. n + 1 : i \in 1 .. n \/ i = n + 1
      /\ \A i \in 1 .. n : (i \in 1 .. n - 1 \/ i = n) /\ i \in 1 .. n + 1
      /\ \A i \in 1 .. n : \A j \in 1 .. i : j \in 1 .. n
  <2>1. /\ n \in Nat /\ n > 0 /\ DOMAIN frames = 1 .. n /\ Len(read) = n
        /\ \A i \in 1 .. n : frames[i].next \in Nat /\ frames[i].next >= 1
    BY FrameType DEF Advance
  <2> HIDE DEF n
  <2>2. QED
    BY <2>1
<1>2. /\ \A i \in 1 .. n - 1 : read[i] = frames[i]
      /\ read[n].object = frames[n].object /\ read[n].next = frames[n].next + 1
      /\ n <= MaxDepth
  BY DEF Advance
<1>3. frame \in Frames /\ frame.object = o /\ frame.next = 1
  BY DEF Frames
<1>4. /\ entered \in Seq(Frames) /\ Len(entered) = n + 1
      /\ \A i \in 1 .. n : entered[i] = read[i]
      /\ entered[n + 1] = frame
  <2> HIDE DEF frame
  <2>1. /\ entered \in Seq(Frames) /\ Len(entered) = Len(read) + 1
        /\ \A i \in 1 .. Len(read) : entered[i] = read[i]
        /\ entered[Len(read) + 1] = frame
    BY <1>3, AppendProperties
  <2>2. QED
    BY <1>1, <2>1
<1> HIDE DEF n, frame, entered
<1>5. DOMAIN entered = 1 .. n + 1
  BY <1>4
<1>6. \A i \in 1 .. n : entered[i].object = frames[i].object
  BY <1>1, <1>2, <1>4
<1>7. ASSUME NEW i \in 1 .. n, NEW k \in 1 .. entered[i].next - 1, k < entered[i].next - 1,
             contents[entered[i].object][k].type = "container"
      PROVE  Clean(contents, entered, i, contents[entered[i].object][k].object)
  <2>1. /\ k \in 1 .. frames[i].next - 1 /\ (i = n \/ k < frames[i].next - 1)
    <3>1. CASE i = n
      BY <1>1, <1>2, <1>4, <1>7, <3>1
    <3>2. CASE i # n
      BY <1>1, <1>2, <1>4, <1>7, <3>2
    <3>3. QED
      BY <3>1, <3>2
  <2>2. contents[frames[i].object][k].type = "container"
    BY <1>6, <1>7
  <2>3. Clean(contents, frames, i, contents[frames[i].object][k].object)
    BY <1>1, <2>1, <2>2 DEF Completed, CompletedIn, n
  <2>4. \A j \in 1 .. i : entered[j].object = frames[j].object
    BY <1>1, <1>6
  <2>5. QED
    BY <1>6, <2>3, <2>4, CleanDependsOnObjects
<1>8. ASSUME NEW i \in 1 .. n PROVE CompletedIn(contents, entered, i)
  <2>1. i # Len(entered)
    BY <1>1, <1>4
  <2>2. QED
    BY <1>7, <2>1 DEF CompletedIn
<1>9. CompletedIn(contents, entered, n + 1)
  <2>1. entered[n + 1].next = 1
    BY <1>3, <1>4
  <2>2. QED
    BY <2>1 DEF CompletedIn
<1>10. ASSUME NEW i \in 1 .. n + 1, entered[i].next > 1 PROVE i <= MaxDepth
  <2>1. i # n + 1
    BY <1>3, <1>4, <1>10
  <2>2. QED
    BY <1>1, <1>2, <1>4, <1>10, <2>1 DEF Completed
<1>11. Completed(contents, entered)
  BY <1>1, <1>4, <1>8, <1>9, <1>10, <1>5 DEF Completed
<1>12. QED
  BY <1>11 DEF entered, frame

\* A container all of whose values have been read is clean below.
LEMMA LeftIsClean ==
  ASSUME NEW contents \in [Objects -> Seq(PropertyValues)], NEW open,
         NEW frames \in Seq(Frames), frames # <<>>, Walk(contents, frames, open),
         Completed(contents, frames),
         frames[Len(frames)].next \notin DOMAIN contents[frames[Len(frames)].object]
  PROVE  Clean(contents, frames, Len(frames) - 1, frames[Len(frames)].object)
<1> DEFINE n      == Len(frames)
           top    == frames[n]
           o      == top.object
           values == contents[o]
<1>1. /\ n \in Nat /\ n > 0 /\ n \in 1 .. n /\ DOMAIN frames = 1 .. n
      /\ o \in Objects /\ top.next \in Nat /\ top.next >= 1
  BY FrameType
<1>2. /\ \A j \in 1 .. n - 1 : j \in 1 .. n /\ j # n
       /\ values \in Seq(PropertyValues)
  <2>1. values \in Seq(PropertyValues)
    BY <1>1
  <2> HIDE DEF n, values
  <2>2. QED
    BY <1>1, <2>1
<1>3. /\ ReadUpTo(values, top.next)
      /\ \A i, j \in 1 .. n : frames[i].object = frames[j].object => i = j
  BY <1>1 DEF Walk
<1>4. /\ top.next > 1 => n <= MaxDepth
      /\ CompletedIn(contents, frames, n)
  BY <1>1 DEF Completed
<1>5. top.next \notin DOMAIN values
  OBVIOUS
<1>6. \A k \in 1 .. top.next - 1 :
        values[k].type = "container" => Clean(contents, frames, n, values[k].object)
  BY <1>4 DEF CompletedIn
<1> HIDE DEF values
<1>7. /\ DOMAIN values = 1 .. top.next - 1
      /\ values # <<>> => top.next > 1
      /\ \A k \in DOMAIN values : Sound(values[k])
  <2> HIDE DEF top, o, n
  <2>1. Len(values) \in Nat /\ DOMAIN values = 1 .. Len(values)
    BY <1>2
  <2>2. top.next = Len(values) + 1
    BY <1>1, <1>3, <1>5, <2>1 DEF ReadUpTo
  <2>3. DOMAIN values = 1 .. top.next - 1
    BY <2>1, <2>2
  <2>4. \A k \in DOMAIN values : Sound(values[k])
    BY <1>3, <2>3 DEF ReadUpTo
  <2>5. values # <<>> => top.next > 1
    BY <1>1, <1>2, <2>1, <2>2, EmptySeq
  <2>6. QED
    BY <2>3, <2>4, <2>5
<1>8. \A j \in 1 .. n - 1 : o # frames[j].object
  BY <1>1, <1>3, <1>2
<1> SUFFICES ASSUME NEW chain, Chain(contents, o, chain)
             PROVE  /\ \A i \in 1 .. Len(chain), j \in 1 .. n - 1 : chain[i] # frames[j].object
                    /\ \A i, j \in 1 .. Len(chain) : chain[i] = chain[j] => i = j
                    /\ \A k \in DOMAIN Last(contents, chain) : Sound(Last(contents, chain)[k])
                    /\ Last(contents, chain) # <<>> => n - 1 + Len(chain) <= MaxDepth
  BY DEF Clean
<1> DEFINE m == Len(chain)
<1>9. m \in Nat /\ m >= 1 /\ chain[1] = o
  BY EmptySeq DEF Chain
<1>10. CASE m = 1
  <2>1. Last(contents, chain) = values /\ \A i \in 1 .. m : i = 1
    BY <1>9, <1>10 DEF Last, values
  <2>2. Last(contents, chain) # <<>> => n - 1 + m <= MaxDepth
    <3> HIDE DEF n, m, top, o
    <3>1. QED
      BY <1>1, <1>4, <1>7, <1>10, <2>1
  <2>3. \A k \in DOMAIN Last(contents, chain) : Sound(Last(contents, chain)[k])
    BY <1>7, <2>1
  <2>4. \A i \in 1 .. m, j \in 1 .. n - 1 : chain[i] # frames[j].object
    BY <1>8, <1>9, <2>1
  <2>5. QED
    BY <2>1, <2>2, <2>3, <2>4
<1>11. CASE m > 1
  <2> DEFINE rest == Tail(chain)
  <2>1. /\ Chain(contents, chain[2], rest) /\ Len(rest) = m - 1
        /\ \A i \in 1 .. Len(rest) : rest[i] = chain[i + 1]
        /\ \E k \in DOMAIN values : values[k].type = "container" /\ values[k].object = chain[2]
    BY <1>11, ChainUnfolds DEF values
  <2> HIDE DEF rest
  <2>2. Clean(contents, frames, n, chain[2])
    BY <1>6, <1>7, <2>1
  <2>3. /\ \A i \in 1 .. Len(rest), j \in 1 .. n : rest[i] # frames[j].object
        /\ \A i, j \in 1 .. Len(rest) : rest[i] = rest[j] => i = j
        /\ \A k \in DOMAIN Last(contents, rest) : Sound(Last(contents, rest)[k])
        /\ Last(contents, rest) # <<>> => n + Len(rest) <= MaxDepth
    BY <2>1, <2>2 DEF Clean
  <2>4. ASSUME NEW i \in 1 .. m, i # 1
        PROVE  i - 1 \in 1 .. Len(rest) /\ chain[i] = rest[i - 1]
    <3>1. PICK h : h = i - 1
      OBVIOUS
    <3>2. h \in 1 .. Len(rest) /\ h + 1 = i
      BY <1>9, <2>1, <2>4, <3>1
    <3>3. chain[i] = rest[h]
      BY <2>1, <3>2
    <3>4. QED
      BY <3>1, <3>2, <3>3
  <2>5. Last(contents, chain) = Last(contents, rest)
    <3>1. m \in 1 .. m /\ m # 1
      <4> HIDE DEF m
      <4>1. QED
        BY <1>9, <1>11
    <3>2. chain[m] = rest[Len(rest)]
      BY <2>1, <2>4, <3>1
    <3>3. QED
      BY <3>2 DEF Last
  <2> HIDE DEF m, n
  <2>6. Last(contents, chain) # <<>> => n - 1 + m <= MaxDepth
    BY <1>1, <1>9, <2>1, <2>3, <2>5, PayloadAssumption
  <2>7. ASSUME NEW i \in 1 .. m, NEW j \in 1 .. n - 1 PROVE chain[i] # frames[j].object
    <3>1. CASE i = 1
      BY <1>8, <1>9, <3>1
    <3>2. CASE i # 1
      BY <1>2, <2>3, <2>4, <3>2
    <3>3. QED
      BY <3>1, <3>2
  <2>8. ASSUME NEW i \in 1 .. m, i # 1 PROVE chain[i] # chain[1]
    <3>1. rest[i - 1] # frames[n].object
      BY <1>1, <2>3, <2>4, <2>8
    <3>2. chain[1] = frames[n].object
      BY <1>9
    <3>3. QED
      BY <2>4, <2>8, <3>1, <3>2
  <2>9. ASSUME NEW i \in 1 .. m, NEW j \in 1 .. m, chain[i] = chain[j] PROVE i = j
    <3>1. CASE i = 1 \/ j = 1
      BY <2>8, <2>9, <3>1
    <3>2. CASE i # 1 /\ j # 1
      <4>1. rest[i - 1] = rest[j - 1] /\ i - 1 \in 1 .. Len(rest) /\ j - 1 \in 1 .. Len(rest)
        BY <2>4, <2>9, <3>2
      <4>2. i - 1 = j - 1
        BY <2>3, <4>1
      <4>3. QED
        BY <4>2
    <3>3. QED
      BY <3>1, <3>2
  <2>10. QED
    BY <2>3, <2>5, <2>6, <2>7, <2>9 DEF m, n
<1>12. m = 1 \/ m > 1
  <2> HIDE DEF m
  <2>1. QED
    BY <1>9
<1>13. QED
  BY <1>10, <1>11, <1>12, Zenon

\* The finally block of the innermost call: the container left is one more that is clean.
LEMMA CompletedLeaves ==
  ASSUME NEW contents \in [Objects -> Seq(PropertyValues)], NEW open,
         NEW frames \in Seq(Frames), frames # <<>>, Walk(contents, frames, open),
         Completed(contents, frames),
         frames[Len(frames)].next \notin DOMAIN contents[frames[Len(frames)].object]
  PROVE  Completed(contents, SubSeq(frames, 1, Len(frames) - 1))
<1> DEFINE n    == Len(frames) - 1
           left == SubSeq(frames, 1, n)
<1>1. /\ n \in Nat /\ n \in Int /\ Len(frames) = n + 1 /\ DOMAIN frames = 1 .. n + 1
      /\ \A i \in 1 .. n : frames[i] \in Frames
      /\ \A i \in 1 .. n : frames[i].next \in Nat /\ frames[i].next >= 1
  BY FrameType
<1>2. /\ left \in Seq(Frames)
      /\ Len(left) = IF 1 <= n THEN n - 1 + 1 ELSE 0
      /\ \A i \in 1 .. n - 1 + 1 : left[i] = frames[1 + i - 1]
  <2> HIDE DEF n
  <2>1. \A i \in 1 .. n : i \in 1 .. n + 1
    BY <1>1
  <2>2. QED
    BY <1>1, <2>1, SubSeqProperties
<1>3. Clean(contents, frames, n, frames[n + 1].object)
  <2>1. Clean(contents, frames, Len(frames) - 1, frames[Len(frames)].object)
    BY LeftIsClean
  <2>2. QED
    BY <1>1, <2>1
<1> HIDE DEF n, left
<1>4. Len(left) = n /\ DOMAIN left = 1 .. n /\ \A i \in 1 .. n : left[i] = frames[i]
  <2>1. Len(left) = n /\ \A i \in 1 .. n : left[i] = frames[i]
    BY <1>1, <1>2
  <2>2. QED
    BY <1>2, <2>1
<1>5. ASSUME NEW i \in 1 .. n, NEW k \in 1 .. left[i].next - 1, i = n \/ k < left[i].next - 1,
             contents[left[i].object][k].type = "container"
      PROVE  Clean(contents, left, i, contents[left[i].object][k].object)
  <2>1. Clean(contents, frames, i, contents[frames[i].object][k].object)
    <3>1. CASE k < frames[i].next - 1
      <4>1. CompletedIn(contents, frames, i)
        BY <1>1 DEF Completed
      <4>2. QED
        BY <1>4, <1>5, <3>1, <4>1 DEF CompletedIn
    <3>2. CASE ~(k < frames[i].next - 1)
      <4>1. i = n /\ k = frames[n].next - 1
        BY <1>1, <1>4, <1>5, <3>2
      <4>2. Contains(contents[frames[n].object], frames[n].next, frames[n + 1].object)
        <5>1. PICK j : j = n + 1
          OBVIOUS
        <5>2. j \in DOMAIN frames /\ j > 1 /\ j - 1 = n
          BY <1>1, <4>1, <5>1
        <5>3. Contains(contents[frames[j - 1].object], frames[j - 1].next, frames[j].object)
          BY <5>2 DEF Walk
        <5>4. QED
          BY <5>1, <5>2, <5>3
      <4>3. contents[frames[i].object][k].object = frames[n + 1].object
        BY <4>1, <4>2 DEF Contains
      <4>4. QED
        BY <1>3, <4>1, <4>3
    <3>3. QED
      BY <3>1, <3>2
  <2>2. \A j \in 1 .. i : left[j].object = frames[j].object
    BY <1>1, <1>4
  <2>3. QED
    BY <1>4, <2>1, <2>2, CleanDependsOnObjects
<1>6. ASSUME NEW i \in 1 .. n, left[i].next > 1 PROVE i <= MaxDepth
  <2>1. i \in DOMAIN frames /\ frames[i].next > 1
    BY <1>1, <1>4, <1>6
  <2>2. QED
    BY <2>1 DEF Completed
<1>7. Completed(contents, left)
  BY <1>4, <1>5, <1>6 DEF Completed, CompletedIn
<1>8. QED
  BY <1>7 DEF left, n

-----------------------------------------------------------------------------
(* PayloadInvariant is inductive.                                          *)

\* Before the call nothing is walked, and the arguments are of the classes Cases ranges over.
LEMMA InitInvariant == Init => PayloadInvariant
<1> SUFFICES ASSUME Init PROVE PayloadInvariant
  OBVIOUS
<1>1. PICK call \in Cases :
        settings = call.settings /\ event = call.event /\ graph = call.graph
  BY DEF Init
<1>2. stack = <<>> /\ ancestors = {} /\ verdict = "new"
  BY DEF Init
<1>3. /\ call.settings \in Configurations /\ call.event \in Arguments
      /\ call.graph \in [Objects -> Seq(PropertyValues)]
  <2>1. call \in [settings : Configurations, event : Arguments,
                  graph : [Objects -> Seq(PropertyValues)]]
    BY PayloadAssumption
  <2>2. \A A, B, C : \A r \in [settings : A, event : B, graph : C] :
          r.settings \in A /\ r.event \in B /\ r.graph \in C
    OBVIOUS
  <2>3. QED
    BY <2>1, <2>2
<1>4. Types
  BY <1>1, <1>2, <1>3 DEF Types
<1>5. Contents \in [Objects -> Seq(PropertyValues)]
  BY <1>4, ContentsType
<1>6. Walk(Contents, stack, ancestors)
  BY <1>2, <1>5, WalkStarts
<1>7. QED
  BY <1>2, <1>4, <1>6 DEF PayloadInvariant, ArgumentsChecked, OrderRead

\* The arguments and the properties do not change while the SDK reads them.
LEMMA InputsStay ==
  ASSUME UNCHANGED inputs
  PROVE  /\ settings' = settings /\ event' = event /\ graph' = graph
         /\ Contents' = Contents /\ (\A o : Items(o)' = Items(o))
         /\ SettingsRefused' = SettingsRefused /\ OrderRefused' = OrderRefused
<1>1. settings' = settings /\ event' = event /\ graph' = graph
  BY DEF inputs
<1>2. \A o : Items(o)' = Items(o)
  BY <1>1 DEF Items
<1>3. Contents' = Contents
  BY <1>2 DEF Contents
<1>4. SettingsRefused' = SettingsRefused
  BY <1>1 DEF SettingsRefused, OriginRefused
<1>5. OrderRefused' = OrderRefused
  BY <1>1 DEF OrderRefused, Nonblank
<1>6. QED
  BY <1>1, <1>2, <1>3, <1>4, <1>5

\* An error leaves every call of _container: none is under way.
LEMMA RefusePreserves ==
  ASSUME PayloadInvariant,
         NEW kind \in {"refused", "raised", "invalid", "cycle", "deep"}, Refuse(kind)
  PROVE  PayloadInvariant'
<1>1. verdict' = kind /\ stack' = <<>> /\ ancestors' = {} /\ UNCHANGED inputs
  BY DEF Refuse
<1>2. /\ settings' = settings /\ event' = event /\ graph' = graph /\ Contents' = Contents
  BY <1>1, InputsStay
<1>3. Types'
  BY <1>1, <1>2 DEF PayloadInvariant, Types
<1>4. Walk(Contents, stack, ancestors)'
  <2>1. Contents \in [Objects -> Seq(PropertyValues)]
    BY ContentsType DEF PayloadInvariant
  <2>2. Walk(Contents, <<>>, {})
    BY <2>1, WalkStarts
  <2>3. QED
    BY <1>1, <1>2, <2>2
<1>5. QED
  BY <1>1, <1>3, <1>4 DEF PayloadInvariant, ArgumentsChecked, OrderRead

\* A client that is constructed, and a call without properties to walk.
LEMMA StepOutsidePreserves ==
  ASSUME PayloadInvariant, UNCHANGED <<inputs, stack, ancestors>>,
         \/ verdict = "new" /\ ~SettingsRefused /\ verdict' = "called"
         \/ /\ verdict = "called" /\ event.method \notin OrderEvents /\ verdict' = "encoding"
         \/ verdict = "encoding" /\ verdict' \in {"refused", "accepted"}
         \/ verdict' = verdict
  PROVE  PayloadInvariant'
<1>1. /\ settings' = settings /\ event' = event /\ graph' = graph /\ Contents' = Contents
      /\ stack' = stack /\ ancestors' = ancestors
      /\ SettingsRefused' = SettingsRefused /\ OrderRefused' = OrderRefused
      /\ \A o : Items(o)' = Items(o)
  BY InputsStay
<1>2. Types'
  BY <1>1 DEF PayloadInvariant, Types
<1>3. Walk(Contents, stack, ancestors)'
  BY <1>1 DEF PayloadInvariant
<1>4. ArgumentsChecked'
  BY <1>1 DEF PayloadInvariant, ArgumentsChecked
<1>5. OrderRead'
  <2>1. Items(Root)' = Items(Root)
    BY <1>1
  <2>2. QED
    BY <1>1, <2>1 DEF PayloadInvariant, OrderRead
<1>6. (verdict = "walking" <=> stack # <<>>)'
  BY <1>1 DEF PayloadInvariant
<1>7. QED
  BY <1>2, <1>3, <1>4, <1>5, <1>6 DEF PayloadInvariant

\* The client's constructor.
LEMMA ConstructPreserves ==
  ASSUME PayloadInvariant, Construct PROVE PayloadInvariant'
<1>1. \/ Refuse("refused") \/ Refuse("raised")
      \/ /\ verdict = "new" /\ ~SettingsRefused /\ verdict' = "called"
         /\ UNCHANGED <<inputs, stack, ancestors>>
  BY Zenon DEF Construct
<1>2. CASE Refuse("refused") \/ Refuse("raised")
  BY <1>2, RefusePreserves
<1>3. CASE /\ verdict = "new" /\ ~SettingsRefused /\ verdict' = "called"
           /\ UNCHANGED <<inputs, stack, ancestors>>
  BY <1>3, StepOutsidePreserves
<1>4. QED
  BY <1>1, <1>2, <1>3

\* An event method up to the walk.
LEMMA CallPreserves ==
  ASSUME PayloadInvariant, Call PROVE PayloadInvariant'
<1> DEFINE Skips == /\ verdict = "called" /\ event.method \notin OrderEvents
                    /\ verdict' = "encoding" /\ UNCHANGED <<inputs, stack, ancestors>>
           Walks == /\ event.method \in OrderEvents => ~OrderRefused
                    /\ verdict = "called" /\ verdict' = "walking"
                    /\ stack' = <<[object |-> Root, next |-> 1]>>
                    /\ Enter(Root)
<1>1. Refuse("raised") \/ Refuse("refused") \/ Skips \/ Walks
  BY Zenon DEF Call
<1>2. CASE Refuse("raised") \/ Refuse("refused")
  BY <1>2, RefusePreserves
<1>3. CASE Skips
  BY <1>3, StepOutsidePreserves
<1>4. CASE Walks
  <2>1. /\ verdict = "called" /\ verdict' = "walking"
        /\ stack' = <<[object |-> Root, next |-> 1]>>
        /\ ancestors' = ancestors \cup {Root} /\ UNCHANGED inputs
    BY <1>4 DEF Enter
  <2>2. /\ settings' = settings /\ event' = event /\ graph' = graph /\ Contents' = Contents
        /\ SettingsRefused' = SettingsRefused /\ OrderRefused' = OrderRefused
    BY <2>1, InputsStay
  <2>3. ancestors = {}
    BY <2>1 DEF PayloadInvariant, Types, Walk
  <2>4. Contents \in [Objects -> Seq(PropertyValues)]
    BY ContentsType DEF PayloadInvariant
  <2>5. stack' \in Seq(Frames) /\ Walk(Contents, stack', {Root})
    BY <2>1, <2>4, WalkStarts
  <2>6. Types'
    BY <2>1, <2>2, <2>5 DEF PayloadInvariant, Types
  <2>7. Walk(Contents, stack, ancestors)'
    <3>1. ancestors' = {Root}
      BY <2>1, <2>3
    <3>2. QED
      BY <2>2, <2>5, <3>1
  <2>8. stack' # <<>>
    BY <2>1
  <2>9. ArgumentsChecked'
    <3>1. ~SettingsRefused
      BY <2>1 DEF PayloadInvariant, ArgumentsChecked
    <3>2. event.method \in OrderEvents => ~OrderRefused
      BY <1>4
    <3>3. QED
      BY <2>2, <3>1, <3>2 DEF ArgumentsChecked
  <2>10. QED
    BY <2>1, <2>6, <2>7, <2>8, <2>9 DEF PayloadInvariant, OrderRead
<1>5. QED
  BY <1>1, <1>2, <1>3, <1>4

\* The innermost call before a value is read.
LEMMA WalkingType ==
  ASSUME PayloadInvariant, verdict = "walking"
  PROVE  /\ Contents \in [Objects -> Seq(PropertyValues)]
         /\ stack \in Seq(Frames) /\ stack # <<>> /\ Walk(Contents, stack, ancestors)
         /\ Top = stack[Len(stack)] /\ Top \in Frames /\ Top.object \in Objects
         /\ Contents[Top.object] = Items(Top.object)
<1>1. /\ Contents \in [Objects -> Seq(PropertyValues)]
      /\ \A o \in Objects : Contents[o] = Items(o)
  BY ContentsType DEF PayloadInvariant
<1>2. stack \in Seq(Frames) /\ stack # <<>> /\ Walk(Contents, stack, ancestors)
  BY DEF PayloadInvariant, Types
<1>3. Top \in Frames /\ Top.object \in Objects /\ Top = stack[Len(stack)]
  <2>1. Len(stack) \in 1 .. Len(stack)
    BY <1>2, FrameType
  <2>2. QED
    BY <1>2, <2>1, FrameType DEF Top
<1>4. QED
  BY <1>1, <1>2, <1>3

\* The innermost call after it has read a value that is not refused.
LEMMA ReadsOn ==
  ASSUME PayloadInvariant, verdict = "walking", Top.next \in DOMAIN Items(Top.object),
         Sound(Value)
  PROVE  /\ Advanced \in Seq(Frames) /\ Advanced # <<>> /\ Advance(stack, Advanced)
         /\ Walk(Contents, Advanced, ancestors)
<1>1. /\ Contents \in [Objects -> Seq(PropertyValues)]
      /\ stack \in Seq(Frames) /\ stack # <<>> /\ Walk(Contents, stack, ancestors)
      /\ Top = stack[Len(stack)] /\ Top \in Frames /\ Top.object \in Objects
      /\ Contents[Top.object] = Items(Top.object)
  BY WalkingType
<1>2. Len(stack) \in Nat /\ Len(stack) > 0 /\ DOMAIN stack = 1 .. Len(stack)
  BY <1>1, FrameType
<1> DEFINE read == [Top EXCEPT !.next = @ + 1]
<1>3. read = [object |-> Top.object, next |-> Top.next + 1] /\ read \in Frames
  BY <1>1 DEF Frames
<1>4. Advanced = [stack EXCEPT ![Len(stack)] = read]
  BY <1>1 DEF Advanced
<1> HIDE DEF read
<1>5. Advanced \in Seq(Frames) /\ Len(Advanced) = Len(stack)
      /\ Advanced[Len(stack)] = read
      /\ \A i \in 1 .. Len(stack) - 1 : Advanced[i] = stack[i]
  BY <1>1, <1>2, <1>3, <1>4
<1>6. Advance(stack, Advanced)
  BY <1>1, <1>3, <1>5 DEF Advance
<1>7. Advanced # <<>>
  BY <1>2, <1>5
<1>8. Sound(Contents[Top.object][Top.next])
  BY <1>1 DEF Value
<1>9. Walk(Contents, Advanced, ancestors)
  BY <1>1, <1>5, <1>6, <1>7, <1>8, WalkAdvances
<1>10. QED
  BY <1>5, <1>6, <1>7, <1>9

\* A walk that goes on.
LEMMA WalkGoesOn ==
  ASSUME PayloadInvariant, verdict = "walking", verdict' = "walking", UNCHANGED inputs,
         stack' \in Seq(Frames), stack' # <<>>, Walk(Contents, stack', ancestors')
  PROVE  PayloadInvariant'
<1>1. /\ settings' = settings /\ event' = event /\ graph' = graph /\ Contents' = Contents
      /\ SettingsRefused' = SettingsRefused /\ OrderRefused' = OrderRefused
  BY InputsStay
<1>2. Types'
  BY <1>1 DEF PayloadInvariant, Types
<1>3. ArgumentsChecked'
  BY <1>1 DEF PayloadInvariant, ArgumentsChecked
<1>4. Walk(Contents, stack, ancestors)'
  BY <1>1
<1>5. QED
  BY <1>2, <1>3, <1>4 DEF PayloadInvariant, OrderRead

\* The next value of the innermost container.
LEMMA VisitPreserves ==
  ASSUME PayloadInvariant, Visit PROVE PayloadInvariant'
<1>1. verdict = "walking" /\ Top.next \in DOMAIN Items(Top.object)
  BY DEF Visit
<1>2. CASE Refuse("invalid") \/ Refuse("deep")
  BY <1>2, RefusePreserves
<1>3. CASE ~DepthExceeded /\ VisitScalar
  <2>1. CASE Fits(Value)
    <3>1. Sound(Value)
      BY <1>3, <2>1 DEF VisitScalar, Sound
    <3>2. /\ stack' = Advanced /\ ancestors' = ancestors /\ verdict' = verdict
          /\ UNCHANGED inputs
      BY <1>3, <2>1 DEF VisitScalar
    <3>3. Advanced \in Seq(Frames) /\ Advanced # <<>> /\ Walk(Contents, Advanced, ancestors)
      BY <1>1, <3>1, ReadsOn
    <3>4. QED
      BY <1>1, <3>2, <3>3, WalkGoesOn
  <2>2. CASE ~Fits(Value)
    BY <1>3, <2>2, RefusePreserves DEF VisitScalar
  <2>3. QED
    BY <2>1, <2>2
<1>4. CASE ~DepthExceeded /\ VisitContainer
  <2>1. CASE Value.object \in ancestors
    BY <1>4, <2>1, RefusePreserves DEF VisitContainer
  <2>2. CASE Value.object \notin ancestors
    <3> DEFINE o     == Value.object
               frame == [object |-> o, next |-> 1]
    <3>1. /\ Value.type = "container" /\ stack' = Append(Advanced, frame)
          /\ ancestors' = ancestors \cup {o} /\ verdict' = verdict /\ UNCHANGED inputs
      BY <1>4, <2>2 DEF VisitContainer, Enter
    <3>2. /\ Advanced \in Seq(Frames) /\ Advanced # <<>> /\ Advance(stack, Advanced)
          /\ Walk(Contents, Advanced, ancestors)
      <4>1. Sound(Value)
        BY <3>1 DEF Sound
      <4>2. QED
        BY <1>1, <4>1, ReadsOn
    <3>3. /\ Contents \in [Objects -> Seq(PropertyValues)]
          /\ stack \in Seq(Frames) /\ stack # <<>>
          /\ Top = stack[Len(stack)] /\ Top \in Frames /\ Top.object \in Objects
          /\ Contents[Top.object] = Items(Top.object)
      BY <1>1, WalkingType
    <3>4. o \in Objects
      <4>1. Value \in PropertyValues
        BY <1>1, <3>3 DEF Value
      <4>2. \A r \in PropertyValues : r.object \in Objects
        BY DEF PropertyValues
      <4>3. QED
        BY <4>1, <4>2
    <3>5. Len(Advanced) <= MaxDepth
      <4>1. Len(stack) \in Nat
        BY <3>3, FrameType
      <4>2. QED
        BY <1>4, <3>2, <4>1, PayloadAssumption DEF DepthExceeded, Advance
    <3>6. Contains(Contents[Advanced[Len(Advanced)].object], Advanced[Len(Advanced)].next, o)
      <4>1. /\ Advanced[Len(Advanced)].object = Top.object
            /\ Advanced[Len(Advanced)].next = Top.next + 1
        BY <3>2, <3>3 DEF Advance
      <4>2. Top.next \in Nat /\ Top.next >= 1 /\ Top.next + 1 > 1
            /\ Top.next + 1 - 1 = Top.next
        BY <3>3 DEF Frames
      <4>3. Value = Contents[Top.object][Top.next]
        BY <3>3 DEF Value
      <4>4. QED
        BY <3>1, <4>1, <4>2, <4>3 DEF Contains
    <3> HIDE DEF o
    <3>7. /\ Append(Advanced, frame) \in Seq(Frames)
          /\ Walk(Contents, Append(Advanced, frame), ancestors \cup {o})
      BY <2>2, <3>2, <3>3, <3>4, <3>5, <3>6, WalkEnters DEF o
    <3>8. Append(Advanced, frame) # <<>>
      <4>1. frame \in Frames
        BY <3>4 DEF Frames
      <4> HIDE DEF frame
      <4>2. Len(Append(Advanced, frame)) = Len(Advanced) + 1 /\ Len(Advanced) \in Nat
        BY <3>2, <4>1, AppendProperties
      <4>3. QED
        BY <4>2
    <3>9. QED
      BY <1>1, <3>1, <3>7, <3>8, WalkGoesOn
  <2>3. QED
    BY <2>1, <2>2
<1>5. QED
  BY <1>2, <1>3, <1>4 DEF Visit

\* The end of a _container.
LEMMA LeavePreserves ==
  ASSUME PayloadInvariant, Leave PROVE PayloadInvariant'
<1> DEFINE left == SubSeq(stack, 1, Len(stack) - 1)
<1>1. /\ verdict = "walking" /\ Top.next \notin DOMAIN Items(Top.object)
      /\ stack' = left /\ ancestors' = ancestors \ {Top.object} /\ UNCHANGED inputs
      /\ verdict' = IF Len(stack) = 1 THEN "encoding" ELSE verdict
  BY DEF Leave
<1>2. /\ Contents \in [Objects -> Seq(PropertyValues)]
      /\ stack \in Seq(Frames) /\ stack # <<>> /\ Walk(Contents, stack, ancestors)
      /\ Top = stack[Len(stack)] /\ Top \in Frames /\ Top.object \in Objects
      /\ Contents[Top.object] = Items(Top.object)
  BY <1>1, WalkingType
<1>3. /\ left \in Seq(Frames) /\ Walk(Contents, left, ancestors \ {Top.object})
      /\ left = <<>> <=> Len(stack) = 1
  BY <1>2, WalkLeaves
<1> HIDE DEF left
<1>4. CASE Len(stack) # 1
  BY <1>1, <1>3, <1>4, WalkGoesOn
<1>5. CASE Len(stack) = 1
  <2>1. verdict' = "encoding" /\ stack' = <<>>
    BY <1>1, <1>3, <1>5
  <2>2. /\ settings' = settings /\ event' = event /\ graph' = graph /\ Contents' = Contents
        /\ SettingsRefused' = SettingsRefused /\ OrderRefused' = OrderRefused
        /\ \A o : Items(o)' = Items(o)
    BY <1>1, InputsStay
  <2>3. Types'
    BY <1>1, <1>3, <2>1, <2>2 DEF PayloadInvariant, Types
  <2>4. Walk(Contents, stack, ancestors)'
    BY <1>1, <1>3, <2>2
  <2>5. ArgumentsChecked'
    BY <1>1, <2>1, <2>2 DEF PayloadInvariant, ArgumentsChecked
  <2>6. \A k \in DOMAIN Items(Root) : Sound(Items(Root)[k])
    <3>1. Top.object = Root
      BY <1>2, <1>5 DEF Walk
    <3>2. ReadUpTo(Items(Root), Top.next)
      <4>1. 1 \in DOMAIN stack
        BY <1>2, <1>5, FrameType
      <4>2. ReadUpTo(Contents[Top.object], Top.next)
        BY <1>2, <1>5, <4>1 DEF Walk
      <4>3. QED
        BY <1>2, <3>1, <4>2
    <3>3. Items(Root) \in Seq(PropertyValues) /\ Top.next \in Nat /\ Top.next >= 1
      <4>1. Contents[Top.object] \in Seq(PropertyValues)
        BY <1>2
      <4>2. QED
        BY <1>2, <3>1, <4>1 DEF Frames
    <3>4. Top.next \notin DOMAIN Items(Root)
      BY <1>1, <3>1
    <3> DEFINE values == Items(Root)
    <3> HIDE DEF values
    <3>5. values \in Seq(PropertyValues) /\ Top.next \notin DOMAIN values
          /\ ReadUpTo(values, Top.next)
      BY <3>2, <3>3, <3>4 DEF values
    <3>6. Top.next = Len(values) + 1
      BY <3>3, <3>5 DEF ReadUpTo
    <3>7. \A k \in DOMAIN values : Sound(values[k])
      <4>1. DOMAIN values = 1 .. Top.next - 1
        BY <3>5, <3>6
      <4>2. QED
        BY <3>5, <4>1 DEF ReadUpTo
    <3>8. QED
      BY <3>7 DEF values
  <2>7. OrderRead'
    <3>1. Items(Root)' = Items(Root)
      BY <2>2
    <3>2. QED
      BY <2>6, <3>1 DEF OrderRead
  <2>8. QED
    BY <2>1, <2>3, <2>4, <2>5, <2>7 DEF PayloadInvariant
<1>6. QED
  BY <1>4, <1>5

\* Every step keeps the invariant.
LEMMA StepInvariant == PayloadInvariant /\ [Next]_vars => PayloadInvariant'
<1> SUFFICES ASSUME PayloadInvariant, [Next]_vars PROVE PayloadInvariant'
  OBVIOUS
<1>1. CASE Construct
  BY <1>1, ConstructPreserves
<1>2. CASE Call
  BY <1>2, CallPreserves
<1>3. CASE Visit
  BY <1>3, VisitPreserves
<1>4. CASE Leave
  BY <1>4, LeavePreserves
<1>5. CASE Encode
  <2>1. verdict = "encoding" /\ verdict' \in {"refused", "accepted"}
        /\ UNCHANGED <<inputs, stack, ancestors>>
    BY <1>5 DEF Encode
  <2>2. QED
    BY <2>1, StepOutsidePreserves
<1>6. CASE UNCHANGED vars
  <2>1. verdict' = verdict /\ UNCHANGED <<inputs, stack, ancestors>>
    BY <1>6 DEF vars
  <2>2. QED
    BY <2>1, StepOutsidePreserves
<1>7. QED
  BY <1>1, <1>2, <1>3, <1>4, <1>5, <1>6 DEF Next

-----------------------------------------------------------------------------
(* WalkInvariant is inductive.                                             *)

\* Below properties that are clean there is nothing to find.
LEMMA CleanIsRight ==
  ASSUME Types, NEW frames, Clean(Contents, frames, 0, Root)
  PROVE  ~HasCycle /\ ~IsTooDeep /\ ~HasInvalid
<1>1. /\ Contents \in [Objects -> Seq(PropertyValues)] /\ Root \in Objects
      /\ \A o \in Objects : Contents[o] = Items(o)
  BY ContentsType, PayloadAssumption
<1>2. \A chain : Chain(Contents, Root, chain) =>
        /\ \A i, j \in 1 .. Len(chain) : chain[i] = chain[j] => i = j
        /\ \A k \in DOMAIN Last(Contents, chain) : Sound(Last(Contents, chain)[k])
        /\ Last(Contents, chain) # <<>> => 0 + Len(chain) <= MaxDepth
  BY DEF Clean
<1>3. ASSUME NEW path \in Paths
      PROVE  /\ Chain(Contents, Root, path) /\ Len(path) \in Nat /\ Len(path) >= 1
             /\ path[Len(path)] \in Objects /\ Last(Contents, path) = ItemsAt(path)
             /\ ItemsAt(path) \in Seq(PropertyValues)
  BY <1>1, PathsAreChains, <1>3
<1>4. ASSUME HasCycle PROVE FALSE
  <2>1. PICK path \in Paths : \E i \in 1 .. Len(path) : Inside(path[Len(path)], path[i])
    BY <1>4 DEF HasCycle
  <2>2. PICK i \in 1 .. Len(path) : Inside(path[Len(path)], path[i])
    BY <2>1
  <2>3. PICK n : n = Len(path)
    OBVIOUS
  <2>4. path \in Seq(Objects) /\ path[1] = Root
    BY <1>3 DEF Chain
  <2>5. /\ Chain(Contents, Root, path) /\ n \in Nat /\ n >= 1 /\ path[n] \in Objects
        /\ path \in Seq(Objects) /\ path[1] = Root
        /\ Inside(path[n], path[i]) /\ i \in 1 .. n /\ path[i] \in Objects
    <3>1. i \in DOMAIN path
      BY <1>3, <2>4
    <3>2. path[i] \in Objects
      BY <2>4, <3>1
    <3>3. QED
      BY <1>3, <2>2, <2>3, <2>4, <3>2
  <2> DEFINE circle == Append(path, path[i])
  <2>6. /\ circle \in Seq(Objects) /\ Len(circle) = n + 1
        /\ \A j \in 1 .. n : circle[j] = path[j]
        /\ circle[n + 1] = path[i]
    BY <2>3, <2>5, AppendProperties
  <2> HIDE DEF circle
  <2>7. circle # <<>> /\ circle[1] = Root
    BY <2>5, <2>6
  <2>8. ASSUME NEW j \in 1 .. Len(circle) - 1
        PROVE  \E k \in DOMAIN Contents[circle[j]] :
                 /\ Contents[circle[j]][k].type = "container"
                 /\ Contents[circle[j]][k].object = circle[j + 1]
    <3>1. PICK h : h = j + 1
      OBVIOUS
    <3>2. j \in 1 .. n /\ circle[j] = path[j]
      BY <2>5, <2>6
    <3>3. CASE j = n
      <4>1. circle[h] = path[i] /\ Contents[path[n]] = Items(path[n])
        BY <1>1, <2>5, <2>6, <3>1, <3>3
      <4>2. QED
        BY <2>5, <3>1, <3>2, <3>3, <4>1 DEF Inside
    <3>4. CASE j # n
      <4>1. j \in 1 .. Len(path) - 1 /\ h \in 1 .. n /\ circle[h] = path[h]
        BY <2>3, <2>5, <2>6, <3>1, <3>2, <3>4
      <4>2. \E k \in DOMAIN Contents[path[j]] :
              /\ Contents[path[j]][k].type = "container"
              /\ Contents[path[j]][k].object = path[j + 1]
        BY <2>5, <4>1 DEF Chain
      <4>3. QED
        BY <3>1, <3>2, <4>1, <4>2
    <3>5. QED
      BY <3>3, <3>4
  <2>9. Chain(Contents, Root, circle)
    BY <2>6, <2>7, <2>8 DEF Chain
  <2>10. i \in 1 .. Len(circle) /\ n + 1 \in 1 .. Len(circle) /\ circle[i] = circle[n + 1]
        /\ i # n + 1
    BY <2>5, <2>6
  <2>11. QED
    BY <1>2, <2>9, <2>10
<1>5. ASSUME IsTooDeep PROVE FALSE
  <2>1. PICK path \in Paths : Len(path) > MaxDepth /\ ItemsAt(path) # <<>>
    BY <1>5 DEF IsTooDeep
  <2>2. 0 + Len(path) <= MaxDepth /\ Len(path) \in Nat
    BY <1>2, <1>3, <2>1
  <2>3. QED
    BY <2>1, <2>2, PayloadAssumption
<1>6. ASSUME HasInvalid PROVE FALSE
  <2>1. PICK path \in Paths : \E k \in DOMAIN ItemsAt(path) : ~Documented(ItemsAt(path)[k])
    BY <1>6 DEF HasInvalid
  <2>2. PICK k \in DOMAIN ItemsAt(path) : ~Documented(ItemsAt(path)[k])
    BY <2>1
  <2>3. Sound(ItemsAt(path)[k]) /\ ItemsAt(path)[k] \in PropertyValues
    BY <1>2, <1>3, <2>2
  <2>4. QED
    BY <2>2, <2>3, SoundIsDocumented
<1>7. QED
  BY <1>4, <1>5, <1>6

\* The containers that _container is in are a path.
LEMMA StackIsPath ==
  ASSUME PayloadInvariant, verdict = "walking"
  PROVE  \E path \in Paths : /\ Len(path) = Len(stack) /\ path[Len(path)] = Top.object
                             /\ ancestors = {path[i] : i \in 1 .. Len(path)}
<1> DEFINE path == [i \in 1 .. Len(stack) |-> stack[i].object]
<1>1. /\ Contents \in [Objects -> Seq(PropertyValues)]
      /\ stack \in Seq(Frames) /\ stack # <<>> /\ Walk(Contents, stack, ancestors)
      /\ Top = stack[Len(stack)] /\ Types
  BY WalkingType DEF PayloadInvariant
<1>2. /\ Len(stack) \in Nat /\ Len(stack) > 0 /\ DOMAIN stack = 1 .. Len(stack)
      /\ \A i \in 1 .. Len(stack) : /\ stack[i].object \in Objects
                                    /\ stack[i].next \in Nat /\ stack[i].next >= 1
  BY <1>1, FrameType
<1>3. /\ path \in Seq(Objects) /\ Len(path) = Len(stack) /\ path # <<>>
      /\ \A i \in 1 .. Len(stack) : path[i] = stack[i].object
  BY <1>2
<1> HIDE DEF path
<1>4. path[1] = Root
  BY <1>1, <1>2, <1>3 DEF Walk
<1>5. ASSUME NEW i \in 1 .. Len(stack) - 1
      PROVE  \E k \in DOMAIN Contents[path[i]] :
               /\ Contents[path[i]][k].type = "container"
               /\ Contents[path[i]][k].object = path[i + 1]
  <2>1. PICK j : j = i + 1
    OBVIOUS
  <2>2. i \in 1 .. Len(stack) /\ j \in 1 .. Len(stack) /\ j > 1 /\ j - 1 = i
    BY <1>2, <2>1
  <2> DEFINE values == Contents[stack[i].object]
             next   == stack[i].next
  <2>3. Contains(values, next, stack[j].object)
    <3>1. Contains(Contents[stack[j - 1].object], stack[j - 1].next, stack[j].object)
      BY <1>1, <1>2, <2>2 DEF Walk
    <3>2. QED
      BY <2>2, <3>1
  <2>4. ReadUpTo(values, next)
    BY <1>1, <1>2, <2>2 DEF Walk
  <2>5. /\ values \in Seq(PropertyValues) /\ next \in Nat /\ next >= 1
        /\ values = Contents[path[i]] /\ path[i + 1] = stack[j].object
    BY <1>1, <1>2, <1>3, <2>1, <2>2
  <2> HIDE DEF values, next
  <2>6. next - 1 \in DOMAIN values
    BY <2>3, <2>4, <2>5 DEF Contains, ReadUpTo
  <2>7. values[next - 1].type = "container" /\ values[next - 1].object = path[i + 1]
    BY <2>3, <2>5 DEF Contains
  <2>8. QED
    BY <2>5, <2>6, <2>7
<1>6. Chain(Contents, Root, path)
  BY <1>2, <1>3, <1>4, <1>5 DEF Chain
<1>7. Len(path) <= MaxDepth + 1
  BY <1>1, <1>3 DEF Walk
<1>8. path \in Paths
  BY <1>1, <1>6, <1>7, PathsAreChains
<1>9. ancestors = {path[i] : i \in 1 .. Len(path)}
  <2>1. ancestors = {stack[i].object : i \in 1 .. Len(stack)}
    BY <1>1, <1>2 DEF Walk
  <2>2. QED
    BY <1>3, <2>1
<1>10. path[Len(path)] = Top.object
  BY <1>1, <1>2, <1>3
<1>11. QED
  BY <1>3, <1>8, <1>9, <1>10

\* What there is to find stays as it is.
LEMMA FindingsStay ==
  ASSUME UNCHANGED inputs
  PROVE  HasCycle' = HasCycle /\ IsTooDeep' = IsTooDeep /\ HasInvalid' = HasInvalid
<1>1. settings' = settings /\ event' = event /\ graph' = graph
  BY DEF inputs
<1>2. HasCycle' = HasCycle
  BY <1>1 DEF HasCycle, Paths, Inside, Items
<1>3. IsTooDeep' = IsTooDeep
  BY <1>1 DEF IsTooDeep, Paths, Inside, ItemsAt, Items
<1>4. HasInvalid' = HasInvalid
  BY <1>1 DEF HasInvalid, Paths, Inside, ItemsAt, Items
<1>5. QED
  BY <1>2, <1>3, <1>4

\* An error leaves every call of _container, and is one the path to the value justifies.
LEMMA RefusalIsRight ==
  ASSUME PayloadInvariant, NEW kind, Refuse(kind),
         kind \in {"refused", "raised", "invalid", "cycle", "deep"},
         kind = "cycle" => HasCycle, kind = "deep" => IsTooDeep, kind = "invalid" => HasInvalid
  PROVE  WalkInvariant'
<1>1. verdict' = kind /\ stack' = <<>> /\ UNCHANGED inputs
  BY DEF Refuse
<1>2. WalkIsRight'
  BY <1>1, FindingsStay DEF WalkIsRight
<1>3. Completed(Contents, stack)'
  BY <1>1 DEF Completed
<1>4. QED
  BY <1>2, <1>3 DEF WalkInvariant

\* A step that neither walks nor reports an error of the walk.
LEMMA StepOutsideIsRight ==
  ASSUME WalkInvariant, UNCHANGED <<inputs, stack, ancestors>>,
         \/ verdict' \in {"called", "refused"}
         \/ verdict' = "encoding" /\ event.properties = "absent"
         \/ verdict = "encoding" /\ verdict' = "accepted"
         \/ verdict' = verdict
  PROVE  WalkInvariant'
<1>1. /\ Contents' = Contents /\ stack' = stack /\ event' = event
      /\ HasCycle' = HasCycle /\ IsTooDeep' = IsTooDeep /\ HasInvalid' = HasInvalid
  BY InputsStay, FindingsStay
<1>2. WalkIsRight'
  BY <1>1 DEF WalkInvariant, WalkIsRight
<1>3. Completed(Contents, stack)'
  BY <1>1 DEF WalkInvariant
<1>4. QED
  BY <1>2, <1>3 DEF WalkInvariant

\* The next value of the innermost container.
LEMMA VisitIsRight ==
  ASSUME PayloadInvariant, WalkInvariant, Visit PROVE WalkInvariant'
<1>1. /\ verdict = "walking" /\ Top.next \in DOMAIN Items(Top.object)
      /\ Completed(Contents, stack)
  BY DEF Visit, WalkInvariant
<1>2. /\ Contents \in [Objects -> Seq(PropertyValues)]
      /\ stack \in Seq(Frames) /\ stack # <<>> /\ Walk(Contents, stack, ancestors)
      /\ Top = stack[Len(stack)] /\ Top \in Frames /\ Top.object \in Objects
      /\ Contents[Top.object] = Items(Top.object)
  BY <1>1, WalkingType
<1>3. /\ Value = Items(Top.object)[Top.next] /\ Value \in PropertyValues
      /\ Items(Top.object) # <<>>
  <2>1. Items(Top.object) \in Seq(PropertyValues)
    BY <1>2
  <2>2. QED
    BY <1>1, <2>1 DEF Value
<1>4. PICK path \in Paths : /\ Len(path) = Len(stack) /\ path[Len(path)] = Top.object
                            /\ ancestors = {path[i] : i \in 1 .. Len(path)}
  BY <1>1, StackIsPath
<1>5. CASE Refuse("invalid") /\ Value.type # "container" /\ (Value.type = "bad key" \/ ~Fits(Value))
  <2>1. ~Documented(Value)
    BY <1>3, <1>5, SoundIsDocumented DEF Sound
  <2>2. HasInvalid
    BY <1>1, <1>3, <1>4, <2>1 DEF HasInvalid, ItemsAt
  <2>3. QED
    BY <1>5, <2>2, RefusalIsRight
<1>6. CASE Refuse("deep") /\ DepthExceeded
  <2>1. IsTooDeep
    BY <1>3, <1>4, <1>6 DEF IsTooDeep, ItemsAt, DepthExceeded
  <2>2. QED
    BY <1>6, <2>1, RefusalIsRight
<1>7. CASE Refuse("cycle") /\ Value.type = "container" /\ Value.object \in ancestors
  <2>1. PICK i \in 1 .. Len(path) : Value.object = path[i]
    BY <1>4, <1>7
  <2>2. Inside(path[Len(path)], path[i])
    BY <1>1, <1>3, <1>4, <1>7, <2>1 DEF Inside
  <2>3. HasCycle
    BY <2>2 DEF HasCycle
  <2>4. QED
    BY <1>7, <2>3, RefusalIsRight
<1>8. Len(stack) \in Nat
  BY <1>2, FrameType
<1>9. CASE /\ ~DepthExceeded /\ Value.type \notin {"container", "bad key"} /\ Fits(Value)
           /\ stack' = Advanced /\ UNCHANGED <<inputs, ancestors, verdict>>
  <2>1. /\ Advanced \in Seq(Frames) /\ Advanced # <<>> /\ Advance(stack, Advanced)
    BY <1>1, <1>9, ReadsOn DEF Sound
  <2>2. Len(stack) <= MaxDepth
    <3>1. ~DepthExceeded
      BY <1>9
    <3>2. QED
      BY <1>8, <3>1, PayloadAssumption DEF DepthExceeded
  <2>3. Contents[stack[Len(stack)].object][stack[Len(stack)].next].type # "container"
    BY <1>2, <1>3, <1>9
  <2>4. Completed(Contents, Advanced)
    BY <1>1, <1>2, <2>1, <2>2, <2>3, CompletedAdvances
  <2>5. QED
    BY <1>1, <1>9, <2>4, InputsStay DEF WalkInvariant, WalkIsRight
<1>10. CASE /\ ~DepthExceeded /\ Value.type = "container"
            /\ stack' = Append(Advanced, [object |-> Value.object, next |-> 1])
            /\ verdict' = verdict /\ UNCHANGED inputs
  <2>1. /\ Advanced \in Seq(Frames) /\ Advanced # <<>> /\ Advance(stack, Advanced)
    BY <1>1, <1>10, ReadsOn DEF Sound
  <2>2. Len(stack) <= MaxDepth
    BY <1>8, <1>10, PayloadAssumption DEF DepthExceeded
  <2>3. Value.object \in Objects
    BY <1>3 DEF PropertyValues
  <2>4. Completed(Contents, stack')
    BY <1>1, <1>2, <1>10, <2>1, <2>2, <2>3, CompletedEnters
  <2>5. QED
    BY <1>1, <1>10, <2>4, InputsStay DEF WalkInvariant, WalkIsRight
<1>11. QED
  BY <1>5, <1>6, <1>7, <1>9, <1>10 DEF Visit, VisitScalar, VisitContainer, Enter

\* The end of a _container.
LEMMA LeaveIsRight ==
  ASSUME PayloadInvariant, WalkInvariant, Leave PROVE WalkInvariant'
<1>1. /\ verdict = "walking" /\ Top.next \notin DOMAIN Items(Top.object)
      /\ stack' = SubSeq(stack, 1, Len(stack) - 1) /\ UNCHANGED inputs
      /\ verdict' = IF Len(stack) = 1 THEN "encoding" ELSE verdict
      /\ Completed(Contents, stack)
  BY DEF Leave, WalkInvariant
<1>2. /\ Contents \in [Objects -> Seq(PropertyValues)]
      /\ stack \in Seq(Frames) /\ stack # <<>> /\ Walk(Contents, stack, ancestors)
      /\ Top = stack[Len(stack)] /\ Top \in Frames /\ Top.object \in Objects
      /\ Contents[Top.object] = Items(Top.object) /\ Types
  BY <1>1, WalkingType DEF PayloadInvariant
<1>3. stack[Len(stack)].next \notin DOMAIN Contents[stack[Len(stack)].object]
  BY <1>1, <1>2
<1>4. Completed(Contents, SubSeq(stack, 1, Len(stack) - 1))
  BY <1>1, <1>2, <1>3, CompletedLeaves
<1>5. Completed(Contents, stack)'
  BY <1>1, <1>4, InputsStay
<1>6. Len(stack) = 1 => ~HasCycle /\ ~IsTooDeep /\ ~HasInvalid
  <2> SUFFICES ASSUME Len(stack) = 1 PROVE ~HasCycle /\ ~IsTooDeep /\ ~HasInvalid
    OBVIOUS
  <2>1. Clean(Contents, stack, Len(stack) - 1, stack[Len(stack)].object)
    BY <1>1, <1>2, <1>3, LeftIsClean
  <2>2. stack[Len(stack)].object = Root /\ Len(stack) - 1 = 0
    BY <1>2 DEF Walk
  <2>3. Clean(Contents, stack, 0, Root)
    BY <2>1, <2>2
  <2>4. QED
    BY <1>2, <2>3, CleanIsRight
<1>7. WalkIsRight'
  BY <1>1, <1>6, FindingsStay DEF WalkIsRight
<1>8. QED
  BY <1>5, <1>7 DEF WalkInvariant

\* Every step keeps it.
LEMMA WalkStepInvariant ==
  PayloadInvariant /\ WalkInvariant /\ [Next]_vars => WalkInvariant'
<1> SUFFICES ASSUME PayloadInvariant, WalkInvariant, [Next]_vars PROVE WalkInvariant'
  OBVIOUS
<1>1. CASE Construct
  <2>1. \/ Refuse("refused") \/ Refuse("raised")
        \/ verdict' = "called" /\ UNCHANGED <<inputs, stack, ancestors>>
    BY <1>1, Zenon DEF Construct
  <2>2. QED
    BY <2>1, RefusalIsRight, StepOutsideIsRight
<1>2. CASE Call
  <2>1. CASE Refuse("refused") \/ Refuse("raised")
    BY <2>1, RefusalIsRight
  <2>2. CASE /\ event.properties = "absent"
             /\ verdict' = "encoding" /\ UNCHANGED <<inputs, stack, ancestors>>
    BY <2>2, StepOutsideIsRight
  <2>3. CASE /\ verdict' = "walking" /\ stack' = <<[object |-> Root, next |-> 1]>>
             /\ UNCHANGED inputs
    <3>1. \A i \in DOMAIN stack' : stack'[i].next = 1
      BY <2>3
    <3>2. Completed(Contents', stack')
      BY <3>1 DEF Completed, CompletedIn
    <3>3. QED
      BY <2>3, <3>2 DEF WalkInvariant, WalkIsRight
  <2>4. QED
    BY <1>2, <2>1, <2>2, <2>3 DEF Call, Enter
<1>3. CASE Visit
  BY <1>3, VisitIsRight
<1>4. CASE Leave
  BY <1>4, LeaveIsRight
<1>5. CASE Encode
  <2>1. verdict = "encoding" /\ verdict' \in {"refused", "accepted"}
        /\ UNCHANGED <<inputs, stack, ancestors>>
    BY <1>5 DEF Encode
  <2>2. QED
    BY <2>1, StepOutsideIsRight
<1>6. CASE UNCHANGED vars
  <2>1. verdict' = verdict /\ UNCHANGED <<inputs, stack, ancestors>>
    BY <1>6 DEF vars
  <2>2. QED
    BY <2>1, StepOutsideIsRight
<1>7. QED
  BY <1>1, <1>2, <1>3, <1>4, <1>5, <1>6 DEF Next

-----------------------------------------------------------------------------
(* The theorems.                                                           *)

\* Whatever the caller passes, validation.py:151-198 keeps in ancestors the containers it is
\* in and no other, none of them twice and at most MaxDepth + 1 of them, and reaches an order's
\* encoding only with values it has read and need not refuse.
THEOREM Invariance == Spec => []PayloadInvariant
<1>1. Init => PayloadInvariant
  BY InitInvariant
<1>2. PayloadInvariant /\ [Next]_vars => PayloadInvariant'
  BY StepInvariant
<1>3. QED
  BY <1>1, <1>2, PTL DEF Spec

\* An accepted order carries a number in the range of safe integers that is off by no more
\* than one half from the amount given, which is no bool, and a currency json can write; its
\* properties hold neither key of their own (validation.py:69-91 with the walk of lines
\* 151-198).
THEOREM OrdersArePriced == Spec => []OrderIsPriced
<1>1. PayloadInvariant => OrderIsPriced
  <2> DEFINE given == Magnitude(event.amountQuarters)
             sent  == IF event.amount = "int" THEN given ELSE AsFloat(event.amountQuarters)
  <2> SUFFICES ASSUME PayloadInvariant, verdict = "accepted", event.method \in OrderEvents
               PROVE  /\ event.amount \in {"int", "float", "decimal"}
                      /\ sent <= 4 * MaxSafe /\ Magnitude(sent - given) <= 2
                      /\ event.currency = "text"
                      /\ ~event.reserved
    BY DEF OrderIsPriced
  <2>1. Types /\ ~OrderRefused /\ \A k \in DOMAIN Items(Root) : Sound(Items(Root)[k])
    BY DEF PayloadInvariant, ArgumentsChecked, OrderRead
  <2>2. ~event.reserved
    BY <2>1, Zenon DEF OrderRefused
  <2>3. /\ event.amount \notin {"bool", "not finite", "other"}
        /\ event.currency \in Strings /\ Nonblank(event.currency)
    BY <2>1, Zenon DEF OrderRefused
  <2>4. /\ event.amount \in {"int", "float", "decimal", "bool", "not finite", "signalling", "other"}
        /\ event.amountQuarters \in Int
    BY <2>1 DEF Types, Arguments
  <2>5. PICK k, l \in DOMAIN Items(Root) :
          /\ Items(Root)[k].type = event.amount /\ Items(Root)[k].quarters = event.amountQuarters
          /\ Items(Root)[l].type = event.currency
    BY <2>1, OrderItems
  <2>6. Fits(Items(Root)[k])
    <3>1. Items(Root)[k].type # "container"
      BY <2>4, <2>5
    <3>2. QED
      BY <2>1, <3>1, Zenon DEF Sound
  <2>7. event.amount \in {"int", "float", "decimal"}
    BY <2>3, <2>4, <2>5, <2>6 DEF Fits
  <2>8. sent <= 4 * MaxSafe /\ Magnitude(sent - given) <= 2
    <3>1. IF event.amount = "int" THEN given <= 4 * MaxSafe ELSE given < 4 * MaxSafe + 2
      <4>1. /\ Items(Root)[k].type \in {"int", "float", "decimal"}
            /\ Items(Root)[k].quarters \in Int
        BY <2>4, <2>5, <2>7
      <4>2. QED
        BY <2>5, <2>6, <4>1, NumbersInRangeFit
    <3>2. CASE event.amount = "int"
      <4>1. given \in Nat
        BY <2>4, MagnitudeType
      <4> HIDE DEF given
      <4>2. sent = given /\ sent - given = 0
        BY <3>2, <4>1
      <4>3. QED
        BY <3>1, <3>2, <4>2 DEF Magnitude
    <3>3. CASE event.amount # "int"
      BY <2>4, <3>1, <3>3, FloatsAreNear
    <3>4. QED
      BY <3>2, <3>3
  <2>9. event.currency = "text"
    <3>1. event.currency \in {"text", "surrogate"}
      BY <2>3 DEF Nonblank
    <3>2. ASSUME event.currency = "surrogate" PROVE FALSE
      <4>1. Items(Root)[l].type = "surrogate"
        BY <2>5, <3>2
      <4>2. ~Fits(Items(Root)[l])
        BY <4>1 DEF Fits
      <4>3. Items(Root)[l].type # "container"
        BY <4>1
      <4>4. QED
        BY <2>1, <4>2, <4>3, Zenon DEF Sound
    <3>3. QED
      BY <3>1, <3>2
  <2>10. QED
    BY <2>2, <2>7, <2>8, <2>9
<1>2. QED
  BY <1>1, Invariance, PTL

\* What normalize_origin returns for a URL it does not refuse.
LEMMA OriginOf ==
  ASSUME NEW url \in [scheme : {"http", "https", "HTTPS", "ftp", "none"}, userinfo : BOOLEAN,
                      host : {"name", "Name", "ipv6", "none"}, bracketed : BOOLEAN,
                      port : {"absent", "number", "bad"}, path : {"none", "slash", "other"},
                      odd : BOOLEAN],
         ~OriginRefused(url)
  PROVE  LET origin == NormalizeOrigin(url)
         IN  /\ ~OriginRefused(origin) /\ NormalizeOrigin(origin) = origin
             /\ origin.port = url.port /\ ~origin.userinfo /\ origin.path = "none"
<1> DEFINE origin == NormalizeOrigin(url)
<1>1. PICK six : six = (url.host = "ipv6")
  OBVIOUS
<1>2. origin = [url EXCEPT !.scheme = Lowered(@), !.host = Lowered(@), !.bracketed = six,
                           !.path = "none"]
  BY <1>1, Zenon DEF NormalizeOrigin
<1> HIDE DEF origin
<1>3. /\ origin.scheme = Lowered(url.scheme) /\ origin.host = Lowered(url.host)
      /\ origin.port = url.port /\ origin.path = "none"
      /\ origin.userinfo = url.userinfo /\ origin.odd = url.odd /\ origin.bracketed = six
  BY <1>2
<1>4. /\ ~url.odd /\ url.port # "bad" /\ Lowered(url.scheme) \in {"http", "https"}
      /\ url.host # "none" /\ ~url.userinfo
  BY Zenon DEF OriginRefused
<1>5. /\ Lowered(Lowered(url.scheme)) = Lowered(url.scheme)
      /\ Lowered(Lowered(url.host)) = Lowered(url.host)
      /\ Lowered(url.host) # "none" /\ (Lowered(url.host) = "ipv6" <=> url.host = "ipv6")
  <2>1. /\ url.scheme \in {"http", "https", "HTTPS", "ftp", "none"}
        /\ url.host \in {"name", "Name", "ipv6", "none"} /\ url.host # "none"
    BY <1>4
  <2>2. QED
    BY <2>1 DEF Lowered
<1>6. ~OriginRefused(origin)
  <2>1. ~origin.odd /\ ~origin.userinfo
    BY <1>3, <1>4, Zenon
  <2>2. origin.port # "bad" /\ origin.host # "none" /\ origin.path \in {"none", "slash"}
        /\ Lowered(origin.scheme) \in {"http", "https"}
    BY <1>3, <1>4, <1>5
  <2>3. origin.host = "ipv6" => origin.bracketed
    BY <1>1, <1>3, <1>5, Zenon
  <2>4. QED
    BY <2>1, <2>2, <2>3, Zenon DEF OriginRefused
<1>7. NormalizeOrigin(origin) = origin
  <2>1. six = (origin.host = "ipv6")
    BY <1>1, <1>3, <1>5, Zenon
  <2>2. NormalizeOrigin(origin) =
          [origin EXCEPT !.scheme = Lowered(@), !.host = Lowered(@), !.bracketed = six,
                         !.path = "none"]
    BY <2>1, Zenon DEF NormalizeOrigin
  <2>3. /\ Lowered(origin.scheme) = origin.scheme /\ Lowered(origin.host) = origin.host
        /\ six = origin.bracketed /\ "none" = origin.path
    BY <1>3, <1>5
  <2>4. NormalizeOrigin(origin) =
          [origin EXCEPT !.scheme = @, !.host = @, !.bracketed = @, !.path = @]
    BY <2>2, <2>3
  <2>5. origin = [f \in DOMAIN origin |-> origin[f]]
    BY <1>2
  <2>6. /\ [origin EXCEPT !.scheme = @] = origin /\ [origin EXCEPT !.host = @] = origin
        /\ [origin EXCEPT !.bracketed = @] = origin /\ [origin EXCEPT !.path = @] = origin
    BY <2>5
  <2>7. QED
    BY <2>4, <2>6
<1>8. QED
  BY <1>3, <1>4, <1>6, <1>7, Zenon DEF origin

\* The origin an accepted event is sent to has no credentials and no path and keeps its port,
\* and normalize_origin (validation.py:30-49) would read it back as the same one.
THEOREM OriginsReadBack == Spec => []OriginReadsBack
<1>1. PayloadInvariant => OriginReadsBack
  <2> SUFFICES ASSUME PayloadInvariant, verdict = "accepted"
               PROVE  OriginReadsBack
    BY DEF OriginReadsBack
  <2>1. settings \in Configurations /\ ~SettingsRefused
    BY DEF PayloadInvariant, Types, ArgumentsChecked
  <2>2. ~OriginRefused(settings.base)
    BY <2>1, Zenon DEF SettingsRefused
  <2>3. settings.base \in
          [scheme : {"http", "https", "HTTPS", "ftp", "none"}, userinfo : BOOLEAN,
           host : {"name", "Name", "ipv6", "none"}, bracketed : BOOLEAN,
           port : {"absent", "number", "bad"}, path : {"none", "slash", "other"},
           odd : BOOLEAN]
    BY <2>1 DEF Configurations
  <2>4. QED
    BY <2>2, <2>3, OriginOf DEF OriginReadsBack
<1>2. QED
  BY <1>1, Invariance, PTL

\* The walk of validation.py:151-198 reports a cycle, too much depth or an unfit value only
\* where the properties have one, on a path of containers from the properties down, and passes
\* only properties that have none; for every graph of containers, however shared or circular.
THEOREM WalkIsExact == Spec => []WalkIsRight
<1>1. Init => WalkInvariant
  <2> SUFFICES ASSUME Init PROVE WalkInvariant
    OBVIOUS
  <2>1. verdict = "new" /\ stack = <<>>
    BY DEF Init
  <2>2. WalkIsRight
    BY <2>1 DEF WalkIsRight
  <2>3. Completed(Contents, stack)
    BY <2>1 DEF Completed
  <2>4. QED
    BY <2>2, <2>3 DEF WalkInvariant
<1>2. PayloadInvariant /\ WalkInvariant /\ [Next]_vars => WalkInvariant'
  BY WalkStepInvariant
<1>3. WalkInvariant => WalkIsRight
  BY DEF WalkInvariant
<1>4. QED
  BY <1>1, <1>2, <1>3, Invariance, PTL DEF Spec

=============================================================================
