------------------------- MODULE PythonVisitorProofs --------------------------
(***************************************************************************)
(* Proofs about the visitor scopes of the Python SDK, for any number of    *)
(* threads, tasks, visitors and open blocks, where no Flask request        *)
(* contains one to the same application.  VisitorInvariant is inductive:   *)
(* it says of every open block, not of the innermost one only, which       *)
(* visitor its end will bring back.                                        *)
(***************************************************************************)
EXTENDS PythonVisitor, SequenceTheorems, WellFoundedInduction, TLAPS

WithBlocks == {"visitor_scope", "django", "asgi"}
AllInputs  == [header : Ids, rawCookie : Seq(Ids), cookie : Ids]
Frames     == [kind : WithBlocks \cup {"asgi other", "flask"}, scoped : BOOLEAN,
               saved : Ids, input : AllInputs]

\* Where the first n of these blocks are open in a context that started with a visitor,
\* the innermost scope among them has this one.
Visible(frames, start, n, visitor) ==
  \/ /\ \A j \in 1 .. n : ~frames[j].scoped
     /\ visitor = start
  \/ \E i \in 1 .. n :
       /\ frames[i].scoped
       /\ \A j \in i + 1 .. n : ~frames[j].scoped
       /\ visitor = Extract(frames[i].input)

\* A with-block, inside whatever it is, remembers what its end brings back; the other
\* blocks of ASGI are no scopes, and one Flask request is open at most.
Blocks(frames, start) ==
  /\ \A i \in DOMAIN frames : frames[i].kind \in WithBlocks =>
       frames[i].scoped /\ Visible(frames, start, i - 1, frames[i].saved)
  /\ \A i \in DOMAIN frames : frames[i].kind = "asgi other" => ~frames[i].scoped
  /\ \A i, j \in DOMAIN frames : frames[i].kind = "flask" /\ frames[j].kind = "flask" => i = j

\* What g holds is open while the Flask request is a scope, and brings back the visitor
\* of the code around the request.
FlaskScope(frames, start, scope) ==
  /\ \A i \in DOMAIN frames : frames[i].kind = "flask" /\ frames[i].scoped => scope.open
  /\ scope.open => \E i \in DOMAIN frames :
       frames[i].kind = "flask" /\ frames[i].scoped
       /\ Visible(frames, start, i - 1, scope.saved)

ContextInvariant(frames, start, visitor, scope) ==
  /\ Visible(frames, start, Len(frames), visitor)
  /\ Blocks(frames, start)
  /\ FlaskScope(frames, start, scope)

Types ==
  /\ Threads \subseteq running /\ running \subseteq Contexts
  /\ current \in [Contexts -> Ids]
  /\ inherited \in [Contexts -> Ids]
  /\ stack \in [Contexts -> Seq(Frames)]
  /\ g \in [Contexts -> [open : BOOLEAN, saved : Ids]]

VisitorInvariant ==
  /\ Types
  /\ \A c \in Contexts \ running : stack[c] = <<>>
  /\ \A c \in Contexts : ContextInvariant(stack[c], inherited[c], current[c], g[c])

-----------------------------------------------------------------------------
(* Lemmas about inputs.                                                    *)

\* A nonempty set of natural numbers has a least element.
LEMMA LeastNumber ==
  ASSUME NEW numbers, numbers \subseteq Nat, numbers # {}
  PROVE  \E least \in numbers : \A n \in numbers : least <= n
<1>1. PICK least \in numbers : \A n \in numbers : <<n, least>> \notin OpToRel(<, Nat)
  BY NatLessThanWellFounded, WFMin
<1>2. \A n \in numbers : ~(n < least)
  BY <1>1 DEF OpToRel
<1>3. QED
  BY <1>2

\* visitor_id_from_cookie_header returns a value that is not blank if there is one.
LEMMA CookieVisitorIsOne ==
  ASSUME NEW values \in Seq(Ids)
  PROVE  LET nonblank == {values[i] : i \in DOMAIN values} \ {NoVisitor} IN
           IF nonblank = {} THEN CookieVisitor(values) = NoVisitor
                            ELSE CookieVisitor(values) \in nonblank
<1> DEFINE nonblank == {i \in DOMAIN values : values[i] # NoVisitor}
<1>1. CASE nonblank = {}
  BY <1>1 DEF CookieVisitor
<1>2. CASE nonblank # {}
  <2>1. \E i \in nonblank : \A j \in nonblank : i <= j
    <3>1. nonblank \subseteq Nat
      OBVIOUS
    <3>2. QED
      BY <1>2, <3>1, LeastNumber
  <2>2. CookieVisitor(values) = values[CHOOSE i \in nonblank : \A j \in nonblank : i <= j]
    BY <1>2 DEF CookieVisitor
  <2>3. QED
    BY <2>1, <2>2
<1>3. QED
  BY <1>1, <1>2

\* extract_visitor_id chooses as documented, and chooses an id or nothing.
LEMMA ExtractIsDocumented ==
  ASSUME NEW input \in AllInputs
  PROVE  Extract(input) \in Documented(input) /\ Extract(input) \in Ids
<1> DEFINE raw     == {input.rawCookie[i] : i \in DOMAIN input.rawCookie}
           cookies == (raw \cup {input.cookie}) \ {NoVisitor}
           first   == CookieVisitor(input.rawCookie)
<1>1. /\ input.header \in Ids /\ input.cookie \in Ids /\ input.rawCookie \in Seq(Ids)
      /\ raw \subseteq Ids
  BY DEF AllInputs
<1>2. IF raw \ {NoVisitor} = {} THEN first = NoVisitor ELSE first \in raw \ {NoVisitor}
  BY <1>1, CookieVisitorIsOne
<1>3. CASE input.header # NoVisitor
  BY <1>1, <1>3 DEF Extract, Documented
<1>4. CASE input.header = NoVisitor /\ first # NoVisitor
  <2>1. first \in cookies /\ Extract(input) = first
    BY <1>2, <1>4 DEF Extract
  <2>2. Documented(input) = cookies
    BY <1>4, <2>1 DEF Documented
  <2>3. QED
    BY <1>1, <1>2, <1>4, <2>1, <2>2
<1>5. CASE input.header = NoVisitor /\ first = NoVisitor
  <2>1. cookies = {input.cookie} \ {NoVisitor} /\ Extract(input) = input.cookie
    BY <1>2, <1>5 DEF Extract
  <2>2. QED
    BY <1>1, <1>5, <2>1 DEF Documented
<1>6. QED
  BY <1>3, <1>4, <1>5

-----------------------------------------------------------------------------
(* Lemmas about blocks.                                                    *)

\* The blocks inside the first n do not matter to what those show.
LEMMA VisibleBelow ==
  ASSUME NEW frames, NEW others, NEW n \in Nat, \A i \in 1 .. n : others[i] = frames[i],
         NEW start, NEW visitor, Visible(frames, start, n, visitor)
  PROVE  Visible(others, start, n, visitor)
  BY DEF Visible

\* A block that is no scope shows what is outside it.
LEMMA VisibleThrough ==
  ASSUME NEW frames, NEW n \in Nat, ~frames[n + 1].scoped, NEW start, NEW visitor
  PROVE  Visible(frames, start, n + 1, visitor) <=> Visible(frames, start, n, visitor)
<1>1. \A j \in 1 .. n + 1 : j \in 1 .. n \/ j = n + 1
  OBVIOUS
<1>2. \A i \in 1 .. n : \A j \in i + 1 .. n + 1 : j \in i + 1 .. n \/ j = n + 1
  OBVIOUS
<1>3. \A i \in 1 .. n : i + 1 .. n \subseteq i + 1 .. n + 1
  OBVIOUS
<1>4. QED
  BY <1>1, <1>2, <1>3 DEF Visible

\* A context without a block shows what it started with.
LEMMA EmptyContext ==
  ASSUME NEW start, NEW scope, ~scope.open
  PROVE  ContextInvariant(<<>>, start, start, scope)
  BY DEF ContextInvariant, Visible, Blocks, FlaskScope

\* The innermost scope of all is the one the property speaks of.
LEMMA VisibleIsExpected ==
  ASSUME NEW c, stack[c] \in Seq(Frames),
         NEW visitor, Visible(stack[c], inherited[c], Len(stack[c]), visitor)
  PROVE  visitor \in Expected(c)
<1> DEFINE frames == stack[c]
           scopes == {i \in DOMAIN frames : frames[i].scoped}
           inner  == CHOOSE i \in scopes : \A j \in scopes : j <= i
<1>1. DOMAIN frames = 1 .. Len(frames) /\ Len(frames) \in Nat
  OBVIOUS
<1>2. CASE scopes = {}
  BY <1>1, <1>2 DEF Visible, Expected
<1>3. CASE scopes # {}
  <2>1. PICK i \in 1 .. Len(frames) :
          /\ frames[i].scoped
          /\ \A j \in i + 1 .. Len(frames) : ~frames[j].scoped
          /\ visitor = Extract(frames[i].input)
    BY <1>1, <1>3 DEF Visible
  <2>2. i \in scopes /\ \A j \in scopes : j <= i
    <3>1. \A j \in 1 .. Len(frames) : j <= i \/ j \in i + 1 .. Len(frames)
      BY <1>1
    <3>2. QED
      BY <1>1, <2>1, <3>1
  <2>3. inner \in scopes /\ \A j \in scopes : j <= inner
    BY <2>2
  <2>4. inner = i
    <3>1. inner <= i /\ i <= inner
      BY <2>2, <2>3
    <3>2. inner \in Nat /\ i \in Nat
      BY <1>1, <2>3
    <3> HIDE DEF inner
    <3>3. QED
      BY <3>1, <3>2
  <2>5. frames[i].input \in AllInputs
    <3>1. frames[i] \in Frames
      BY <1>1
    <3>2. QED
      BY <3>1 DEF Frames
  <2>6. visitor \in Documented(frames[inner].input)
    BY <2>1, <2>4, <2>5, ExtractIsDocumented
  <2>7. QED
    BY <1>3, <2>6 DEF Expected
<1>4. QED
  BY <1>2, <1>3

\* The same n blocks, and one more inside them.
OneMore(n, frames, more) ==
  /\ n \in Nat
  /\ DOMAIN frames = 1 .. n /\ Len(frames) = n
  /\ DOMAIN more = 1 .. n + 1 /\ Len(more) = n + 1
  /\ \A i \in 1 .. n : more[i] = frames[i]

\* Entering a block is one more.
LEMMA AppendIsOneMore ==
  ASSUME NEW frames \in Seq(Frames), NEW frame \in Frames
  PROVE  /\ OneMore(Len(frames), frames, Append(frames, frame))
         /\ Append(frames, frame) \in Seq(Frames)
         /\ Append(frames, frame)[Len(frames) + 1] = frame
<1>1. /\ Append(frames, frame) \in Seq(Frames) /\ Len(Append(frames, frame)) = Len(frames) + 1
      /\ \A i \in 1 .. Len(frames) : Append(frames, frame)[i] = frames[i]
      /\ Append(frames, frame)[Len(frames) + 1] = frame
  BY AppendProperties
<1>2. QED
  BY <1>1 DEF OneMore

\* Leaving one is one less.
LEMMA SubSeqIsOneLess ==
  ASSUME NEW frames \in Seq(Frames), frames # <<>>
  PROVE  LET popped == SubSeq(frames, 1, Len(frames) - 1) IN
           OneMore(Len(frames) - 1, popped, frames) /\ popped \in Seq(Frames)
<1> DEFINE n      == Len(frames) - 1
           popped == SubSeq(frames, 1, n)
<1>1. n \in Nat /\ n \in Int /\ Len(frames) = n + 1
  OBVIOUS
<1>2. \A i \in 1 .. n : frames[i] \in Frames
  BY <1>1
<1>3. /\ popped \in Seq(Frames)
      /\ Len(popped) = IF 1 <= n THEN n - 1 + 1 ELSE 0
      /\ \A i \in 1 .. n - 1 + 1 : popped[i] = frames[1 + i - 1]
  <2> HIDE DEF n
  <2>1. QED
    BY <1>1, <1>2, SubSeqProperties
<1>4. Len(popped) = n /\ \A i \in 1 .. n : popped[i] = frames[i]
  <2> HIDE DEF n, popped
  <2>1. QED
    BY <1>1, <1>3
<1>5. QED
  BY <1>1, <1>3, <1>4 DEF OneMore

\* What is below the innermost block stays as it was.
LEMMA SameBelow ==
  ASSUME NEW n, NEW frames, NEW more, OneMore(n, frames, more),
         NEW m \in 0 .. n, NEW start, NEW visitor
  PROVE  Visible(frames, start, m, visitor) <=> Visible(more, start, m, visitor)
<1>1. m \in Nat /\ (\A i \in 1 .. m : more[i] = frames[i]) /\ \A i \in 1 .. m : frames[i] = more[i]
  BY DEF OneMore
<1>2. QED
  BY <1>1, VisibleBelow

-----------------------------------------------------------------------------
(* What a context goes through.                                            *)

\* The positions of n blocks and one more.
LEMMA Positions ==
  ASSUME NEW n \in Nat
  PROVE  /\ n \in 0 .. n /\ n + 1 \in 1 .. n + 1 /\ 1 .. n \subseteq 1 .. n + 1
         /\ \A i \in 1 .. n + 1 : i \in 1 .. n \/ i = n + 1
         /\ \A i \in 1 .. n : i - 1 \in 0 .. n /\ i # n + 1
         /\ n + 1 - 1 = n
  OBVIOUS

\* What the innermost block must be for all of them to be as they should.
Fits(n, frames, more, start) ==
  /\ more[n + 1].kind \in WithBlocks =>
       more[n + 1].scoped /\ Visible(frames, start, n, more[n + 1].saved)
  /\ more[n + 1].kind = "asgi other" => ~more[n + 1].scoped
  /\ more[n + 1].kind = "flask" => \A i \in DOMAIN frames : frames[i].kind # "flask"

\* One more block that remembers what it should.
LEMMA BlocksGrow ==
  ASSUME NEW n, NEW frames, NEW more, OneMore(n, frames, more), NEW start,
         Blocks(frames, start), Fits(n, frames, more, start)
  PROVE  Blocks(more, start)
<1>1. /\ n \in Nat /\ DOMAIN frames = 1 .. n /\ DOMAIN more = 1 .. n + 1
      /\ \A i \in 1 .. n : more[i] = frames[i]
  BY DEF OneMore
<1>2. ASSUME NEW i \in 1 .. n + 1, more[i].kind \in WithBlocks
      PROVE  more[i].scoped /\ Visible(more, start, i - 1, more[i].saved)
  <2>1. CASE i = n + 1
    <3>1. i - 1 = n /\ n \in 0 .. n
      BY <1>1, <2>1
    <3>2. more[n + 1].scoped /\ Visible(frames, start, n, more[n + 1].saved)
      BY <1>2, <2>1 DEF Fits
    <3>3. Visible(more, start, n, more[n + 1].saved)
      BY <3>1, <3>2, SameBelow
    <3>4. QED
      BY <2>1, <3>1, <3>2, <3>3
  <2>2. CASE i \in 1 .. n
    <3>1. frames[i].scoped /\ Visible(frames, start, i - 1, frames[i].saved)
      BY <1>1, <1>2, <2>2 DEF Blocks
    <3>2. i - 1 \in 0 .. n /\ more[i] = frames[i]
      BY <1>1, <2>2
    <3>3. Visible(more, start, i - 1, frames[i].saved)
      BY <3>1, <3>2, SameBelow
    <3>4. QED
      BY <3>1, <3>2, <3>3
  <2>3. QED
    BY <1>1, <2>1, <2>2, Positions
<1>3. \A i \in 1 .. n + 1 : more[i].kind = "asgi other" => ~more[i].scoped
  BY <1>1, Positions DEF Blocks, Fits
<1>4. \A i, j \in 1 .. n + 1 : more[i].kind = "flask" /\ more[j].kind = "flask" => i = j
  <2>1. \A i, j \in 1 .. n : more[i].kind = "flask" /\ more[j].kind = "flask" => i = j
    BY <1>1 DEF Blocks
  <2>2. more[n + 1].kind = "flask" => \A i \in 1 .. n : more[i].kind # "flask"
    BY <1>1 DEF Fits
  <2>3. QED
    BY <1>1, <2>1, <2>2, Positions
<1>5. QED
  BY <1>1, <1>2, <1>3, <1>4 DEF Blocks

\* One block less.
LEMMA BlocksShrink ==
  ASSUME NEW n, NEW frames, NEW more, OneMore(n, frames, more), NEW start, Blocks(more, start)
  PROVE  Blocks(frames, start)
<1>1. /\ n \in Nat /\ DOMAIN frames = 1 .. n /\ DOMAIN more = 1 .. n + 1
      /\ \A i \in 1 .. n : more[i] = frames[i]
  BY DEF OneMore
<1>2. ASSUME NEW i \in 1 .. n, frames[i].kind \in WithBlocks
      PROVE  frames[i].scoped /\ Visible(frames, start, i - 1, frames[i].saved)
  <2>1. i \in 1 .. n + 1 /\ i - 1 \in 0 .. n /\ more[i] = frames[i]
    BY <1>1, Positions
  <2>2. more[i].scoped /\ Visible(more, start, i - 1, more[i].saved)
    BY <1>1, <1>2, <2>1 DEF Blocks
  <2>3. Visible(frames, start, i - 1, more[i].saved)
    BY <2>1, <2>2, SameBelow
  <2>4. QED
    BY <2>1, <2>2, <2>3
<1>3. \A i \in 1 .. n : frames[i].kind = "asgi other" => ~frames[i].scoped
  BY <1>1, Positions DEF Blocks
<1>4. \A i, j \in 1 .. n : frames[i].kind = "flask" /\ frames[j].kind = "flask" => i = j
  <2>1. \A i, j \in 1 .. n + 1 : more[i].kind = "flask" /\ more[j].kind = "flask" => i = j
    BY <1>1 DEF Blocks
  <2>2. QED
    BY <1>1, <2>1, Positions
<1>5. QED
  BY <1>1, <1>2, <1>3, <1>4 DEF Blocks

\* A Flask request is in no other one.
LEMMA OneFlask ==
  ASSUME NEW n, NEW frames, NEW more, OneMore(n, frames, more), NEW start, Blocks(more, start),
         more[n + 1].kind = "flask"
  PROVE  \A i \in 1 .. n : frames[i].kind # "flask"
<1>1. /\ n \in Nat /\ DOMAIN more = 1 .. n + 1 /\ \A i \in 1 .. n : more[i] = frames[i]
  BY DEF OneMore
<1>2. \A i, j \in 1 .. n + 1 : more[i].kind = "flask" /\ more[j].kind = "flask" => i = j
  BY <1>1 DEF Blocks
<1>3. \A i \in 1 .. n : more[i].kind # "flask"
  BY <1>2, <1>1, Positions
<1>4. QED
  BY <1>1, <1>3

\* Blocks of another kind inside a Flask request do not touch what g holds.
LEMMA FlaskScopeKept ==
  ASSUME NEW n, NEW frames, NEW more, OneMore(n, frames, more), NEW start, NEW scope,
         more[n + 1].kind # "flask"
  PROVE  FlaskScope(frames, start, scope) <=> FlaskScope(more, start, scope)
<1>1. /\ n \in Nat /\ DOMAIN frames = 1 .. n /\ DOMAIN more = 1 .. n + 1
      /\ \A i \in 1 .. n : more[i] = frames[i]
  BY DEF OneMore
<1>2. \A i \in 1 .. n : Visible(frames, start, i - 1, scope.saved)
                          <=> Visible(more, start, i - 1, scope.saved)
  BY <1>1, Positions, SameBelow
<1>3. (\A i \in 1 .. n : frames[i].kind = "flask" /\ frames[i].scoped => scope.open)
      <=> \A i \in 1 .. n + 1 : more[i].kind = "flask" /\ more[i].scoped => scope.open
  BY <1>1, Positions
<1>4. (\E i \in 1 .. n : /\ frames[i].kind = "flask" /\ frames[i].scoped
                         /\ Visible(frames, start, i - 1, scope.saved))
      <=> \E i \in 1 .. n + 1 : /\ more[i].kind = "flask" /\ more[i].scoped
                                /\ Visible(more, start, i - 1, scope.saved)
  BY <1>1, <1>2, Positions
<1>5. QED
  BY <1>1, <1>3, <1>4 DEF FlaskScope

-----------------------------------------------------------------------------
(* What a context goes through.                                            *)

\* A with-block opens its scope and remembers what its end brings back.
LEMMA EnterBlock ==
  ASSUME NEW n, NEW frames, NEW more, OneMore(n, frames, more),
         NEW start, NEW visitor, NEW scope, ContextInvariant(frames, start, visitor, scope),
         more[n + 1].kind \in WithBlocks, more[n + 1].scoped, more[n + 1].saved = visitor
  PROVE  ContextInvariant(more, start, Extract(more[n + 1].input), scope)
<1>1. n \in Nat /\ Len(frames) = n /\ Len(more) = n + 1
  BY DEF OneMore
<1>2. more[n + 1].kind # "flask" /\ more[n + 1].kind # "asgi other"
  BY DEF WithBlocks
<1>3. Visible(more, start, n + 1, Extract(more[n + 1].input))
  <2>1. \A j \in n + 1 + 1 .. n + 1 : ~more[j].scoped
    BY <1>1
  <2>2. QED
    BY <1>1, <2>1, Positions DEF Visible
<1>4. Blocks(more, start)
  BY <1>1, <1>2, BlocksGrow DEF ContextInvariant, Fits
<1>5. QED
  BY <1>1, <1>2, <1>3, <1>4, FlaskScopeKept DEF ContextInvariant

\* Its end brings that back.
LEMMA LeaveBlock ==
  ASSUME NEW n, NEW frames, NEW more, OneMore(n, frames, more),
         NEW start, NEW visitor, NEW scope, ContextInvariant(more, start, visitor, scope),
         more[n + 1].kind \in WithBlocks
  PROVE  ContextInvariant(frames, start, more[n + 1].saved, scope)
<1>1. n \in Nat /\ Len(frames) = n /\ DOMAIN more = 1 .. n + 1
  BY DEF OneMore
<1>2. more[n + 1].kind # "flask"
  BY DEF WithBlocks
<1>3. Visible(more, start, n, more[n + 1].saved)
  <2>1. PICK top : top = n + 1
    OBVIOUS
  <2>2. top - 1 = n /\ top \in DOMAIN more /\ more[top].kind \in WithBlocks
    BY <1>1, <2>1
  <2>3. Visible(more, start, top - 1, more[top].saved)
    BY <2>2 DEF ContextInvariant, Blocks
  <2>4. QED
    BY <2>1, <2>2, <2>3
<1>4. Visible(frames, start, n, more[n + 1].saved)
  BY <1>1, <1>3, Positions, SameBelow
<1>5. QED
  BY <1>1, <1>2, <1>4, BlocksShrink, FlaskScopeKept DEF ContextInvariant

\* A websocket or lifespan of ASGI passes through, at its start and its end.
LEMMA PassThrough ==
  ASSUME NEW n, NEW frames, NEW more, OneMore(n, frames, more),
         NEW start, NEW visitor, NEW scope, more[n + 1].kind = "asgi other"
  PROVE  /\ ContextInvariant(more, start, visitor, scope)
              => ContextInvariant(frames, start, visitor, scope)
         /\ ContextInvariant(frames, start, visitor, scope) /\ ~more[n + 1].scoped
              => ContextInvariant(more, start, visitor, scope)
<1>1. /\ n \in Nat /\ Len(frames) = n /\ Len(more) = n + 1 /\ DOMAIN more = 1 .. n + 1
      /\ more[n + 1].kind # "flask" /\ more[n + 1].kind \notin WithBlocks
  BY DEF OneMore, WithBlocks
<1>2. ~more[n + 1].scoped =>
        (Visible(frames, start, n, visitor) <=> Visible(more, start, n + 1, visitor))
  BY <1>1, Positions, SameBelow, VisibleThrough
<1>3. ASSUME ContextInvariant(more, start, visitor, scope)
      PROVE  ContextInvariant(frames, start, visitor, scope)
  <2>1. ~more[n + 1].scoped
    BY <1>1, <1>3, Positions DEF ContextInvariant, Blocks
  <2>2. QED
    BY <1>1, <1>2, <1>3, <2>1, BlocksShrink, FlaskScopeKept DEF ContextInvariant
<1>4. ASSUME ContextInvariant(frames, start, visitor, scope), ~more[n + 1].scoped
      PROVE  ContextInvariant(more, start, visitor, scope)
  BY <1>1, <1>2, <1>4, BlocksGrow, FlaskScopeKept DEF ContextInvariant, Fits
<1>5. QED
  BY <1>3, <1>4

\* Flask pushes a request, with a fresh g, where none is open.
LEMMA PushFlask ==
  ASSUME NEW n, NEW frames, NEW more, OneMore(n, frames, more),
         NEW start, NEW visitor, NEW scope, ContextInvariant(frames, start, visitor, scope),
         \A i \in DOMAIN frames : frames[i].kind # "flask",
         more[n + 1].kind = "flask", ~more[n + 1].scoped
  PROVE  ContextInvariant(more, start, visitor, Closed)
<1>1. /\ n \in Nat /\ Len(frames) = n /\ DOMAIN frames = 1 .. n
      /\ Len(more) = n + 1 /\ DOMAIN more = 1 .. n + 1
      /\ \A i \in 1 .. n : more[i] = frames[i]
      /\ more[n + 1].kind \notin WithBlocks /\ more[n + 1].kind # "asgi other"
  BY DEF OneMore, WithBlocks
<1>2. Visible(more, start, n + 1, visitor)
  BY <1>1, Positions, SameBelow, VisibleThrough DEF ContextInvariant
<1>3. Blocks(more, start)
  BY <1>1, BlocksGrow DEF ContextInvariant, Fits
<1>4. FlaskScope(more, start, Closed)
  BY <1>1, Positions DEF FlaskScope, Closed
<1>5. QED
  BY <1>1, <1>2, <1>3, <1>4 DEF ContextInvariant

\* A request that is no scope yet has nothing in g.
LEMMA ClosedBeforeEnter ==
  ASSUME NEW n, NEW frames, NEW more, OneMore(n, frames, more),
         NEW start, NEW visitor, NEW scope, ContextInvariant(more, start, visitor, scope),
         more[n + 1].kind = "flask", ~more[n + 1].scoped
  PROVE  ~scope.open
<1>1. n + 1 \in 1 .. n + 1 /\ DOMAIN more = 1 .. n + 1
  BY Positions DEF OneMore
<1>2. QED
  BY <1>1 DEF ContextInvariant, FlaskScope, Blocks

\* before_request: g remembers what is outside the request, which now is a scope.
LEMMA EnterFlask ==
  ASSUME NEW n, NEW frames, NEW more, NEW entered,
         OneMore(n, frames, more), OneMore(n, frames, entered),
         NEW start, NEW visitor, NEW scope, ContextInvariant(more, start, visitor, scope),
         more[n + 1].kind = "flask", ~more[n + 1].scoped,
         entered[n + 1].kind = "flask", entered[n + 1].scoped,
         NEW opened, opened.open, opened.saved = visitor
  PROVE  ContextInvariant(entered, start, Extract(entered[n + 1].input), opened)
<1>1. /\ n \in Nat /\ n \in 0 .. n /\ n + 1 - 1 = n /\ n + 1 \in 1 .. n + 1
      /\ Len(frames) = n /\ DOMAIN frames = 1 .. n
      /\ Len(more) = n + 1 /\ DOMAIN more = 1 .. n + 1
      /\ Len(entered) = n + 1 /\ DOMAIN entered = 1 .. n + 1
      /\ \A i \in 1 .. n : more[i] = frames[i]
      /\ entered[n + 1].kind \notin WithBlocks /\ entered[n + 1].kind # "asgi other"
  BY Positions DEF OneMore, WithBlocks
<1>2. Visible(entered, start, n + 1, Extract(entered[n + 1].input))
  <2>1. \A j \in n + 1 + 1 .. n + 1 : ~entered[j].scoped
    BY <1>1
  <2>2. QED
    BY <1>1, <2>1 DEF Visible
<1>3. Blocks(entered, start)
  <2>1. \A i \in 1 .. n : frames[i].kind # "flask"
    BY OneFlask DEF ContextInvariant
  <2>2. Blocks(frames, start)
    BY BlocksShrink DEF ContextInvariant
  <2>3. QED
    BY <1>1, <2>1, <2>2, BlocksGrow DEF Fits
<1>4. FlaskScope(entered, start, opened)
  <2>1. Visible(more, start, n, visitor)
    BY <1>1, VisibleThrough DEF ContextInvariant
  <2>2. Visible(frames, start, n, visitor)
    BY <1>1, <2>1, SameBelow
  <2>3. Visible(entered, start, n, visitor)
    BY <1>1, <2>2, SameBelow
  <2>4. Visible(entered, start, n + 1 - 1, opened.saved)
    BY <1>1, <2>3
  <2>5. QED
    BY <1>1, <2>4 DEF FlaskScope
<1>5. QED
  BY <1>1, <1>2, <1>3, <1>4 DEF ContextInvariant

\* teardown_request, whether or not the request became a scope.
LEMMA TeardownFlask ==
  ASSUME NEW n, NEW frames, NEW more, OneMore(n, frames, more),
         NEW start, NEW visitor, NEW scope, ContextInvariant(more, start, visitor, scope),
         more[n + 1].kind = "flask"
  PROVE  ContextInvariant(frames, start, IF scope.open THEN scope.saved ELSE visitor, Closed)
<1> DEFINE after == IF scope.open THEN scope.saved ELSE visitor
<1>1. /\ n \in Nat /\ n \in 0 .. n /\ n + 1 - 1 = n /\ n + 1 \in 1 .. n + 1
      /\ Len(frames) = n /\ DOMAIN frames = 1 .. n
      /\ Len(more) = n + 1 /\ DOMAIN more = 1 .. n + 1
      /\ \A i \in 1 .. n : more[i] = frames[i]
  BY Positions DEF OneMore
<1>2. Visible(more, start, n, after)
  <2>1. CASE scope.open
    <3>1. PICK i \in 1 .. n + 1 :
            more[i].kind = "flask" /\ Visible(more, start, i - 1, scope.saved)
      BY <1>1, <2>1 DEF ContextInvariant, FlaskScope
    <3>2. i = n + 1
      BY <1>1, <3>1 DEF ContextInvariant, Blocks
    <3>3. QED
      BY <1>1, <2>1, <3>1, <3>2
  <2>2. CASE ~scope.open
    <3>1. ~more[n + 1].scoped
      BY <1>1, <2>2 DEF ContextInvariant, FlaskScope
    <3>2. QED
      BY <1>1, <2>2, <3>1, VisibleThrough DEF ContextInvariant
  <2>3. QED
    BY <2>1, <2>2
<1>3. Visible(frames, start, n, after)
  BY <1>1, <1>2, SameBelow
<1>4. Blocks(frames, start)
  BY BlocksShrink DEF ContextInvariant
<1>5. FlaskScope(frames, start, Closed)
  <2>1. \A i \in 1 .. n : frames[i].kind # "flask"
    BY OneFlask DEF ContextInvariant
  <2>2. QED
    BY <1>1, <2>1 DEF FlaskScope, Closed
<1>6. QED
  BY <1>1, <1>3, <1>4, <1>5 DEF ContextInvariant

-----------------------------------------------------------------------------
(* The steps keep the invariant.                                           *)

\* The visitors of the code are ids or none.
LEMMA InputTypes ==
  /\ Inputs \subseteq AllInputs
  /\ NoVisitor \in Ids
  /\ \A visitor \in Ids : [NoInput EXCEPT !.header = visitor] \in AllInputs
  /\ \A input \in AllInputs : [input EXCEPT !.cookie = NoVisitor] \in AllInputs
  /\ NoInput \in AllInputs
<1>1. NoVisitor \in Ids /\ NoInput \in AllInputs
  BY DEF Ids, NoInput, AllInputs
<1>2. \A visitor \in Ids : [NoInput EXCEPT !.header = visitor] \in AllInputs
  BY <1>1 DEF AllInputs
<1>3. \A input \in AllInputs : [input EXCEPT !.cookie = NoVisitor] \in AllInputs
  BY <1>1 DEF AllInputs
<1>4. Inputs \subseteq AllInputs
  BY VisitorAssumption DEF Ids, AllInputs
<1>5. QED
  BY <1>1, <1>2, <1>3, <1>4

\* No thread has done anything, and no task is there.
LEMMA InitInvariant == Init => VisitorInvariant
<1> SUFFICES ASSUME Init PROVE VisitorInvariant
  OBVIOUS
<1>1. Types
  BY InputTypes DEF Init, Types, Closed, Contexts, Frames
<1>2. \A c \in Contexts : ContextInvariant(<<>>, NoVisitor, NoVisitor, Closed)
  BY EmptyContext DEF Closed
<1>3. QED
  BY <1>1, <1>2 DEF Init, VisitorInvariant

\* One context goes on, and the others stay as they are.
LEMMA OneContextChanges ==
  ASSUME VisitorInvariant, NEW c \in running,
         NEW frames \in Seq(Frames), NEW visitor \in Ids,
         NEW scope \in [open : BOOLEAN, saved : Ids],
         ContextInvariant(frames, inherited[c], visitor, scope),
         stack' = [stack EXCEPT ![c] = frames],
         current' = [current EXCEPT ![c] = visitor],
         g' = [g EXCEPT ![c] = scope],
         UNCHANGED <<running, inherited>>
  PROVE  VisitorInvariant'
<1>1. c \in Contexts
  BY DEF VisitorInvariant, Types
<1>2. Types'
  BY <1>1 DEF VisitorInvariant, Types
<1>3. /\ stack'[c] = frames /\ current'[c] = visitor /\ g'[c] = scope
      /\ \A d \in Contexts \ {c} : stack'[d] = stack[d] /\ current'[d] = current[d] /\ g'[d] = g[d]
  BY <1>1 DEF VisitorInvariant, Types
<1>4. \A d \in Contexts \ running' : stack'[d] = <<>>
  BY <1>3 DEF VisitorInvariant
<1>5. \A d \in Contexts : ContextInvariant(stack'[d], inherited'[d], current'[d], g'[d])
  BY <1>3 DEF VisitorInvariant
<1>6. QED
  BY <1>2, <1>4, <1>5 DEF VisitorInvariant

\* What the invariant says of a context in which something is open.
LEMMA OpenContext ==
  ASSUME VisitorInvariant, NEW c \in Contexts, stack[c] # <<>>
  PROVE  LET frames == stack[c]
             n      == Len(frames) - 1
             popped == SubSeq(frames, 1, n) IN
           /\ c \in running
           /\ OneMore(n, popped, frames) /\ popped \in Seq(Frames)
           /\ frames[n + 1] = Top(c) /\ Top(c) \in Frames
           /\ ContextInvariant(frames, inherited[c], current[c], g[c])
<1> DEFINE frames == stack[c]
           n      == Len(frames) - 1
<1>1. c \in running /\ frames \in Seq(Frames)
      /\ ContextInvariant(frames, inherited[c], current[c], g[c])
  BY DEF VisitorInvariant, Types
<1>2. Len(frames) \in 1 .. Len(frames) /\ n + 1 = Len(frames)
  BY <1>1
<1>3. Top(c) \in Frames /\ frames[n + 1] = Top(c)
  BY <1>1, <1>2 DEF Top
<1>4. QED
  BY <1>1, <1>3, SubSeqIsOneLess

\* visitor_scope and the integrations built on it.
LEMMA EnterScopePreserves ==
  ASSUME VisitorInvariant, NEW c \in Contexts, NEW kind \in WithBlocks,
         NEW input \in AllInputs, EnterScope(c, kind, input)
  PROVE  VisitorInvariant'
<1> DEFINE frames == stack[c]
           frame  == [kind |-> kind, scoped |-> TRUE, saved |-> current[c], input |-> input]
           pushed == Append(frames, frame)
           n      == Len(frames)
<1>1. /\ c \in running /\ frames \in Seq(Frames) /\ current[c] \in Ids
      /\ g \in [Contexts -> [open : BOOLEAN, saved : Ids]] /\ g[c] \in [open : BOOLEAN, saved : Ids]
      /\ ContextInvariant(frames, inherited[c], current[c], g[c])
  BY DEF VisitorInvariant, Types, EnterScope
<1>2. frame \in Frames
  BY <1>1 DEF Frames
<1>3. OneMore(n, frames, pushed) /\ pushed \in Seq(Frames) /\ pushed[n + 1] = frame
  BY <1>1, <1>2, AppendIsOneMore
<1>4. ContextInvariant(pushed, inherited[c], Extract(input), g[c])
  <2>1. /\ pushed[n + 1].kind \in WithBlocks /\ pushed[n + 1].scoped
        /\ pushed[n + 1].saved = current[c] /\ pushed[n + 1].input = input
    BY <1>3
  <2> HIDE DEF n, frames, pushed
  <2>2. QED
    BY <1>1, <1>3, <2>1, EnterBlock
<1>5. Extract(input) \in Ids
  BY ExtractIsDocumented
<1>6. /\ stack' = [stack EXCEPT ![c] = pushed]
      /\ current' = [current EXCEPT ![c] = Extract(input)]
      /\ g' = [g EXCEPT ![c] = g[c]]
      /\ UNCHANGED <<running, inherited>>
  BY <1>1 DEF EnterScope, Push
<1> HIDE DEF pushed
<1>7. QED
  BY <1>1, <1>3, <1>4, <1>5, <1>6, OneContextChanges

\* The end of a with-block.
LEMMA LeaveScopePreserves ==
  ASSUME VisitorInvariant, NEW c \in Contexts, LeaveScope(c)
  PROVE  VisitorInvariant'
<1> DEFINE frames == stack[c]
           n      == Len(frames) - 1
           popped == SubSeq(frames, 1, n)
<1>1. /\ c \in running /\ OneMore(n, popped, frames) /\ popped \in Seq(Frames)
      /\ frames[n + 1] = Top(c) /\ Top(c) \in Frames
      /\ ContextInvariant(frames, inherited[c], current[c], g[c])
  BY OpenContext DEF LeaveScope
<1>2. /\ Top(c).kind \in WithBlocks /\ Top(c).saved \in Ids
      /\ g \in [Contexts -> [open : BOOLEAN, saved : Ids]] /\ g[c] \in [open : BOOLEAN, saved : Ids]
  BY <1>1 DEF LeaveScope, WithBlocks, Frames, VisitorInvariant, Types
<1>3. /\ stack' = [stack EXCEPT ![c] = popped]
      /\ current' = [current EXCEPT ![c] = Top(c).saved]
      /\ g' = [g EXCEPT ![c] = g[c]]
      /\ UNCHANGED <<running, inherited>>
  BY <1>2 DEF LeaveScope, Pop
<1> HIDE DEF n, frames, popped
<1>4. ContextInvariant(popped, inherited[c], Top(c).saved, g[c])
  BY <1>1, <1>2, LeaveBlock
<1>5. QED
  BY <1>1, <1>2, <1>3, <1>4, OneContextChanges

\* An ASGI message that is no http request.
AsgiOther(c) ==
  /\ c \in running
  /\ stack' = Push(c, [kind |-> "asgi other", scoped |-> FALSE, saved |-> NoVisitor,
                       input |-> NoInput])
  /\ UNCHANGED <<running, current, inherited, g>>

\* It opens no scope.
LEMMA AsgiOtherPreserves ==
  ASSUME VisitorInvariant, NEW c \in Tasks, AsgiOther(c)
  PROVE  VisitorInvariant'
<1> DEFINE frames == stack[c]
           frame  == [kind |-> "asgi other", scoped |-> FALSE, saved |-> NoVisitor,
                      input |-> NoInput]
           pushed == Append(frames, frame)
           n      == Len(frames)
<1>1. /\ c \in Contexts /\ frames \in Seq(Frames) /\ current[c] \in Ids
      /\ current \in [Contexts -> Ids]
      /\ g \in [Contexts -> [open : BOOLEAN, saved : Ids]] /\ g[c] \in [open : BOOLEAN, saved : Ids]
      /\ ContextInvariant(frames, inherited[c], current[c], g[c])
  BY DEF AsgiOther, VisitorInvariant, Types, Contexts
<1>2. frame \in Frames
  BY InputTypes DEF Frames
<1>3. OneMore(n, frames, pushed) /\ pushed \in Seq(Frames) /\ pushed[n + 1] = frame
  BY <1>1, <1>2, AppendIsOneMore
<1>4. ContextInvariant(pushed, inherited[c], current[c], g[c])
  <2>1. frame.kind = "asgi other" /\ ~frame.scoped
    OBVIOUS
  <2> HIDE DEF n, frames, pushed, frame
  <2>2. pushed[n + 1].kind = "asgi other" /\ ~pushed[n + 1].scoped
    BY <1>3, <2>1
  <2>3. QED
    BY <1>1, <1>3, <2>2, PassThrough
<1>5. /\ stack' = [stack EXCEPT ![c] = pushed]
      /\ current' = [current EXCEPT ![c] = current[c]]
      /\ g' = [g EXCEPT ![c] = g[c]]
      /\ UNCHANGED <<running, inherited>>
  BY <1>1 DEF AsgiOther, Push
<1>6. c \in running /\ pushed \in Seq(Frames)
  BY <1>3 DEF AsgiOther
<1> HIDE DEF n, frames, pushed, frame
<1>7. QED
  BY <1>1, <1>4, <1>5, <1>6, OneContextChanges

\* Its end.
LEMMA LeaveAsgiOtherPreserves ==
  ASSUME VisitorInvariant, NEW c \in Contexts, LeaveAsgiOther(c)
  PROVE  VisitorInvariant'
<1> DEFINE frames == stack[c]
           n      == Len(frames) - 1
           popped == SubSeq(frames, 1, n)
<1>1. /\ c \in running /\ OneMore(n, popped, frames) /\ popped \in Seq(Frames)
      /\ frames[n + 1] = Top(c)
      /\ ContextInvariant(frames, inherited[c], current[c], g[c])
  BY OpenContext DEF LeaveAsgiOther
<1>2. /\ Top(c).kind = "asgi other" /\ current[c] \in Ids /\ current \in [Contexts -> Ids]
      /\ g \in [Contexts -> [open : BOOLEAN, saved : Ids]] /\ g[c] \in [open : BOOLEAN, saved : Ids]
  BY DEF LeaveAsgiOther, VisitorInvariant, Types
<1>3. /\ stack' = [stack EXCEPT ![c] = popped]
      /\ current' = [current EXCEPT ![c] = current[c]]
      /\ g' = [g EXCEPT ![c] = g[c]]
      /\ UNCHANGED <<running, inherited>>
  BY <1>2 DEF LeaveAsgiOther, Pop
<1> HIDE DEF n, frames, popped
<1>4. ContextInvariant(popped, inherited[c], current[c], g[c])
  BY <1>1, <1>2, PassThrough
<1>5. QED
  BY <1>1, <1>2, <1>3, <1>4, OneContextChanges

\* Flask pushes a request.
LEMMA FlaskRequestPreserves ==
  ASSUME VisitorInvariant, NestedFlask = FALSE, NEW c \in Contexts, NEW input \in AllInputs,
         FlaskRequest(c, input)
  PROVE  VisitorInvariant'
<1> DEFINE frames == stack[c]
           frame  == [kind |-> "flask", scoped |-> FALSE, saved |-> NoVisitor, input |-> input]
           pushed == Append(frames, frame)
           n      == Len(frames)
<1>1. /\ c \in running /\ frames \in Seq(Frames) /\ current[c] \in Ids
      /\ current \in [Contexts -> Ids] /\ Closed \in [open : BOOLEAN, saved : Ids]
      /\ ContextInvariant(frames, inherited[c], current[c], g[c])
  BY InputTypes DEF VisitorInvariant, Types, FlaskRequest, Closed
<1>2. ~InFlask(c)
  BY DEF FlaskRequest
<1>3. frame \in Frames
  BY InputTypes DEF Frames
<1>4. OneMore(n, frames, pushed) /\ pushed \in Seq(Frames) /\ pushed[n + 1] = frame
  BY <1>1, <1>3, AppendIsOneMore
<1>5. ContextInvariant(pushed, inherited[c], current[c], Closed)
  <2>1. pushed[n + 1].kind = "flask" /\ ~pushed[n + 1].scoped
    BY <1>4
  <2>2. \A i \in DOMAIN frames : frames[i].kind # "flask"
    BY <1>2 DEF InFlask
  <2> HIDE DEF n, frames, pushed
  <2>3. QED
    BY <1>1, <1>4, <2>1, <2>2, PushFlask
<1>6. /\ stack' = [stack EXCEPT ![c] = pushed]
      /\ current' = [current EXCEPT ![c] = current[c]]
      /\ g' = [g EXCEPT ![c] = Closed]
      /\ UNCHANGED <<running, inherited>>
  BY <1>1, <1>2 DEF FlaskRequest, Push
<1> HIDE DEF pushed
<1>7. QED
  BY <1>1, <1>4, <1>5, <1>6, OneContextChanges

\* _enter.
LEMMA FlaskEnterPreserves ==
  ASSUME VisitorInvariant, NEW c \in Contexts, FlaskEnter(c)
  PROVE  VisitorInvariant'
<1> DEFINE frames  == stack[c]
           n       == Len(frames) - 1
           popped  == SubSeq(frames, 1, n)
           entered == [frames EXCEPT ![n + 1].scoped = TRUE]
           visitor == Extract(Top(c).input)
           opened  == [open |-> TRUE, saved |-> AfterExit(c)]
<1>1. /\ c \in running /\ OneMore(n, popped, frames) /\ frames \in Seq(Frames)
      /\ frames[n + 1] = Top(c) /\ Top(c) \in Frames
      /\ ContextInvariant(frames, inherited[c], current[c], g[c])
  BY OpenContext DEF FlaskEnter, VisitorInvariant, Types
<1>2. /\ Top(c).kind = "flask" /\ ~Top(c).scoped /\ Top(c).input \in AllInputs
      /\ current[c] \in Ids /\ g[c] \in [open : BOOLEAN, saved : Ids]
  BY <1>1 DEF FlaskEnter, Frames, VisitorInvariant, Types
<1>3. visitor \in Ids
  BY <1>2, ExtractIsDocumented
<1>4. n + 1 = Len(frames) /\ n + 1 \in 1 .. Len(frames) /\ n \in Nat
  BY <1>1 DEF OneMore
<1>5. /\ entered \in Seq(Frames) /\ Len(entered) = Len(frames)
      /\ entered[n + 1] = [Top(c) EXCEPT !.scoped = TRUE]
      /\ \A i \in 1 .. n : entered[i] = frames[i]
  <2>1. [Top(c) EXCEPT !.scoped = TRUE] \in Frames
    BY <1>1 DEF Frames
  <2>2. PICK top : top = [Top(c) EXCEPT !.scoped = TRUE]
    OBVIOUS
  <2>3. entered = [frames EXCEPT ![n + 1] = top]
    BY <1>1, <1>4, <2>2
  <2> HIDE DEF entered
  <2>4. /\ entered \in Seq(Frames) /\ Len(entered) = Len(frames) /\ entered[n + 1] = top
        /\ \A i \in 1 .. n : entered[i] = frames[i]
    BY <1>1, <1>4, <2>1, <2>2, <2>3
  <2>5. QED
    BY <2>2, <2>4
<1>6. OneMore(n, popped, entered)
  <2>1. /\ n \in Nat /\ DOMAIN popped = 1 .. n /\ Len(popped) = n
        /\ \A i \in 1 .. n : frames[i] = popped[i]
    BY <1>1 DEF OneMore
  <2>2. DOMAIN entered = 1 .. n + 1 /\ Len(entered) = n + 1
    BY <1>4, <1>5
  <2> HIDE DEF frames, popped, entered, n
  <2>3. \A i \in 1 .. n : entered[i] = popped[i]
    BY <1>5, <2>1
  <2>4. QED
    BY <2>1, <2>2, <2>3 DEF OneMore
<1>7. /\ entered[n + 1].kind = "flask" /\ entered[n + 1].scoped
      /\ entered[n + 1].input = Top(c).input
  <2> HIDE DEF frames, popped, entered, n
  <2>1. PICK top : top = Top(c)
    OBVIOUS
  <2>2. top \in Frames /\ top.kind = "flask"
    BY <1>1, <1>2, <2>1
  <2>3. entered[n + 1] = [top EXCEPT !.scoped = TRUE]
    BY <1>5, <2>1
  <2>4. /\ entered[n + 1].kind = "flask" /\ entered[n + 1].scoped
        /\ entered[n + 1].input = top.input
    BY <2>2, <2>3 DEF Frames
  <2>5. QED
    BY <2>1, <2>4
<1>8. /\ stack' = [stack EXCEPT ![c] = entered]
      /\ current' = [current EXCEPT ![c] = visitor]
      /\ g' = [g EXCEPT ![c] = opened]
      /\ UNCHANGED <<running, inherited>>
  BY <1>4 DEF FlaskEnter, VisitorInvariant, Types
<1> HIDE DEF n, frames, popped, entered
<1>9. ~g[c].open
  BY <1>1, <1>2, ClosedBeforeEnter
<1>10. opened.open /\ opened.saved = current[c] /\ opened \in [open : BOOLEAN, saved : Ids]
  BY <1>2, <1>9 DEF AfterExit
<1> HIDE DEF opened
<1>11. ContextInvariant(entered, inherited[c], visitor, opened)
  BY <1>1, <1>2, <1>6, <1>7, <1>10, EnterFlask
<1>12. QED
  BY <1>1, <1>3, <1>5, <1>8, <1>10, <1>11, OneContextChanges

\* _exit.
LEMMA FlaskTeardownPreserves ==
  ASSUME VisitorInvariant, NEW c \in Contexts, FlaskTeardown(c)
  PROVE  VisitorInvariant'
<1> DEFINE frames == stack[c]
           n      == Len(frames) - 1
           popped == SubSeq(frames, 1, n)
<1>1. /\ c \in running /\ OneMore(n, popped, frames) /\ popped \in Seq(Frames)
      /\ frames[n + 1] = Top(c)
      /\ ContextInvariant(frames, inherited[c], current[c], g[c])
  BY OpenContext DEF FlaskTeardown
<1>2. /\ Top(c).kind = "flask" /\ AfterExit(c) \in Ids
      /\ Closed \in [open : BOOLEAN, saved : Ids]
  BY InputTypes DEF FlaskTeardown, AfterExit, VisitorInvariant, Types, Closed
<1>3. /\ stack' = [stack EXCEPT ![c] = popped]
      /\ current' = [current EXCEPT ![c] = AfterExit(c)]
      /\ g' = [g EXCEPT ![c] = Closed]
      /\ UNCHANGED <<running, inherited>>
  BY DEF FlaskTeardown, Pop
<1> HIDE DEF n, frames, popped
<1>4. ContextInvariant(popped, inherited[c], AfterExit(c), Closed)
  BY <1>1, <1>2, TeardownFlask DEF AfterExit
<1>5. QED
  BY <1>1, <1>2, <1>3, <1>4, OneContextChanges

\* A task starts, in the code of another or in the server, or is done.
LEMMA TasksPreserve ==
  ASSUME VisitorInvariant, NEW task \in Tasks,
         \/ \E c \in Contexts : CreateTask(c, task)
         \/ ServerTask(task) \/ TaskDone(task)
  PROVE  VisitorInvariant'
<1>1. task \in Contexts /\ task \notin Threads
  BY VisitorAssumption DEF Contexts
<1>2. stack[task] = <<>> /\ UNCHANGED <<stack, g>>
  BY <1>1 DEF CreateTask, ServerTask, TaskDone, VisitorInvariant
<1>3. PICK visitor \in Ids :
        /\ current' = [current EXCEPT ![task] = visitor]
        /\ inherited' = [inherited EXCEPT ![task] = visitor]
        /\ running' = running \cup {task} \/ running' = running \ {task}
  BY InputTypes DEF CreateTask, ServerTask, TaskDone, VisitorInvariant, Types
<1>4. Types'
  BY <1>1, <1>2, <1>3 DEF VisitorInvariant, Types, Contexts
<1>5. \A c \in Contexts \ running' : stack'[c] = <<>>
  BY <1>2, <1>3 DEF VisitorInvariant
<1>6. ~g[task].open
  BY <1>1, <1>2 DEF VisitorInvariant, ContextInvariant, FlaskScope
<1>7. ContextInvariant(<<>>, visitor, visitor, g[task])
  BY <1>6, EmptyContext
<1>8. \A c \in Contexts : ContextInvariant(stack'[c], inherited'[c], current'[c], g'[c])
  BY <1>1, <1>2, <1>3, <1>7 DEF VisitorInvariant, Types
<1>9. QED
  BY <1>4, <1>5, <1>8 DEF VisitorInvariant

\* The invariant is inductive, where no Flask request contains another.
LEMMA StepInvariant ==
  ASSUME NestedFlask = FALSE
  PROVE  VisitorInvariant /\ [Next]_vars => VisitorInvariant'
<1> SUFFICES ASSUME VisitorInvariant, [Next]_vars PROVE VisitorInvariant'
  OBVIOUS
<1>1. CASE UNCHANGED vars
  BY <1>1 DEF vars, VisitorInvariant, Types
<1>2. ASSUME NEW c \in Contexts, NEW input \in Inputs, DjangoRequest(c, input)
      PROVE  VisitorInvariant'
  BY <1>2, InputTypes, EnterScopePreserves DEF DjangoRequest, WithBlocks
<1>3. ASSUME NEW c \in Contexts, NEW input \in Inputs, FlaskRequest(c, input)
      PROVE  VisitorInvariant'
  BY <1>3, InputTypes, FlaskRequestPreserves
<1>4. ASSUME NEW c \in Contexts, NEW input \in Inputs, NEW http \in BOOLEAN,
             AsgiRequest(c, http, input)
      PROVE  VisitorInvariant'
  <2>1. CASE http
    BY <1>4, <2>1, InputTypes, EnterScopePreserves DEF AsgiRequest, WithBlocks
  <2>2. CASE ~http
    BY <1>4, <2>2, AsgiOtherPreserves DEF AsgiRequest, AsgiOther
  <2>3. QED
    BY <2>1, <2>2
<1>5. ASSUME NEW c \in Contexts, NEW visitor \in Ids, UserScope(c, visitor)
      PROVE  VisitorInvariant'
  BY <1>5, InputTypes, EnterScopePreserves DEF UserScope, WithBlocks
<1>6. ASSUME NEW c \in Contexts,
             LeaveScope(c) \/ LeaveAsgiOther(c) \/ FlaskEnter(c) \/ FlaskTeardown(c)
      PROVE  VisitorInvariant'
  BY <1>6, LeaveScopePreserves, LeaveAsgiOtherPreserves, FlaskEnterPreserves,
     FlaskTeardownPreserves
<1>7. ASSUME NEW c \in Contexts,
             TaskDone(c) \/ ServerTask(c) \/ \E task \in Tasks : CreateTask(c, task)
      PROVE  VisitorInvariant'
  BY <1>7, TasksPreserve DEF TaskDone, ServerTask
<1>8. QED
  BY <1>1, <1>2, <1>3, <1>4, <1>5, <1>6, <1>7 DEF Next

-----------------------------------------------------------------------------
(* Theorems about every behaviour.                                         *)

\* The invariant holds whatever requests, scopes and tasks there are (context.py and the
\* integrations), except Flask requests inside another.
THEOREM Invariance ==
  ASSUME NestedFlask = FALSE
  PROVE  Spec => []VisitorInvariant
  BY InitInvariant, StepInvariant, PTL DEF Spec

\* Code sees the visitor of the innermost open scope, or what its worker or task started
\* with: the ContextVar leaks nothing into the next request, task or block.
THEOREM InnermostScopeCounts ==
  ASSUME NestedFlask = FALSE
  PROVE  Spec => []InnermostScopeIsCurrent
<1>1. VisitorInvariant => InnermostScopeIsCurrent
  BY VisibleIsExpected DEF VisitorInvariant, Types, ContextInvariant, InnermostScopeIsCurrent
<1>2. QED
  BY <1>1, Invariance, PTL

\* build_body gives an event its own visitor, else that of the innermost scope, and the
\* Stripe helpers pass on a well-formed one of these and no other.
THEOREM EventsCarryTheirOwn ==
  ASSUME NestedFlask = FALSE
  PROVE  Spec => []EventsCarryTheirVisitor
<1>1. InnermostScopeIsCurrent => EventsCarryTheirVisitor
  <2> SUFFICES ASSUME NEW c \in running, current[c] \in Expected(c)
               PROVE  /\ BodyVisitor(c, NoVisitor) \in Expected(c)
                      /\ \A explicit \in Visitors : BodyVisitor(c, explicit) = explicit
                      /\ CurrentMetadata(c) \in (Expected(c) \cap StripeVisitors) \cup {NoVisitor}
                      /\ Expected(c) \subseteq StripeVisitors =>
                           /\ CurrentMetadata(c) \in Expected(c)
                           /\ \A existing \in Visitors : Merged(existing, current[c]) \in Expected(c)
    BY DEF InnermostScopeIsCurrent, EventsCarryTheirVisitor
  <2>1. NoVisitor \notin Visitors /\ StripeVisitors \subseteq Visitors
    BY VisitorAssumption
  <2>2. /\ BodyVisitor(c, NoVisitor) \in Expected(c)
        /\ \A explicit \in Visitors : BodyVisitor(c, explicit) = explicit
    BY <2>1 DEF BodyVisitor, EventVisitor
  <2>3. CurrentMetadata(c) \in (Expected(c) \cap StripeVisitors) \cup {NoVisitor}
    BY DEF CurrentMetadata, StripeMetadata
  <2>4. ASSUME Expected(c) \subseteq StripeVisitors
        PROVE  /\ CurrentMetadata(c) \in Expected(c)
               /\ \A existing \in Visitors : Merged(existing, current[c]) \in Expected(c)
    BY <2>1, <2>4 DEF CurrentMetadata, StripeMetadata, Merged
  <2>5. QED
    BY <2>2, <2>3, <2>4
<1>2. QED
  BY <1>1, InnermostScopeCounts, PTL
=============================================================================
