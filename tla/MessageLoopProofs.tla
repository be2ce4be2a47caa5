-------------------------- MODULE MessageLoopProofs --------------------------
(***************************************************************************)
(* Theorems about the loop of Run.  MessageLoop, for any number of users,  *)
(* messages, failures and runs: it announces each message once and in      *)
(* order, and keeps no context token of a session that is over.            *)
(* HandlerRouter, for any kinds of items, handlers and registrations: the  *)
(* cached function is current, and each message goes to its handlers.      *)
(***************************************************************************)
EXTENDS MessageLoop, HandlerRouter, SequenceTheorems, TLAPS

\* The messages in s follow position o one after the other, up to N.
InRow(s, o, N) == \A i \in 1..Len(s) : s[i] \in 1..N /\ s[i] = o + i

\* The batch continues what was announced, up to the cursor.
Order ==
    /\ InRow(seen, start, Len(posted)) /\ InRow(batch, start + Len(seen), Len(posted))
    /\ cursor # 0 => cursor = start + Len(seen) + Len(batch)
    /\ cursor = 0 => seen = <<>> /\ batch = <<>>
    /\ pc \in {"plugins", "handler"} => seen # <<>>

\* Context tokens are of the session, or the guard is up and will clear them.
Contexts ==
    /\ \A i \in 1..Len(batch) : batch[i] \in fresh
    /\ \/ \A u \in Users : contexts[u] = 0 \/ contexts[u] \in fresh
       \/ paused /\ pc \in {"idle", "login", "top", "expired"}
    /\ ~loggedIn /\ ~paused => contexts = NoContext
    /\ pc = "relogin" => contexts = NoContext
    /\ pc = "login" => ~loggedIn
    /\ pc = "polling" => loggedIn
    /\ pc \in {"top", "backoff", "batch", "plugins", "handler"} => loggedIn \/ paused

Inv == TypeOK /\ PollAcknowledgesSeen /\ Order /\ ReplyIsInContext

-----------------------------------------------------------------------------
\* Announcing the head of the batch keeps both rows.
LEMMA TakeOne ==
    ASSUME NEW b \in Seq(Nat), NEW s \in Seq(Nat), NEW o \in Nat, NEW N \in Nat,
           b # <<>>, InRow(s, o, N), InRow(b, o + Len(s), N)
    PROVE  /\ InRow(Append(s, Head(b)), o, N) /\ InRow(Tail(b), o + Len(s) + 1, N)
           /\ Len(Tail(b)) = Len(b) - 1 /\ Len(Append(s, Head(b))) = Len(s) + 1
           /\ Head(b) \in 1..N /\ Append(s, Head(b))[Len(s) + 1] = Head(b)
<1>1. Head(b) = b[1] /\ Head(b) \in 1..N /\ Head(b) = o + Len(s) + 1
  BY DEF InRow
<1>2. Len(Tail(b)) = Len(b) - 1 /\ \A i \in 1..Len(Tail(b)) : Tail(b)[i] = b[i + 1]
  OBVIOUS
<1> DEFINE t == Append(s, Head(b))
<1>3. /\ Len(t) = Len(s) + 1 /\ t[Len(s) + 1] = Head(b)
      /\ \A i \in 1..Len(s) : t[i] = s[i]
  BY <1>1
<1> HIDE DEF t
<1>4. InRow(Tail(b), o + Len(s) + 1, N)
  BY <1>2 DEF InRow
<1>5. InRow(t, o, N)
  <2> SUFFICES ASSUME NEW i \in 1..(Len(s) + 1) PROVE t[i] \in 1..N /\ t[i] = o + i
    BY <1>3 DEF InRow
  <2>1. CASE i \in 1..Len(s)
    BY <2>1, <1>3 DEF InRow
  <2>2. CASE i = Len(s) + 1
    BY <2>2, <1>1, <1>3
  <2> QED
    BY <2>1, <2>2
<1> QED
  BY <1>1, <1>2, <1>3, <1>4, <1>5 DEF t

\* The messages after c up to k, in their order
LEMMA Interval ==
    ASSUME NEW N \in Nat, NEW c \in Nat, NEW k \in c..N,
           NEW b, b = [i \in 1..(k - c) |-> c + i]
    PROVE  b \in Seq(Nat) /\ Len(b) = k - c /\ InRow(b, c, N)
BY DEF InRow

\* What the server answers with is a row.
LEMMA AnswerIsRow ==
    ASSUME Len(posted) \in Nat, NEW c \in Nat, NEW k \in c..Len(posted), Answered(c, k)
    PROVE  InRow(batch', c, Len(posted)) /\ Len(batch') = k - c
<1>1. batch' = [i \in 1..(k - c) |-> c + i]
  BY DEF Answered
<1> QED
  BY <1>1, Interval

\* Nothing is a row.
LEMMA EmptyRow == \A o, N : InRow(<<>>, o, N)
BY DEF InRow

\* The variables have their types at first ...
LEMMA TypesStart == Init => TypeOK
<1> USE LoopAssumption DEF TypeOK, loopVars, sessionVars, Locations, Kinds, NoContext, Goto,
                           Report
<1> SUFFICES ASSUME Init PROVE TypeOK
  OBVIOUS
<1>1. contexts \in [Users -> Nat] /\ posted \in Seq(Message)
  BY DEF Init
<1>2. batch \in Seq(Nat) /\ seen \in Seq(Nat)
  BY DEF Init
<1> QED
  BY <1>1, <1>2 DEF Init

\* ... and every step keeps them.
LEMMA TypesStep == TypeOK /\ [Next]_vars => TypeOK'
<1> USE LoopAssumption DEF TypeOK, loopVars, sessionVars, Locations, Kinds, NoContext, Goto,
                           Report
<1> SUFFICES ASSUME TypeOK, [Next]_vars PROVE TypeOK'
  OBVIOUS
<1>1. ASSUME NEW m \in Message, Post(m) PROVE TypeOK'
  BY <1>1 DEF Post
<1>2. ASSUME NEW how \in {"cancel", "close"}, Stop(how) PROVE TypeOK'
  BY <1>2 DEF Stop
<1>3. CASE RunCall
  BY <1>3 DEF RunCall
<1>4. CASE AutoLogin
  BY <1>4 DEF AutoLogin, NewSession
<1>5. CASE Relogin
  <2>1. sessions' = sessions + 1
    BY <1>5, Zenon DEF Relogin, NewSession
  <2>2. fresh' = {} /\ received' = 0 /\ pc' = "top" /\ contexts' = contexts
    BY <1>5, Zenon DEF Relogin, NewSession
  <2>3. UNCHANGED <<posted, loopVars, stop, reported, failures, runs>>
    BY <1>5, Zenon DEF Relogin
  <2>4. loggedIn' \in BOOLEAN /\ paused' \in BOOLEAN
    BY <1>5, Zenon DEF Relogin, NewSession
  <2> QED
    BY <2>1, <2>2, <2>3, <2>4
<1>6. CASE NoLogin
  BY <1>6 DEF NoLogin
<1>7. CASE Expire
  BY <1>7 DEF Expire, ClearToken
<1>8. CASE Top
  BY <1>8 DEF Top
<1>9. ASSUME NEW c \in 0..MaxPosted, NEW k \in 0..MaxPosted, Answered(c, k) PROVE TypeOK'
  <2>1. batch' \in Seq(Nat)
    BY <1>9 DEF Answered
  <2>2. fresh' \subseteq Nat
    BY <1>9 DEF Answered
  <2> QED
    BY <1>9, <2>1, <2>2 DEF Answered, Advance
<1>10. CASE Quiet
  BY <1>10 DEF Quiet, Advance
<1>11. ASSUME NEW k \in {"poll", "quiet"}, PollFails(k) PROVE TypeOK'
  BY <1>11 DEF PollFails
<1>12. CASE Refused
  BY <1>12 DEF Refused
<1>13. CASE Cancelled
  BY <1>13 DEF Cancelled
<1>14. CASE Backoff
  BY <1>14 DEF Backoff
<1>15. CASE NextMessage
  <2>1. Head(batch) \in Nat /\ Tail(batch) \in Seq(Nat)
    BY <1>15 DEF NextMessage
  <2>2. contexts' \in [Users -> Nat]
    BY <1>15, <2>1 DEF NextMessage, StoreContext
  <2> QED
    BY <1>15, <2>1, <2>2 DEF NextMessage
<1>16. CASE BatchDone
  BY <1>16 DEF BatchDone
<1>17. CASE PluginsPass
  BY <1>17 DEF PluginsPass
<1>18. CASE Handled
  BY <1>18 DEF Handled
<1>19. CASE Logout
  BY <1>19 DEF Logout, ClearToken
<1>20. ASSUME NEW from \in {"plugins", "handler"}, ProcessingFails(from) PROVE TypeOK'
  BY <1>20 DEF ProcessingFails, AfterError
<1>21. CASE UNCHANGED vars
  BY <1>21 DEF vars
<1> QED
  BY <1>1, <1>2, <1>3, <1>4, <1>5, <1>6, <1>7, <1>8, <1>9, <1>10, <1>11, <1>12, <1>13,
     <1>14, <1>15, <1>16, <1>17, <1>18, <1>19, <1>20, <1>21 DEF Next, Step

\* The variables keep their types.
THEOREM TypeCorrect == Spec => []TypeOK
BY TypesStart, TypesStep, PTL DEF Spec

-----------------------------------------------------------------------------
\* What the proofs use of the types.
LEMMA Lengths ==
    TypeOK => /\ Len(posted) \in Nat /\ Len(seen) \in Nat /\ Len(batch) \in Nat
              /\ start \in Nat /\ cursor \in Nat
BY DEF TypeOK

\* What is posted are messages.
LEMMA Entries == TypeOK => \A n \in 1..Len(posted) : posted[n] \in Message
BY DEF TypeOK

\* A message that is posted comes after the ones before it.
LEMMA PostKeeps ==
    ASSUME TypeOK, NEW m \in Message, posted' = Append(posted, m)
    PROVE  /\ Len(posted') = Len(posted) + 1
           /\ \A n \in 1..Len(posted) : posted'[n] = posted[n]
BY DEF TypeOK

\* A row stays one when the server gets messages.
LEMMA RowGrows ==
    ASSUME NEW s, NEW o, NEW N \in Nat, InRow(s, o, N) PROVE InRow(s, o, N + 1)
BY DEF InRow

\* The last message of a row is on the server.
LEMMA RowEnds ==
    ASSUME NEW s \in Seq(Nat), NEW o, NEW N \in Nat, InRow(s, o, N), s # <<>>
    PROVE  s[Len(s)] \in 1..N
BY DEF InRow

\* What the loop announces, and what it knows when it hands a message on: proved
\* together, for the batch and the announced messages describe each other.
LEMMA LoopInvariant == Spec => []Inv
<1> USE LoopAssumption DEF loopVars, sessionVars, Goto, Report, PollAcknowledgesSeen,
                           Order, ReplyIsInContext, AtHand
<1>1. Init => Inv
  BY TypesStart, EmptyRow DEF Init, Inv
<1>2. Inv /\ [Next]_vars => Inv'
  <2> SUFFICES ASSUME Inv, [Next]_vars PROVE Inv'
    OBVIOUS
  <2> TypeOK'
    BY TypesStep DEF Inv
  <2> /\ Len(posted) \in Nat /\ Len(seen) \in Nat /\ Len(batch) \in Nat
      /\ start \in Nat /\ cursor \in Nat
    BY Lengths DEF Inv
  <2> batch \in Seq(Nat) /\ seen \in Seq(Nat)
    BY DEF Inv, TypeOK
  <2> USE DEF Inv
  <2>1. ASSUME NEW m \in Message, Post(m) PROVE Inv'
    <3>1. Len(posted') = Len(posted) + 1 /\ \A n \in 1..Len(posted) : posted'[n] = posted[n]
      BY <2>1, PostKeeps DEF Post
    <3>2. UNCHANGED <<pc, loopVars, contexts, paused>>
      BY <2>1 DEF Post
    <3>3. InRow(seen, start, Len(posted))' /\ InRow(batch, start + Len(seen), Len(posted))'
      BY <3>1, <3>2, RowGrows
    <3>4. Order'
      BY <3>2, <3>3
    <3>5. pc \in {"plugins", "handler"} => AtHand \in 1..Len(posted)
      BY RowEnds
    <3>6. ReplyIsInContext'
      BY <3>1, <3>2, <3>5
    <3> QED
      BY <3>2, <3>4, <3>6
  <2>2. ASSUME NEW how \in {"cancel", "close"}, Stop(how) PROVE Inv'
    BY <2>2 DEF Stop
  <2>3. CASE RunCall
    BY <2>3, EmptyRow DEF RunCall
  <2>4. CASE AutoLogin
    BY <2>4 DEF AutoLogin, NewSession
  <2>5. CASE Relogin
    BY <2>5 DEF Relogin, NewSession
  <2>6. CASE NoLogin
    BY <2>6 DEF NoLogin
  <2>7. CASE Expire
    BY <2>7 DEF Expire, ClearToken
  <2>8. CASE Top
    BY <2>8 DEF Top
  <2>9. ASSUME NEW c \in 0..MaxPosted, NEW k \in 0..MaxPosted, Answered(c, k) PROVE Inv'
    <3>1. c \in Nat /\ k \in c..Len(posted) /\ Len(posted) \in Nat
      BY <2>9 DEF Answered
    <3>2. InRow(batch', c, Len(posted)) /\ Len(batch') = k - c /\ batch = <<>>
      <4>1. InRow(batch', c, Len(posted)) /\ Len(batch') = k - c
        BY <2>9, <3>1, AnswerIsRow
      <4>2. batch = <<>>
        BY <2>9 DEF Answered
      <4> QED
        BY <4>1, <4>2
    <3>3. c = start' + Len(seen) /\ (cursor # 0 => start' = start) /\ (cursor = 0 => seen = <<>>)
      BY <2>9, <3>2 DEF Answered
    <3>4. /\ UNCHANGED <<posted, seen, contexts, paused>> /\ pc' = "batch"
          /\ cursor' = IF k # 0 THEN k ELSE cursor
      BY <2>9 DEF Answered, Advance
    <3>5. InRow(batch, start + Len(seen), Len(posted))' /\ InRow(seen, start, Len(posted))'
      BY <3>1, <3>2, <3>3, <3>4, EmptyRow
    <3>6. /\ cursor' # 0 => cursor' = start' + Len(seen') + Len(batch')
          /\ cursor' = 0 => seen' = <<>> /\ batch' = <<>>
      BY <3>1, <3>2, <3>3, <3>4
    <3> QED
      BY <3>4, <3>5, <3>6
  <2>10. CASE Quiet
    BY <2>10 DEF Quiet, Advance
  <2>11. ASSUME NEW k \in {"poll", "quiet"}, PollFails(k) PROVE Inv'
    BY <2>11 DEF PollFails
  <2>12. CASE Refused
    BY <2>12 DEF Refused
  <2>13. CASE Cancelled
    BY <2>13 DEF Cancelled
  <2>14. CASE Backoff
    BY <2>14 DEF Backoff
  <2>15. CASE NextMessage
    <3>1. /\ seen' = Append(seen, Head(batch)) /\ batch' = Tail(batch) /\ batch # <<>>
          /\ UNCHANGED <<posted, cursor, start, paused>> /\ pc' = "plugins"
      BY <2>15 DEF NextMessage
    <3>3. /\ InRow(seen', start, Len(posted))
          /\ InRow(batch', start + Len(seen) + 1, Len(posted))
          /\ Len(batch') = Len(batch) - 1 /\ Len(seen') = Len(seen) + 1
          /\ Head(batch) \in 1..Len(posted) /\ seen'[Len(seen) + 1] = Head(batch)
      BY <3>1, TakeOne
    <3>4. InRow(seen, start, Len(posted))' /\ InRow(batch, start + Len(seen), Len(posted))'
      BY <3>1, <3>3
    <3>5. seen' # <<>> /\ cursor' = start' + Len(seen') + Len(batch') /\ cursor' # 0
      <4>1. cursor # 0 /\ cursor = start + Len(seen) + Len(batch)
        BY <3>1
      <4>2. Len(seen') # 0
        BY <3>3
      <4>3. cursor' = start' + Len(seen') + Len(batch')
        BY <4>1, <3>1, <3>3
      <4> QED
        BY <4>1, <4>2, <4>3, <3>1
    <3>6. Order'
      BY <3>1, <3>4, <3>5
    <3>7. posted[Head(batch)] \in Message /\ contexts \in [Users -> Nat]
      BY <3>3, Entries DEF TypeOK
    <3>8. AtHand' = Head(batch)
      BY <3>3
    <3>9. posted[Head(batch)].token => contexts'[posted[Head(batch)].from] = Head(batch)
      BY <2>15, <3>7 DEF NextMessage, StoreContext, Message
    <3>10. ReplyIsInContext'
      BY <3>1, <3>8, <3>9
    <3> QED
      BY <3>1, <3>6, <3>10
  <2>16. CASE BatchDone
    BY <2>16 DEF BatchDone
  <2>17. CASE PluginsPass
    BY <2>17 DEF PluginsPass
  <2>18. CASE Handled
    BY <2>18 DEF Handled
  <2>19. CASE Logout
    BY <2>19 DEF Logout, ClearToken
  <2>20. ASSUME NEW from \in {"plugins", "handler"}, ProcessingFails(from) PROVE Inv'
    BY <2>20 DEF ProcessingFails, AfterError
  <2>21. CASE UNCHANGED vars
    BY <2>21 DEF vars
  <2> QED
    BY <2>1, <2>2, <2>3, <2>4, <2>5, <2>6, <2>7, <2>8, <2>9, <2>10, <2>11, <2>12,
       <2>13, <2>14, <2>15, <2>16, <2>17, <2>18, <2>19, <2>20, <2>21 DEF Next, Step
<1> QED
  BY <1>1, <1>2, PTL DEF Spec

\* Each message is announced once and in the order of the server, whatever fails.
THEOREM OnceInOrder == Spec => []EachOnceInOrder
<1>1. Inv => EachOnceInOrder
  BY DEF Inv, Order, InRow, EachOnceInOrder
<1> QED
  BY <1>1, LoopInvariant, PTL

\* A poll acknowledges only what was announced.
THEOREM AcknowledgesSeen == Spec => []PollAcknowledgesSeen
BY LoopInvariant, PTL DEF Inv

\* The context token of a message is at hand while it is processed.
THEOREM RepliesInContext == Spec => []ReplyIsInContext
BY LoopInvariant, PTL DEF Inv
-----------------------------------------------------------------------------
\* The context tokens in memory: a Logout in the middle of a batch leaves some of
\* the old session behind, but only while the guard is up, and Run clears them
\* before it logs in again.
LEMMA ContextInvariant == Spec => []Contexts
<1> USE LoopAssumption DEF loopVars, sessionVars, Goto, Report, Contexts, NoContext
<1>1. Init => Contexts
  BY DEF Init
<1>2. Inv /\ Contexts /\ [Next]_vars => Contexts'
  <2> SUFFICES ASSUME Inv, Contexts, [Next]_vars PROVE Contexts'
    OBVIOUS
  <2> batch \in Seq(Nat) /\ contexts \in [Users -> Nat]
    BY DEF Inv, TypeOK
  <2> pc \notin {"batch", "plugins", "handler"} => batch = <<>>
    BY DEF Inv, PollAcknowledgesSeen
  <2>1. ASSUME NEW m \in Message, Post(m) PROVE Contexts'
    BY <2>1 DEF Post
  <2>2. ASSUME NEW how \in {"cancel", "close"}, Stop(how) PROVE Contexts'
    BY <2>2 DEF Stop
  <2>3. CASE RunCall
    BY <2>3 DEF RunCall
  <2>4. CASE AutoLogin
    BY <2>4 DEF AutoLogin, NewSession
  <2>5. CASE Relogin
    BY <2>5 DEF Relogin, NewSession
  <2>6. CASE NoLogin
    BY <2>6 DEF NoLogin
  <2>7. CASE Expire
    BY <2>7 DEF Expire, ClearToken
  <2>8. CASE Top
    BY <2>8 DEF Top
  <2>9. ASSUME NEW c \in 0..MaxPosted, NEW k \in 0..MaxPosted, Answered(c, k) PROVE Contexts'
    <3>1. /\ c \in Nat /\ fresh' = fresh \cup (c + 1)..k
          /\ pc = "polling" /\ pc' = "batch" /\ UNCHANGED <<contexts, loggedIn, paused>>
      BY <2>9 DEF Answered
    <3>2. Len(batch') = k - c /\ \A i \in 1..Len(batch') : batch'[i] = c + i
      BY <2>9 DEF Answered
    <3>3. \A i \in 1..Len(batch') : batch'[i] \in fresh'
      BY <3>1, <3>2
    <3> QED
      BY <3>1, <3>3
  <2>10. CASE Quiet
    BY <2>10 DEF Quiet, Advance
  <2>11. ASSUME NEW k \in {"poll", "quiet"}, PollFails(k) PROVE Contexts'
    BY <2>11 DEF PollFails
  <2>12. CASE Refused
    BY <2>12 DEF Refused
  <2>13. CASE Cancelled
    BY <2>13 DEF Cancelled
  <2>14. CASE Backoff
    BY <2>14 DEF Backoff
  <2>15. CASE NextMessage
    <3>1. /\ batch' = Tail(batch) /\ batch # <<>> /\ UNCHANGED <<fresh, loggedIn, paused>>
          /\ pc = "batch" /\ pc' = "plugins"
      BY <2>15 DEF NextMessage
    <3>2. Head(batch) \in fresh /\ \A i \in 1..Len(batch') : batch'[i] \in fresh
      BY <3>1
    <3>3. \A u \in Users : contexts'[u] \in {contexts[u], Head(batch)}
      BY <2>15 DEF NextMessage, StoreContext
    <3>4. ~loggedIn /\ ~paused => FALSE
      BY <3>1
    <3> QED
      BY <3>1, <3>2, <3>3, <3>4
  <2>16. CASE BatchDone
    BY <2>16 DEF BatchDone
  <2>17. CASE PluginsPass
    BY <2>17 DEF PluginsPass
  <2>18. CASE Handled
    BY <2>18 DEF Handled
  <2>19. CASE Logout
    BY <2>19 DEF Logout, ClearToken
  <2>20. ASSUME NEW from \in {"plugins", "handler"}, ProcessingFails(from) PROVE Contexts'
    BY <2>20 DEF ProcessingFails, AfterError
  <2>21. CASE UNCHANGED vars
    BY <2>21 DEF vars
  <2> QED
    BY <2>1, <2>2, <2>3, <2>4, <2>5, <2>6, <2>7, <2>8, <2>9, <2>10, <2>11, <2>12,
       <2>13, <2>14, <2>15, <2>16, <2>17, <2>18, <2>19, <2>20, <2>21 DEF Next, Step
<1> QED
  BY <1>1, <1>2, LoopInvariant, PTL DEF Spec

\* A session sends no context token that an older one received.
THEOREM ContextsOfSession == Spec => []NoContextOfOldSession
<1>1. Contexts => NoContextOfOldSession
  BY DEF Contexts, NoContextOfOldSession
<1> QED
  BY <1>1, ContextInvariant, PTL

-----------------------------------------------------------------------------
(* HandlerRouter: the functions the loop reads and calls                   *)

\* What buildHandler is to make of the handlers.
Choice == IF general # None THEN general ELSE ByKind

\* While the loop is about to find the function, and while it goes through items
Choosing == {"any", "cached", "build", "store general", "store by kind", "return", "call"}
ByItem == {"items", "take", "item"}

Items == ItemKinds \cup {None}
Called == Handlers \X (ItemKinds \cup {"all"})

\* A message has as many items left and calls made as it had items.
CountInv ==
    /\ stage \in Choosing => calls = <<>>
    /\ stage \in ByItem => Len(calls) + Len(items) <= MaxItems
    /\ stage = "take" => items # <<>>

\* A registration of the loop's own goroutine keeps the loop waiting, and one of
\* another goroutine is a race.
SettingInv ==
    /\ setting = "loop" => LoopInProgram
    /\ setting = "other" => raced

\* Unless somebody else registers a handler meanwhile, what the loop has read
\* is still there.
Undisturbed == ~raced \/ ~touched

ReadInv ==
    /\ Undisturbed =>
          /\ stage = "store general" => general # None
          /\ stage = "return" => cached # None
          /\ stage = "call" => fn # None
          /\ stage = "take" => Handler(Head(items)) # None
    /\ stage = "crashed" => raced /\ touched

\* Alone, the loop finds the handlers as they were when the message came.
AloneInv ==
    ~raced =>
       /\ setting = "none" => cached \in {None, Choice}
       /\ stage \in Choosing => general = meant
       /\ stage = "store by kind" => general = None
       /\ stage = "call" => fn = Choice
       /\ stage \in ByItem => meant = None /\ fromUser

RouterInv == RouterTypeOK /\ CountInv /\ SettingInv /\ ReadInv /\ AloneInv

-----------------------------------------------------------------------------

\* The lists of items are short sequences.
LEMMA ListIsSequence ==
    ASSUME NEW l \in Lists
    PROVE  l \in Seq(Items) /\ Len(l) \in Nat /\ Len(l) <= MaxItems
<1>1. PICK n \in 0..MaxItems : l \in [1..n -> Items]
  BY DEF Lists, Items
<1>2. n \in Nat /\ n <= MaxItems
  BY <1>1, RouterAssumption
<1>3. l \in Seq(Items)
  BY <1>1, <1>2, SeqDef
<1>4. Len(l) \in Nat /\ 1..Len(l) = 1..n
  BY <1>1, <1>3, LenProperties
<1>5. (n \in 1..n <=> n \in 1..Len(l)) /\ (Len(l) \in 1..Len(l) <=> Len(l) \in 1..n)
  BY <1>4
<1>6. Len(l) = n
  BY <1>2, <1>4, <1>5
<1> QED
  BY <1>2, <1>3, <1>6

\* A short sequence of items is such a list.
LEMMA ShortIsList ==
    ASSUME NEW l \in Seq(Items), Len(l) <= MaxItems
    PROVE  l \in Lists
<1>1. Len(l) \in Nat /\ l \in [1..Len(l) -> Items]
  BY LenProperties
<1>2. Len(l) \in 0..MaxItems
  BY <1>1, RouterAssumption
<1> QED
  BY <1>1, <1>2 DEF Lists, Items

\* What is left of a list is one, and shorter.
LEMMA TailOfList ==
    ASSUME NEW l \in Lists, l # <<>>
    PROVE  Tail(l) \in Lists /\ Len(Tail(l)) = Len(l) - 1 /\ Head(l) \in Items
<1>1. l \in Seq(Items) /\ Len(l) \in Nat /\ Len(l) <= MaxItems
  BY ListIsSequence
<1>2. Tail(l) \in Seq(Items) /\ Len(Tail(l)) = Len(l) - 1 /\ Head(l) \in Items
  BY <1>1, HeadTailProperties
<1>3. Len(Tail(l)) <= MaxItems
  BY <1>1, <1>2, RouterAssumption
<1> QED
  BY <1>2, <1>3, ShortIsList

\* One more call
LEMMA OneMoreCall ==
    ASSUME NEW c \in Called, calls \in Seq(Called)
    PROVE  Append(calls, c) \in Seq(Called) /\ Len(Append(calls, c)) = Len(calls) + 1
           /\ Append(calls, c)[Len(Append(calls, c))] = c
  BY LenProperties

LEMMA InitRouter == RouterInit => RouterInv
<1> SUFFICES ASSUME RouterInit PROVE RouterInv
  OBVIOUS
<1>1. <<>> \in Seq(Items) /\ Len(<<>>) = 0 /\ <<>> \in Seq(Called)
  BY EmptySeq
<1>2. 0 <= MaxItems /\ MaxSets \in Nat /\ MaxMessages \in Nat /\ MaxItems \in Nat
  BY RouterAssumption
<1>3. items \in Lists
  BY <1>1, <1>2, ShortIsList DEF RouterInit
<1>4. sets \in 0..MaxSets /\ messages \in 0..MaxMessages
  BY <1>2 DEF RouterInit
<1>5. typed \in [ItemKinds -> Handlers \cup {None}]
  BY DEF RouterInit
<1>6. RouterTypeOK
  BY <1>1, <1>3, <1>4, <1>5 DEF RouterInit, RouterTypeOK, Called
<1>7. CountInv
  BY <1>1, <1>2 DEF RouterInit, CountInv, ByItem, Choosing
<1>8. SettingInv /\ ReadInv /\ AloneInv
  BY DEF RouterInit, SettingInv, ReadInv, AloneInv, Undisturbed, Choosing, ByItem
<1> QED
  BY <1>6, <1>7, <1>8 DEF RouterInv

\* A step keeps the types, and counts items and calls.
LEMMA StepRouterType ==
    ASSUME RouterTypeOK, CountInv, RouterNext
    PROVE  RouterTypeOK' /\ CountInv'
<1>0. MaxItems \in Nat /\ MaxMessages \in Nat /\ MaxSets \in Nat /\ None \notin Handlers
  BY RouterAssumption
<1>1. items \in Lists /\ calls \in Seq(Called)
  BY DEF RouterTypeOK, Called
<1>2. sets \in 0..MaxSets /\ messages \in 0..MaxMessages
  BY DEF RouterTypeOK
<1>3. sets \in Nat /\ messages \in Nat
  BY <1>0, <1>2
<1>4. Len(items) \in Nat /\ Len(items) <= MaxItems /\ Len(calls) \in Nat
  BY <1>1, ListIsSequence, LenProperties
<1> USE DEF Choosing, ByItem, Goes, handlerVars
<1>5. ASSUME NEW who \in {"loop", "other"}, NEW h \in Handlers \cup {None},
             SetGeneral(who, h) \/ \E k \in ItemKinds : SetTyped(who, k, h)
      PROVE  RouterTypeOK' /\ CountInv'
  <2>1. Set(who) /\ general' \in Handlers \cup {None}
        /\ typed' \in [ItemKinds -> Handlers \cup {None}]
    BY <1>5 DEF SetGeneral, SetTyped, RouterTypeOK
  <2>2. sets' \in 0..MaxSets
    BY <1>0, <1>3, <2>1 DEF Set
  <2>3. setting' \in {"none", "loop", "other"} /\ raced' \in BOOLEAN /\ touched' \in BOOLEAN
    BY <2>1 DEF Set, Touch
  <2> QED
    BY <2>1, <2>2, <2>3 DEF Set, RouterTypeOK, CountInv
<1>6. CASE ClearCache
  BY <1>6 DEF ClearCache, Touch, RouterTypeOK, CountInv
<1>7. ASSUME NEW user \in BOOLEAN, NEW list \in Lists, Receive(user, list)
      PROVE  RouterTypeOK' /\ CountInv'
  <2>1. messages' \in 0..MaxMessages
    BY <1>0, <1>3, <1>7 DEF Receive
  <2>2. calls' = <<>> /\ Len(<<>>) = 0 /\ <<>> \in Seq(Called) /\ stage' = "any"
    BY <1>7, EmptySeq DEF Receive
  <2>3. CountInv'
    BY <2>2 DEF CountInv
  <2>4. UNCHANGED <<general, typed, cached, setting, raced, sets, fn>>
        /\ fromUser' \in BOOLEAN /\ items' \in Lists /\ meant' = general /\ touched' = FALSE
    BY <1>7 DEF Receive
  <2> QED
    BY <2>1, <2>2, <2>3, <2>4 DEF RouterTypeOK, Called
<1>8. CASE HasAnyHandler \/ ReadCache \/ ReadGeneral
  BY <1>8 DEF RouterTypeOK, CountInv, HasAnyHandler, ReadCache, ReadGeneral
<1>9. CASE WriteCache \/ ReturnCache \/ CallNil
  BY <1>9 DEF RouterTypeOK, CountInv, WriteCache, ReturnCache, CallNil
<1>10. CASE CallGeneral
  <2>1. <<fn, "all">> \in Called /\ calls = <<>> /\ calls' = Append(calls, <<fn, "all">>)
    BY <1>10 DEF CallGeneral, RouterTypeOK, Called, CountInv
  <2>2. calls' \in Seq(Called) /\ Len(calls') = 1
    BY <2>1, OneMoreCall, EmptySeq
  <2> QED
    BY <1>10, <2>2 DEF CallGeneral, RouterTypeOK, Called, CountInv
<1>11. CASE CallByKind
  <2>1. Len(calls) = 0 /\ calls = <<>>
    BY <1>11, EmptySeq DEF CallByKind, CountInv
  <2>2. CountInv'
    BY <1>4, <1>11, <2>1 DEF CallByKind, CountInv
  <2> QED
    BY <1>11, <2>2 DEF CallByKind, RouterTypeOK
<1>12. CASE TakeItem
  <2>1. /\ items # <<>> /\ stage = "items"
        /\ \/ stage' = "take" /\ items' = items
           \/ stage' = "items" /\ items' = Tail(items)
        /\ UNCHANGED <<handlerVars, fn, fromUser, meant, touched, calls, messages>>
    BY <1>12 DEF TakeItem
  <2>2. Tail(items) \in Lists /\ Len(Tail(items)) = Len(items) - 1
    BY <1>1, <2>1, TailOfList
  <2>3. Len(Tail(items)) <= Len(items) /\ Len(Tail(items)) \in Nat
    BY <1>4, <2>2, ListIsSequence
  <2>4. items' \in Lists /\ Len(items') \in Nat /\ Len(items') <= Len(items)
    <3>1. CASE items' = items
      BY <1>1, <1>4, <3>1
    <3>2. CASE items' = Tail(items)
      BY <2>2, <2>3, <3>2
    <3> QED
      BY <2>1, <3>1, <3>2
  <2>5. Len(calls) + Len(items) <= MaxItems /\ calls' = calls
    BY <2>1 DEF CountInv
  <2>6. Len(calls) + Len(items') <= MaxItems
    BY <1>0, <1>4, <2>4, <2>5
  <2>7. CountInv'
    BY <2>1, <2>5, <2>6 DEF CountInv
  <2> QED
    BY <2>1, <2>4, <2>7 DEF RouterTypeOK
<1>13. CASE CallOfKind
  <2> DEFINE item == Head(items)
  <2>1. /\ stage = "take" /\ stage' = "item" /\ items' = Tail(items)
        /\ calls' = Append(calls, <<Handler(item), item>>)
        /\ Handler(item) # None
        /\ UNCHANGED <<handlerVars, fn, fromUser, meant, touched, messages>>
    BY <1>13 DEF CallOfKind
  <2>2. item \in ItemKinds /\ Handler(item) \in Handlers
    BY <2>1 DEF Handler, RouterTypeOK
  <2>3. <<Handler(item), item>> \in Called
    BY <2>2 DEF Called
  <2>4. calls' \in Seq(Called) /\ Len(calls') = Len(calls) + 1
    BY <1>1, <2>1, <2>3, OneMoreCall
  <2> HIDE DEF item
  <2>5. items # <<>>
    BY <2>1 DEF CountInv
  <2>6. items' \in Lists /\ Len(items') = Len(items) - 1
    BY <1>1, <2>1, <2>5, TailOfList
  <2>7. CountInv'
    BY <1>0, <1>4, <2>1, <2>4, <2>6 DEF CountInv
  <2> QED
    BY <2>1, <2>4, <2>6, <2>7 DEF RouterTypeOK, Called
<1>14. CASE ItemsDone \/ HandlerReturns
  BY <1>4, <1>14 DEF RouterTypeOK, CountInv, ItemsDone, HandlerReturns
<1> QED
  BY <1>5, <1>6, <1>7, <1>8, <1>9, <1>10, <1>11, <1>12, <1>13, <1>14 DEF RouterNext


-----------------------------------------------------------------------------
(* The rest of the invariant, action by action.                            *)

LEMMA StepSetting ==
    ASSUME RouterTypeOK, SettingInv, RouterNext
    PROVE  SettingInv'
<1> USE DEF SettingInv, LoopInProgram, Goes, LoopRuns, handlerVars
<1>1. ASSUME NEW who \in {"loop", "other"}, NEW h \in Handlers \cup {None},
             SetGeneral(who, h) \/ \E k \in ItemKinds : SetTyped(who, k, h)
      PROVE  SettingInv'
  BY <1>1 DEF SetGeneral, SetTyped, Set
<1>2. CASE ClearCache
  BY <1>2 DEF ClearCache
<1>3. ASSUME NEW user \in BOOLEAN, NEW list \in Lists, Receive(user, list)
      PROVE  SettingInv'
  BY <1>3 DEF Receive
<1>4. CASE HasAnyHandler \/ ReadCache \/ ReadGeneral \/ WriteCache \/ ReturnCache
  BY <1>4 DEF HasAnyHandler, ReadCache, ReadGeneral, WriteCache, ReturnCache
<1>5. CASE CallNil \/ CallGeneral \/ CallByKind
  BY <1>5 DEF CallNil, CallGeneral, CallByKind
<1>6. CASE TakeItem \/ CallOfKind \/ ItemsDone \/ HandlerReturns
  BY <1>6 DEF TakeItem, CallOfKind, ItemsDone, HandlerReturns
<1> QED
  BY <1>1, <1>2, <1>3, <1>4, <1>5, <1>6 DEF RouterNext

LEMMA StepRead ==
    ASSUME RouterInv, RouterNext
    PROVE  ReadInv'
<1> USE DEF RouterInv, SettingInv, ReadInv, Undisturbed, LoopInProgram, Goes, LoopRuns,
            handlerVars
<1>1. ASSUME NEW who \in {"loop", "other"}, NEW h \in Handlers \cup {None},
             SetGeneral(who, h) \/ \E k \in ItemKinds : SetTyped(who, k, h)
      PROVE  ReadInv'
  BY <1>1 DEF SetGeneral, SetTyped, Set, Touch
<1>2. CASE ClearCache
  BY <1>2 DEF ClearCache, Touch, RouterTypeOK
<1>3. ASSUME NEW user \in BOOLEAN, NEW list \in Lists, Receive(user, list)
      PROVE  ReadInv'
  BY <1>3 DEF Receive
<1>4. CASE HasAnyHandler \/ ReadCache \/ ReadGeneral
  BY <1>4 DEF HasAnyHandler, ReadCache, ReadGeneral
<1>5. CASE WriteCache \/ ReturnCache
  BY <1>5, RouterAssumption DEF WriteCache, ReturnCache
<1>6. CASE CallNil
  BY <1>6 DEF CallNil, RouterTypeOK
<1>7. CASE CallGeneral \/ CallByKind
  BY <1>7 DEF CallGeneral, CallByKind
<1>8. CASE TakeItem
  BY <1>8 DEF TakeItem, Handler
<1>9. CASE CallOfKind \/ ItemsDone \/ HandlerReturns
  BY <1>9 DEF CallOfKind, ItemsDone, HandlerReturns
<1> QED
  BY <1>1, <1>2, <1>3, <1>4, <1>5, <1>6, <1>7, <1>8, <1>9 DEF RouterNext

LEMMA StepAlone ==
    ASSUME RouterInv, RouterNext
    PROVE  AloneInv'
<1> USE DEF RouterInv, SettingInv, AloneInv, LoopInProgram, Goes, LoopRuns, Choice, Choosing,
            ByItem, handlerVars
<1>1. ASSUME NEW who \in {"loop", "other"}, NEW h \in Handlers \cup {None},
             SetGeneral(who, h) \/ \E k \in ItemKinds : SetTyped(who, k, h)
      PROVE  AloneInv'
  BY <1>1 DEF SetGeneral, SetTyped, Set
<1>2. CASE ClearCache
  BY <1>2 DEF ClearCache
<1>3. ASSUME NEW user \in BOOLEAN, NEW list \in Lists, Receive(user, list)
      PROVE  AloneInv'
  BY <1>3 DEF Receive
<1>4. CASE HasAnyHandler \/ ReadCache \/ ReadGeneral
  BY <1>4 DEF HasAnyHandler, ReadCache, ReadGeneral
<1>5. CASE WriteCache
  BY <1>5 DEF WriteCache
<1>6. CASE ReturnCache
  BY <1>6 DEF ReturnCache, ReadInv, Undisturbed, RouterTypeOK
<1>7. CASE CallNil \/ CallGeneral
  BY <1>7 DEF CallNil, CallGeneral
<1>8. CASE CallByKind
  BY <1>8, RouterAssumption DEF CallByKind, RouterTypeOK
<1>9. CASE TakeItem \/ CallOfKind \/ ItemsDone \/ HandlerReturns
  BY <1>9 DEF TakeItem, CallOfKind, ItemsDone, HandlerReturns
<1> QED
  BY <1>1, <1>2, <1>3, <1>4, <1>5, <1>6, <1>7, <1>8, <1>9 DEF RouterNext

LEMMA RouterInvariant == RouterSpec => []RouterInv
<1>1. RouterInv /\ UNCHANGED routerVars => RouterInv'
  <2> SUFFICES ASSUME RouterInv, UNCHANGED routerVars PROVE RouterInv'
    OBVIOUS
  <2> USE DEF routerVars, handlerVars
  <2>1. RouterTypeOK'
    BY DEF RouterInv, RouterTypeOK
  <2>2. CountInv'
    BY DEF RouterInv, CountInv
  <2>3. SettingInv' /\ AloneInv'
    BY DEF RouterInv, SettingInv, LoopInProgram, AloneInv, Choice
  <2>4. ReadInv'
    BY DEF RouterInv, ReadInv, Undisturbed, Handler
  <2> QED
    BY <2>1, <2>2, <2>3, <2>4 DEF RouterInv
<1>2. RouterInv /\ [RouterNext]_routerVars => RouterInv'
  BY <1>1, StepRouterType, StepSetting, StepRead, StepAlone DEF RouterInv
<1> QED
  BY InitRouter, <1>2, PTL DEF RouterSpec

-----------------------------------------------------------------------------
(* The theorems                                                            *)

\* The variables keep their types.
THEOREM RouterTypeCorrect == RouterSpec => []RouterTypeOK
  BY RouterInvariant, PTL DEF RouterInv

\* As long as only the goroutine of the loop registers handlers, the cached
\* function is the one that the handlers of now call for (router.go:43), however
\* registrations and messages alternate.
THEOREM CacheStaysCurrent == RouterSpec => []CacheIsCurrent
<1>1. RouterInv => CacheIsCurrent
  BY DEF RouterInv, AloneInv, CacheIsCurrent, Choice
<1> QED
  BY <1>1, RouterInvariant, PTL

\* The loop calls a nil function only if another goroutine has registered a
\* handler and one was being registered while the message was handled.
THEOREM NilOnlyByRace == RouterSpec => []NilNeedsRace
<1>1. RouterInv => NilNeedsRace
  BY DEF RouterInv, ReadInv, NilNeedsRace
<1> QED
  BY <1>1, RouterInvariant, PTL

\* With only the goroutine of the loop registering, a message goes to the general
\* handler of when it came and to nobody else, or each item of a user's message to
\* the handler of its kind.
THEOREM RoutesAsRegistered == RouterSpec => RoutedAsRegistered
<1> DEFINE call == calls'[Len(calls')]
           Routed == ~raced /\ calls' # calls /\ calls' # <<>> =>
                        IF meant # None
                        THEN call = <<meant, "all">> /\ calls = <<>>
                        ELSE fromUser /\ call[2] \in ItemKinds /\ call[1] = typed[call[2]]
<1>1. ASSUME RouterInv, RouterNext PROVE Routed
  <2> SUFFICES ASSUME ~raced, calls' # calls, calls' # <<>>
               PROVE  IF meant # None
                      THEN call = <<meant, "all">> /\ calls = <<>>
                      ELSE fromUser /\ call[2] \in ItemKinds /\ call[1] = typed[call[2]]
    OBVIOUS
  <2>1. CallGeneral \/ CallOfKind
    BY <1>1 DEF RouterNext, SetGeneral, SetTyped, Set, ClearCache, Receive, HasAnyHandler,
                ReadCache, ReadGeneral, WriteCache, ReturnCache, CallNil, CallByKind, TakeItem,
                ItemsDone, HandlerReturns
  <2>2. calls \in Seq(Called)
    BY <1>1 DEF RouterInv, RouterTypeOK, Called
  <2>3. CASE CallGeneral
    <3>1. fn \in Handlers /\ fn = Choice /\ general = meant /\ calls = <<>>
      BY <1>1, <2>3 DEF CallGeneral, Goes, RouterInv, AloneInv, CountInv, Choosing
    <3>2. fn = meant /\ meant # None
      BY <3>1, RouterAssumption DEF Choice
    <3>3. <<fn, "all">> \in Called
      BY <3>1 DEF Called
    <3>4. call = <<fn, "all">>
      BY <2>2, <2>3, <3>3, OneMoreCall DEF CallGeneral
    <3> QED
      BY <3>1, <3>2, <3>4
  <2>4. CASE CallOfKind
    <3> DEFINE item == Head(items)
    <3>1. meant = None /\ fromUser
      BY <1>1, <2>4 DEF CallOfKind, Goes, RouterInv, AloneInv, ByItem
    <3>2. item \in ItemKinds /\ Handler(item) = typed[item] /\ Handler(item) \in Handlers
      BY <1>1, <2>4 DEF CallOfKind, Handler, RouterInv, RouterTypeOK
    <3>3. <<Handler(item), item>> \in Called
      BY <3>2 DEF Called
    <3>4. call = <<Handler(item), item>>
      BY <2>2, <2>4, <3>3, OneMoreCall DEF CallOfKind
    <3> QED
      BY <3>1, <3>2, <3>4
  <2> QED
    BY <2>1, <2>3, <2>4
<1>2. RouterInv /\ [RouterNext]_routerVars => [Routed]_routerVars
  BY <1>1
<1> HIDE DEF Routed
<1>3. RouterSpec => [][Routed]_routerVars
  BY <1>2, RouterInvariant, PTL DEF RouterSpec
<1> QED
  BY <1>3 DEF RoutedAsRegistered, Routed
=============================================================================
