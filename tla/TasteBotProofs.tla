--------------------------- MODULE TasteBotProofs ---------------------------
(***************************************************************************)
(* Proofs about TasteBot for any number of customers and messages.  The    *)
(* argument: the slot only ever names customers with a bot, for a known    *)
(* customer has one or is being added; and while the AI thread has the     *)
(* lock the prompt it was given stays in the slot, so a prompt that is     *)
(* picked up has no answer yet, and its customer_id is that of its sender  *)
(* unless greet wrote it.                                                  *)
(***************************************************************************)
EXTENDS TasteBot, TLAPS

\* The run thread starts the AI thread; it has a customer in hand from the
\* contact to the greeting, who has a bot once greet made it.
AddingInHand ==
  /\ run = "starting" => ai = "off"
  /\ run \in {"starting", "idle"} => adding = None
  /\ run \in {"fetch", "greet", "claim", "greeting"} => adding \in Customer
  /\ run \in {"claim", "greeting"} => adding \in bots

\* A known customer has a bot or is being added; the callback passes on the
\* messages of known customers only.
KnownServed ==
  /\ \A c \in customers : c \in bots \/ c = adding
  /\ signal # None => signal.from \in customers

\* The slot names a customer with a bot.
SlotHasBot == customerId # None => customerId \in bots

\* What the AI thread holds: the prompt of the slot until it has answered,
\* and the answered prompt until it has closed.
AskedInHand ==
  /\ ai \in {"generate", "close", "clear"} => asked \in Message
  /\ ai = "generate" => asked = prompt /\ prompt # None
  /\ ai \in {"close", "clear"} => Answers(asked) # {}

\* No message is numbered beyond what its sender has written.
Numbered ==
  /\ signal # None => signal.num <= written[signal.from]
  /\ prompt # None => prompt.num <= written[prompt.from]
  /\ \A i \in DOMAIN outbox :
       outbox[i].type = "chat"
         => outbox[i].for.num <= written[outbox[i].for.from]

\* A message on its way to the slot is neither in it nor answered, and a
\* prompt that may still be picked up or sent is not answered.
Unanswered ==
  /\ signal # None => Answers(signal) = {} /\ (prompt # None => signal # prompt)
  /\ prompt # None /\ ai \in {"off", "poll", "generate"} => Answers(prompt) = {}

\* The slot's customer is the sender of its prompt, unless greet wrote it.
SlotDisturbed ==
  prompt # None /\ customerId # prompt.from => disturbed

Slot ==
  /\ AddingInHand
  /\ KnownServed
  /\ SlotHasBot
  /\ AskedInHand
  /\ Numbered
  /\ Unanswered
  /\ SlotDisturbed

IInv ==
  /\ TypeOK
  /\ Slot
  /\ DiesOfKeysOnly
  /\ AnsweredOnce
  /\ MisrouteNeedsGreet
-----------------------------------------------------------------------------
\* What appending to a sequence leaves and adds.
LEMMA AppendFacts ==
  ASSUME NEW S, NEW s \in Seq(S), NEW e \in S
  PROVE  /\ Append(s, e) \in Seq(S)
         /\ DOMAIN s = 1..Len(s)
         /\ DOMAIN Append(s, e) = 1..(Len(s) + 1)
         /\ Len(s) + 1 \notin DOMAIN s
         /\ \A i \in DOMAIN s : i \in DOMAIN Append(s, e) /\ Append(s, e)[i] = s[i]
         /\ \A i \in DOMAIN Append(s, e) : i \in DOMAIN s \/ i = Len(s) + 1
         /\ Append(s, e)[Len(s) + 1] = e
OBVIOUS

LEMMA HeadTail ==
  ASSUME NEW S, NEW s \in Seq(S), s # <<>>
  PROVE  Head(s) \in S /\ Tail(s) \in Seq(S)
OBVIOUS

LEMMA InitIInv == Init => IInv
<1>. SUFFICES ASSUME Init PROVE IInv
  OBVIOUS
<1>. USE ConstantsAssumption DEF Init
<1>1. TypeOK
  <2>1. queue \in Seq([id : Customer, request : BOOLEAN]) /\ outbox \in Seq(Sent)
    OBVIOUS
  <2>2. written \in [Customer -> Nat]
    OBVIOUS
  <2>. QED
    BY <2>1, <2>2 DEF TypeOK
<1>2. Slot
  BY DEF Slot, AddingInHand, KnownServed, SlotHasBot, AskedInHand, Numbered,
         Unanswered, SlotDisturbed
<1>3. DiesOfKeysOnly /\ AnsweredOnce /\ MisrouteNeedsGreet
  BY DEF DiesOfKeysOnly, AnsweredOnce, MisrouteNeedsGreet
<1>. QED
  BY <1>1, <1>2, <1>3 DEF IInv

-----------------------------------------------------------------------------
(* Type correctness.                                                       *)

LEMMA TypeStep ==
  ASSUME TypeOK, AddingInHand, SlotHasBot, AskedInHand, [Next]_vars
  PROVE  TypeOK'
<1>. USE ConstantsAssumption DEF TypeOK
<1>1. ASSUME NEW c \in Customer, NEW k \in Kind, OnStatusCb(c, k)
      PROVE  TypeOK'
  <2>1. written' \in [Customer -> Nat]
    BY <1>1 DEF OnStatusCb
  <2>2. signal' \in Message \cup {None}
    BY <1>1 DEF OnStatusCb, Message
  <2>3. queue' \in Seq([id : Customer, request : BOOLEAN])
    <3>. DEFINE Contact == [id : Customer, request : BOOLEAN]
                contact == [id |-> c, request |-> c \notin accepted]
    <3>1. contact \in Contact
      OBVIOUS
    <3>2. queue \in Seq(Contact)
      OBVIOUS
    <3>3. queue' = queue \/ queue' = Append(queue, contact)
      BY <1>1 DEF OnStatusCb
    <3>. HIDE DEF Contact, contact
    <3>4. Append(queue, contact) \in Seq(Contact)
      BY <3>1, <3>2, AppendFacts, Zenon
    <3>5. queue' \in Seq(Contact)
      BY <3>2, <3>3, <3>4, Zenon
    <3>. QED
      BY <3>5 DEF Contact
  <2>. QED
    BY <1>1, <2>1, <2>2, <2>3
       DEF OnStatusCb, runVars, slotVars, botVars, auxVars
<1>2. CASE SendMessage
  BY <1>2 DEF SendMessage, runVars, botVars, slotVars, Message
<1>3. CASE StartClients
  BY <1>3 DEF StartClients, chatVars, slotVars, botVars, auxVars
<1>4. CASE AddCustomer
  <2>1. Head(queue) \in [id : Customer, request : BOOLEAN]
        /\ Tail(queue) \in Seq([id : Customer, request : BOOLEAN])
    <3>. DEFINE Contact == [id : Customer, request : BOOLEAN]
    <3>1. queue \in Seq(Contact) /\ queue # <<>>
      BY <1>4 DEF AddCustomer
    <3>. HIDE DEF Contact
    <3>2. Head(queue) \in Contact /\ Tail(queue) \in Seq(Contact)
      BY <3>1, HeadTail
    <3>. QED
      BY <3>2 DEF Contact
  <2>2. accepted' \subseteq Customer /\ customers' \subseteq Customer
        /\ adding' \in Customer
    BY <1>4, <2>1 DEF AddCustomer, AcceptContactRequest, PublicKey
  <2>. QED
    BY <1>4, <2>1, <2>2 DEF AddCustomer, slotVars, botVars, auxVars
<1>5. CASE PsiSetupAndFetch
  BY <1>5 DEF PsiSetupAndFetch, chatVars, slotVars, botVars, auxVars
<1>6. CASE Greet
  BY <1>6 DEF Greet, AddingInHand, chatVars, slotVars, botVars, auxVars
<1>7. CASE GreetClaim
  BY <1>7 DEF GreetClaim, AddingInHand, chatVars, botVars
<1>8. CASE GreetSend
  <2>1. [type |-> "start", to |-> customerId, for |-> adding] \in Sent
    BY <1>8 DEF GreetSend, AddingInHand, Sent
  <2>2. outbox' \in Seq(Sent)
    BY <1>8, <2>1, AppendFacts DEF GreetSend, SendChatMessage
  <2>. QED
    BY <1>8, <2>2 DEF GreetSend, chatVars, slotVars, botVars
<1>9. CASE GreetFails
  BY <1>9 DEF GreetFails, chatVars, slotVars, botVars, auxVars
<1>10. CASE Poll
  BY <1>10 DEF Poll, chatVars, runVars, slotVars, auxVars
<1>11. CASE Reply
  <2>1. [type |-> "chat", to |-> customerId, for |-> asked,
         disturbed |-> disturbed] \in Sent
    BY <1>11 DEF Reply, AskedInHand, Sent
  <2>2. outbox' \in Seq(Sent)
    BY <1>11, <2>1, AppendFacts DEF Reply, SendChatMessage
  <2>. QED
    BY <1>11, <2>2 DEF Reply, chatVars, runVars, slotVars, botVars
<1>12. CASE ReplyFails
  BY <1>12 DEF ReplyFails, chatVars, runVars, slotVars, botVars, auxVars
<1>13. CASE Close
  BY <1>13 DEF Close, chatVars, runVars, slotVars, botVars, auxVars
<1>14. CASE Clear
  BY <1>14 DEF Clear, chatVars, runVars
<1>15. CASE UNCHANGED vars
  BY <1>15 DEF vars, chatVars, runVars, slotVars, botVars, auxVars
<1>. QED
  BY <1>1, <1>2, <1>3, <1>4, <1>5, <1>6, <1>7, <1>8, <1>9, <1>10, <1>11,
     <1>12, <1>13, <1>14, <1>15 DEF Next, Run, AI
-----------------------------------------------------------------------------
(* The customers and the bots.                                             *)

LEMMA ServedStep ==
  ASSUME TypeOK, AddingInHand, KnownServed, SlotHasBot, [Next]_vars
  PROVE  AddingInHand' /\ KnownServed' /\ SlotHasBot'
<1>. USE ConstantsAssumption DEF TypeOK, AddingInHand, KnownServed, SlotHasBot
<1>1. ASSUME NEW c \in Customer, NEW k \in Kind, OnStatusCb(c, k)
      PROVE  AddingInHand' /\ KnownServed' /\ SlotHasBot'
  BY <1>1 DEF OnStatusCb, runVars, slotVars, botVars, auxVars
<1>2. CASE SendMessage
  BY <1>2 DEF SendMessage, runVars, botVars, slotVars
<1>3. CASE StartClients
  BY <1>3 DEF StartClients, chatVars, slotVars, botVars, auxVars
<1>4. CASE AddCustomer
  <2>1. Head(queue).id \in Customer
    <3>. DEFINE Contact == [id : Customer, request : BOOLEAN]
    <3>1. queue \in Seq(Contact) /\ queue # <<>>
      BY <1>4 DEF AddCustomer
    <3>. HIDE DEF Contact
    <3>2. Head(queue) \in Contact
      BY <3>1, HeadTail
    <3>. QED
      BY <3>2 DEF Contact
  <2>. QED
    BY <1>4, <2>1 DEF AddCustomer, AcceptContactRequest, PublicKey, slotVars,
                      botVars, auxVars
<1>5. CASE PsiSetupAndFetch
  BY <1>5 DEF PsiSetupAndFetch, chatVars, slotVars, botVars, auxVars
<1>6. CASE Greet
  BY <1>6 DEF Greet, chatVars, slotVars, botVars, auxVars
<1>7. CASE GreetClaim
  BY <1>7 DEF GreetClaim, chatVars, botVars
<1>8. CASE GreetSend
  BY <1>8 DEF GreetSend, chatVars, slotVars, botVars
<1>9. CASE GreetFails
  BY <1>9 DEF GreetFails, chatVars, slotVars, botVars, auxVars
<1>10. CASE Poll
  BY <1>10 DEF Poll, chatVars, runVars, slotVars, auxVars
<1>11. CASE Reply
  BY <1>11 DEF Reply, chatVars, runVars, slotVars, botVars
<1>12. CASE ReplyFails
  BY <1>12 DEF ReplyFails, chatVars, runVars, slotVars, botVars, auxVars
<1>13. CASE Close
  BY <1>13 DEF Close, chatVars, runVars, slotVars, botVars, auxVars
<1>14. CASE Clear
  BY <1>14 DEF Clear, chatVars, runVars
<1>15. CASE UNCHANGED vars
  BY <1>15 DEF vars, chatVars, runVars, slotVars, botVars, auxVars
<1>. QED
  BY <1>1, <1>2, <1>3, <1>4, <1>5, <1>6, <1>7, <1>8, <1>9, <1>10, <1>11,
     <1>12, <1>13, <1>14, <1>15 DEF Next, Run, AI

-----------------------------------------------------------------------------
(* The prompt and its answer.                                              *)

\* A message sent joins the outbox at its end.
LEMMA Outbox ==
  ASSUME TypeOK, NEW e \in Sent, SendChatMessage(e)
  PROVE  /\ DOMAIN outbox' = DOMAIN outbox \cup {Len(outbox) + 1}
         /\ Len(outbox) + 1 \notin DOMAIN outbox
         /\ \A i \in DOMAIN outbox : outbox'[i] = outbox[i]
         /\ outbox'[Len(outbox) + 1] = e
<1>1. outbox \in Seq(Sent) /\ outbox' = Append(outbox, e)
  BY DEF TypeOK, SendChatMessage
<1>2. /\ DOMAIN outbox = 1..Len(outbox)
      /\ DOMAIN Append(outbox, e) = 1..(Len(outbox) + 1)
      /\ Len(outbox) + 1 \notin DOMAIN outbox
      /\ \A i \in DOMAIN outbox : Append(outbox, e)[i] = outbox[i]
      /\ Append(outbox, e)[Len(outbox) + 1] = e
  BY <1>1, AppendFacts
<1>3. 1..(Len(outbox) + 1) = (1..Len(outbox)) \cup {Len(outbox) + 1}
  BY <1>1
<1>. QED
  BY <1>1, <1>2, <1>3

\* What the properties say of the prompt, its answer, and what is known of
\* both while the prompt is on its way.
Answering ==
  /\ AskedInHand
  /\ Numbered
  /\ Unanswered
  /\ SlotDisturbed
  /\ DiesOfKeysOnly
  /\ AnsweredOnce
  /\ MisrouteNeedsGreet

LEMMA AnsweringSame ==
  ASSUME Answering, UNCHANGED <<written, signal, prompt, customerId, asked, outbox, disturbed>>,
         ai' = ai
  PROVE  Answering'
BY DEF Answering, AskedInHand, Numbered, Unanswered, SlotDisturbed, DiesOfKeysOnly,
       AnsweredOnce, MisrouteNeedsGreet, Answers

LEMMA OnStatusCbAnswering ==
  ASSUME TypeOK, Answering, NEW c \in Customer, NEW k \in Kind, OnStatusCb(c, k)
  PROVE  Answering'
<1>. DEFINE n == written[c] + 1
            m == [from |-> c, num |-> n, kind |-> k]
<1>1. /\ UNCHANGED <<prompt, customerId, ai, asked, outbox, disturbed>>
      /\ signal' = m \/ signal' = None
      /\ written' = [written EXCEPT ![c] = n]
  BY DEF OnStatusCb, slotVars, botVars, auxVars, TypeOK
<1>2. \A d \in Customer : written[d] \in Nat /\ written'[d] \in Nat
                          /\ written[d] <= written'[d]
  BY <1>1 DEF TypeOK
<1>3. written'[c] = n /\ n > written[c]
  BY <1>1 DEF TypeOK
<1>4. \A i \in DOMAIN outbox : outbox[i].type = "chat" => outbox[i].for \in Message
  BY DEF TypeOK, Sent
<1>5. Numbered'
  BY <1>1, <1>2, <1>3, <1>4 DEF Answering, Numbered, Message, TypeOK
<1>6. Unanswered'
  <2>1. CASE signal' = m
    <3>1. prompt # None => m # prompt
      BY <1>3 DEF Answering, Numbered, TypeOK, Message
    <3>2. Answers(m) = {}
      BY <1>2, <1>3, <1>4 DEF Answering, Numbered, Answers, Message
    <3>. QED
      BY <1>1, <2>1, <3>1, <3>2 DEF Answering, Unanswered, Answers
  <2>. QED
    BY <1>1, <2>1 DEF Answering, Unanswered, Answers
<1>7. (AskedInHand /\ SlotDisturbed /\ DiesOfKeysOnly /\ AnsweredOnce /\ MisrouteNeedsGreet)'
  BY <1>1 DEF Answering, AskedInHand, SlotDisturbed, DiesOfKeysOnly, AnsweredOnce,
              MisrouteNeedsGreet, Answers
<1>. QED
  BY <1>5, <1>6, <1>7 DEF Answering

LEMMA SendMessageAnswering ==
  ASSUME TypeOK, Answering, SendMessage
  PROVE  Answering'
<1>1. /\ UNCHANGED <<written, ai, asked, outbox>>
      /\ signal' = None /\ signal # None
      /\ ai \notin {"generate", "close", "clear"}
      /\ \/ UNCHANGED <<prompt, customerId, disturbed>>
         \/ prompt' = signal /\ customerId' = signal.from
  BY DEF SendMessage, runVars, slotVars, botVars, Locked
<1>2. (AskedInHand /\ Numbered /\ Unanswered)'
  BY <1>1 DEF Answering, AskedInHand, Numbered, Unanswered, Answers
<1>3. (SlotDisturbed /\ DiesOfKeysOnly /\ AnsweredOnce /\ MisrouteNeedsGreet)'
  BY <1>1 DEF Answering, SlotDisturbed, DiesOfKeysOnly, AnsweredOnce, MisrouteNeedsGreet
<1>. QED
  BY <1>2, <1>3 DEF Answering

LEMMA GreetSendAnswering ==
  ASSUME TypeOK, AddingInHand, Answering, GreetSend
  PROVE  Answering'
<1>. DEFINE e == [type |-> "start", to |-> customerId, for |-> adding]
            last == Len(outbox) + 1
<1>1. e \in Sent /\ e.type = "start"
  BY DEF GreetSend, TypeOK, AddingInHand, Sent
<1>2. /\ DOMAIN outbox' = DOMAIN outbox \cup {last}
      /\ last \notin DOMAIN outbox
      /\ \A i \in DOMAIN outbox : outbox'[i] = outbox[i]
      /\ outbox'[last].type = "start"
  BY <1>1, Outbox DEF GreetSend
<1>3. UNCHANGED <<written, signal, ai, prompt, customerId, asked, disturbed>>
  BY DEF GreetSend, chatVars, slotVars, botVars
<1>. HIDE DEF e, last
<1>4. (AskedInHand /\ Numbered)'
  BY <1>2, <1>3 DEF Answering, AskedInHand, Numbered, Answers
<1>5. (Unanswered /\ SlotDisturbed)'
  BY <1>2, <1>3 DEF Answering, Unanswered, SlotDisturbed, Answers
<1>6. (DiesOfKeysOnly /\ MisrouteNeedsGreet)'
  BY <1>2, <1>3 DEF Answering, DiesOfKeysOnly, MisrouteNeedsGreet
<1>7. AnsweredOnce'
  BY <1>2, <1>3 DEF Answering, AnsweredOnce
<1>. QED
  BY <1>4, <1>5, <1>6, <1>7 DEF Answering

LEMMA ReplyAnswering ==
  ASSUME TypeOK, Answering, Reply
  PROVE  Answering'
<1>. DEFINE e == [type |-> "chat", to |-> customerId, for |-> asked,
                  disturbed |-> disturbed]
            last == Len(outbox) + 1
<1>1. e \in Sent
  BY DEF Reply, TypeOK, Answering, AskedInHand, Sent
<1>2. /\ DOMAIN outbox' = DOMAIN outbox \cup {last}
      /\ last \notin DOMAIN outbox
      /\ \A i \in DOMAIN outbox : outbox'[i] = outbox[i]
      /\ outbox'[last] = e
  BY <1>1, Outbox DEF Reply
<1>3. /\ UNCHANGED <<written, signal, prompt, customerId, asked, disturbed>>
      /\ ai' = "close"
  BY DEF Reply, chatVars, runVars, slotVars, botVars
<1>4. /\ asked = prompt /\ prompt # None /\ asked \in Message
      /\ signal # None => prompt # signal
      /\ Answers(asked) = {}
  BY DEF Reply, Answering, AskedInHand, Unanswered, TypeOK
<1>5. e.type = "chat" /\ e.for = asked /\ e.to = customerId /\ e.disturbed = disturbed
  OBVIOUS
<1>. HIDE DEF e, last
<1>6. AskedInHand'
  BY <1>2, <1>3, <1>4, <1>5 DEF AskedInHand, Answers
<1>7. Numbered'
  BY <1>2, <1>3, <1>4, <1>5 DEF Answering, Numbered
<1>8. SlotDisturbed'
  BY <1>3 DEF Answering, SlotDisturbed
<1>9. Unanswered'
  BY <1>2, <1>3, <1>4, <1>5 DEF Answering, Unanswered, Answers
<1>10. DiesOfKeysOnly'
  BY <1>3 DEF DiesOfKeysOnly
<1>11. MisrouteNeedsGreet'
  <2>1. e.to # e.for.from => e.disturbed
    BY <1>4, <1>5, Zenon DEF Answering, SlotDisturbed
  <2>. QED
    BY <1>2, <2>1, Zenon DEF Answering, MisrouteNeedsGreet
<1>12. AnsweredOnce'
  <2>1. \A i \in DOMAIN outbox : outbox[i].type = "chat" => outbox[i].for # asked
    BY <1>4 DEF Answers
  <2>. QED
    BY <1>2, <1>5, <2>1 DEF Answering, AnsweredOnce
<1>. QED
  BY <1>6, <1>7, <1>8, <1>9, <1>10, <1>11, <1>12 DEF Answering

\* What is picked up is the prompt of the slot, unanswered.
LEMMA PollAnswering ==
  ASSUME TypeOK, SlotHasBot, Answering, Poll
  PROVE  Answering'
<1>1. /\ UNCHANGED <<written, signal, prompt, customerId, outbox, disturbed>>
      /\ ai = "poll" /\ ai' = "generate"
      /\ prompt # None /\ asked' = prompt
  BY DEF Poll, SlotHasBot, chatVars, slotVars, auxVars
<1>2. (AskedInHand /\ Numbered /\ Unanswered)'
  BY <1>1 DEF TypeOK, Answering, AskedInHand, Numbered, Unanswered, Answers
<1>3. (SlotDisturbed /\ DiesOfKeysOnly /\ AnsweredOnce /\ MisrouteNeedsGreet)'
  BY <1>1 DEF Answering, SlotDisturbed, DiesOfKeysOnly, AnsweredOnce, MisrouteNeedsGreet
<1>. QED
  BY <1>2, <1>3 DEF Answering

\* The thread dies in Close over an answered key.
LEMMA CloseAnswering ==
  ASSUME TypeOK, Answering, Close
  PROVE  Answering'
<1>1. /\ UNCHANGED <<written, signal, prompt, customerId, asked, outbox, disturbed>>
      /\ ai = "close"
      /\ ai' = "clear" \/ (ai' = "dead" /\ EndsChat)
  BY DEF Close, chatVars, slotVars, botVars, auxVars
<1>2. (AskedInHand /\ Numbered /\ Unanswered)'
  BY <1>1 DEF Answering, AskedInHand, Numbered, Unanswered, Answers
<1>3. (SlotDisturbed /\ AnsweredOnce /\ MisrouteNeedsGreet)'
  BY <1>1 DEF Answering, SlotDisturbed, AnsweredOnce, MisrouteNeedsGreet
<1>4. DiesOfKeysOnly'
  <2>1. PICK i \in DOMAIN outbox : outbox[i].type = "chat" /\ outbox[i].for = asked
    BY <1>1 DEF Answering, AskedInHand, Answers
  <2>2. EndsChat => outbox[i].for.kind # "text"
    BY <2>1 DEF EndsChat
  <2>. QED
    BY <1>1, <2>1, <2>2 DEF DiesOfKeysOnly
<1>. QED
  BY <1>2, <1>3, <1>4 DEF Answering

LEMMA ClearAnswering ==
  ASSUME Answering, Clear
  PROVE  Answering'
<1>1. /\ UNCHANGED <<written, signal, outbox>>
      /\ prompt' = None /\ ai' = "poll"
  BY DEF Clear, chatVars
<1>. QED
  BY <1>1 DEF Answering, AskedInHand, Numbered, Unanswered, SlotDisturbed,
              DiesOfKeysOnly, AnsweredOnce, MisrouteNeedsGreet, Answers

\* A prompt in the slot is disturbed from here on.
LEMMA GreetClaimAnswering ==
  ASSUME Answering, GreetClaim
  PROVE  Answering'
<1>1. /\ UNCHANGED <<written, signal, ai, prompt, asked, outbox>>
      /\ disturbed' = (prompt # None)
  BY DEF GreetClaim, chatVars, botVars
<1>2. (AskedInHand /\ Numbered /\ Unanswered)'
  BY <1>1 DEF Answering, AskedInHand, Numbered, Unanswered, Answers
<1>3. (DiesOfKeysOnly /\ AnsweredOnce /\ MisrouteNeedsGreet)'
  BY <1>1 DEF Answering, DiesOfKeysOnly, AnsweredOnce, MisrouteNeedsGreet
<1>4. SlotDisturbed'
  BY <1>1, Zenon DEF SlotDisturbed
<1>. QED
  BY <1>2, <1>3, <1>4 DEF Answering

\* An error of the model: the thread stops with the prompt in hand.
LEMMA ReplyFailsAnswering ==
  ASSUME Answering, ReplyFails
  PROVE  Answering'
<1>1. /\ UNCHANGED <<written, signal, prompt, customerId, asked, outbox, disturbed>>
      /\ ai' = "failed"
  BY DEF ReplyFails, chatVars, slotVars, botVars, auxVars
<1>2. (AskedInHand /\ Numbered /\ Unanswered)'
  BY <1>1 DEF Answering, AskedInHand, Numbered, Unanswered, Answers
<1>. QED
  BY <1>1, <1>2 DEF Answering, SlotDisturbed, DiesOfKeysOnly, AnsweredOnce,
                   MisrouteNeedsGreet

LEMMA StartClientsAnswering ==
  ASSUME AddingInHand, Answering, StartClients
  PROVE  Answering'
<1>1. /\ UNCHANGED <<written, signal, prompt, customerId, asked, outbox, disturbed>>
      /\ ai = "off" /\ ai' = "poll"
  BY DEF StartClients, AddingInHand, chatVars, slotVars, auxVars, botVars
<1>2. (AskedInHand /\ Numbered /\ Unanswered)'
  BY <1>1 DEF Answering, AskedInHand, Numbered, Unanswered, Answers
<1>. QED
  BY <1>1, <1>2 DEF Answering, SlotDisturbed, DiesOfKeysOnly, AnsweredOnce,
                   MisrouteNeedsGreet

LEMMA AnsweringStep ==
  ASSUME TypeOK, AddingInHand, SlotHasBot, Answering, [Next]_vars
  PROVE  Answering'
<1>1. ASSUME NEW c \in Customer, NEW k \in Kind, OnStatusCb(c, k)
      PROVE  Answering'
  BY <1>1, OnStatusCbAnswering
<1>2. CASE SendMessage
  BY <1>2, SendMessageAnswering
<1>3. CASE StartClients
  BY <1>3, StartClientsAnswering
<1>4. CASE AddCustomer
  BY <1>4, AnsweringSame DEF AddCustomer, slotVars, botVars, auxVars
<1>5. CASE PsiSetupAndFetch
  BY <1>5, AnsweringSame DEF PsiSetupAndFetch, chatVars, slotVars, botVars, auxVars
<1>6. CASE Greet
  BY <1>6, AnsweringSame DEF Greet, chatVars, slotVars, botVars, auxVars
<1>7. CASE GreetClaim
  BY <1>7, GreetClaimAnswering
<1>8. CASE GreetSend
  BY <1>8, GreetSendAnswering
<1>9. CASE GreetFails
  BY <1>9, AnsweringSame DEF GreetFails, chatVars, slotVars, botVars, auxVars
<1>10. CASE Poll
  BY <1>10, PollAnswering
<1>11. CASE Reply
  BY <1>11, ReplyAnswering
<1>12. CASE ReplyFails
  BY <1>12, ReplyFailsAnswering
<1>13. CASE Close
  BY <1>13, CloseAnswering
<1>14. CASE Clear
  BY <1>14, ClearAnswering
<1>15. CASE UNCHANGED vars
  BY <1>15, AnsweringSame DEF vars, chatVars, slotVars, botVars, auxVars
<1>. QED
  BY <1>1, <1>2, <1>3, <1>4, <1>5, <1>6, <1>7, <1>8, <1>9, <1>10, <1>11,
     <1>12, <1>13, <1>14, <1>15 DEF Next, Run, AI

-----------------------------------------------------------------------------
(* The theorems.                                                           *)

LEMMA NextIInv == IInv /\ [Next]_vars => IInv'
<1>. SUFFICES ASSUME IInv, [Next]_vars PROVE IInv'
  OBVIOUS
<1>1. TypeOK /\ AddingInHand /\ KnownServed /\ SlotHasBot /\ AskedInHand /\ Answering
  BY DEF IInv, Slot, Answering
<1>2. TypeOK'
  BY <1>1, TypeStep
<1>3. AddingInHand' /\ KnownServed' /\ SlotHasBot'
  BY <1>1, ServedStep
<1>4. Answering'
  BY <1>1, AnsweringStep
<1>. QED
  BY <1>2, <1>3, <1>4 DEF IInv, Slot, Answering

LEMMA Inductive == Spec => []IInv
<1>. QED
  BY InitIInv, NextIInv, PTL DEF Spec

\* The variables of the bot, the slot and the threads have their types.
THEOREM TypeCorrect == Spec => []TypeOK
<1>1. IInv => TypeOK
  BY DEF IInv
<1>. QED
  BY <1>1, Inductive, PTL

\* Whoever writes while known has a bot, or is the customer the run thread is
\* adding: no other message is dropped by sendMessage.
THEOREM DropsAreBounded == Spec => []DroppedOnlyWhileAdding
<1>1. IInv => DroppedOnlyWhileAdding
  BY DEF IInv, Slot, KnownServed, DroppedOnlyWhileAdding
<1>. QED
  BY <1>1, Inductive, PTL

\* The AI thread never meets a customer without a bot, whatever greet writes
\* to customer_id: only a key ends it, and the errors of the model.
THEOREM KeysAloneKill == Spec => []DiesOfKeysOnly
<1>1. IInv => DiesOfKeysOnly
  BY DEF IInv
<1>. QED
  BY <1>1, Inductive, PTL

\* What a customer writes is dropped while the customer is added, or is not
\* served because a key ended the AI thread.
THEOREM LossesAreExplained == Spec => []LossesExplained
<1>1. IInv => LossesExplained
  BY DEF IInv, Slot, KnownServed, DroppedOnlyWhileAdding, LossesExplained
<1>. QED
  BY <1>1, Inductive, PTL

\* No prompt is answered twice.
THEOREM OneAnswer == Spec => []AnsweredOnce
<1>1. IInv => AnsweredOnce
  BY DEF IInv
<1>. QED
  BY <1>1, Inductive, PTL

\* Only greet, which does not take the lock, can send an answer astray.
THEOREM GreetAloneMisroutes == Spec => []MisrouteNeedsGreet
<1>1. IInv => MisrouteNeedsGreet
  BY DEF IInv
<1>. QED
  BY <1>1, Inductive, PTL
=============================================================================
