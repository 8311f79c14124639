------------------------------ MODULE TasteBot ------------------------------
(***************************************************************************)
(* The chat side of a restaurant (client.py, ai/client.py): the thread that *)
(* status-go calls with new messages, the run thread that adds and greets  *)
(* customers, and the AI thread that answers one prompt after the other.   *)
(* They share the list of customers, a queue of contacts, the bots, and    *)
(* the one slot of the AI client, prompt and customer_id, whose lock greet *)
(* does not take.                                                          *)
(***************************************************************************)
EXTENDS Integers, Sequences

CONSTANTS
  Customer,  \* people who write to the restaurant
  None,      \* Python's None
  Kind,      \* what a message may be
  MaxMsg     \* bound: messages of one customer

\* An ordinary text, the customer's own emojihash, which asks for a summary,
\* and the neighbour restaurant's emojihash, which ends the chat.
AllKinds == {"text", "own key", "neighbour key"}

ASSUME ConstantsAssumption ==
  /\ None \notin Customer
  /\ Kind \subseteq AllKinds
  /\ MaxMsg \in Nat

Message == [from : Customer, num : Nat, kind : Kind]

VARIABLES
  written,     \* per customer: messages sent
  accepted,    \* contact requests status-go holds as accepted
  customers,   \* the customers of client.py
  queue,       \* add_customer_queue: contacts, and if a request is with them
  signal,      \* the message on_status_cb is to pass to the AI client
  run,         \* where the run thread is
  adding,      \* the customer it is adding
  ai,          \* where the AI thread is
  bots,        \* customers with a bot
  prompt,      \* AIClient.prompt
  customerId,  \* AIClient.customer_id
  bot,         \* whose bot the AI thread is using
  asked,       \* the prompt it was given
  outbox,      \* what was sent to customers
  overwritten, \* prompts another one has replaced
  disturbed    \* greet wrote customer_id since the prompt was set

chatVars == <<written, accepted, signal>>
runVars  == <<run, adding>>
slotVars == <<prompt, customerId>>
botVars  == <<bot, asked>>
auxVars  == <<outbox, overwritten, disturbed>>
vars == <<chatVars, customers, queue, runVars, ai, bots, slotVars, botVars, auxVars>>

Init ==
  /\ written = [c \in Customer |-> 0]
  /\ accepted \in SUBSET Customer
  /\ customers = {}
  /\ queue = <<>>
  /\ signal = None
  /\ run = "starting" /\ adding = None
  /\ ai = "off"
  /\ bots = {}
  /\ prompt = None /\ customerId = None
  /\ bot = None /\ asked = None
  /\ outbox = <<>> /\ overwritten = {} /\ disturbed = FALSE

-----------------------------------------------------------------------------
(* The callback of status-go.                                              *)

\* A message of an accepted contact goes to the AI client if the customer is
\* known, and makes it known if not: its text is lost then.  A message of
\* anybody else comes with a contact request.
OnStatusCb(c, k) ==
  /\ signal = None
  /\ written[c] < MaxMsg
  /\ written' = [written EXCEPT ![c] = @ + 1]
  /\ IF c \in accepted /\ c \in customers
     THEN /\ signal' = [from |-> c, num |-> written[c] + 1, kind |-> k]
          /\ UNCHANGED queue
     ELSE /\ queue' = Append(queue, [id |-> c, request |-> c \notin accepted])
          /\ UNCHANGED signal
  /\ UNCHANGED <<accepted, customers, runVars, ai, bots, slotVars, botVars, auxVars>>

\* The AI thread has the lock of the AI client.
Locked == ai \in {"generate", "close", "clear"}

\* Variant: the lock is not taken.
SendMessageUnlocked ==
  /\ signal # None
  /\ IF signal.from \in bots
     THEN /\ prompt' = signal
          /\ customerId' = signal.from
          /\ overwritten' = overwritten \cup ({prompt} \ {None})
          /\ disturbed' = FALSE
     ELSE UNCHANGED <<slotVars, overwritten, disturbed>>
  /\ signal' = None
  /\ UNCHANGED <<written, accepted, customers, queue, runVars, ai, bots, botVars,
                 outbox>>

\* Variant: the bot is not looked for.
SendMessageUnchecked ==
  /\ signal # None
  /\ ~ Locked
  /\ prompt' = signal
  /\ customerId' = signal.from
  /\ overwritten' = overwritten \cup ({prompt} \ {None})
  /\ disturbed' = FALSE
  /\ signal' = None
  /\ UNCHANGED <<written, accepted, customers, queue, runVars, ai, bots, botVars,
                 outbox>>

\* sendMessage fills the slot, whatever is in it; without a bot the message is
\* dropped with a warning.
SendMessage ==
  /\ signal # None
  /\ ~ Locked
  /\ IF signal.from \in bots
     THEN /\ prompt' = signal
          /\ customerId' = signal.from
          /\ overwritten' = overwritten \cup ({prompt} \ {None})
          /\ disturbed' = FALSE
     ELSE UNCHANGED <<slotVars, overwritten, disturbed>>
  /\ signal' = None
  /\ UNCHANGED <<written, accepted, customers, queue, runVars, ai, bots, botVars,
                 outbox>>

-----------------------------------------------------------------------------
(* The run thread.                                                         *)

StartClients ==
  /\ run = "starting"
  /\ run' = "idle"
  /\ ai' = "poll"
  /\ UNCHANGED <<chatVars, customers, queue, adding, bots, slotVars, botVars, auxVars>>

\* Variant: the contact itself.
WholeContact(contact) == contact

\* A customer goes by the public key of the contact.
PublicKey(contact) == contact.id

\* A contact that asked for it is accepted.
AcceptContactRequest(contact) ==
  accepted' = IF contact.request THEN accepted \cup {contact.id} ELSE accepted

\* The contact is known from then on.
AddCustomer ==
  /\ run = "idle"
  /\ queue # <<>>
  /\ LET contact == Head(queue)
     IN  /\ AcceptContactRequest(contact)
         /\ customers' = customers \cup {PublicKey(contact)}
         /\ adding' = PublicKey(contact)
  /\ queue' = Tail(queue)
  /\ run' = "fetch"
  /\ UNCHANGED <<written, signal, ai, bots, slotVars, botVars, auxVars>>

\* Variant: without an answer the customer is left alone.
PsiSetupOrSkip ==
  /\ run = "fetch"
  /\ run' \in {"greet", "idle"}
  /\ adding' = IF run' = "idle" THEN None ELSE adding
  /\ UNCHANGED <<chatVars, customers, queue, ai, bots, slotVars, botVars, auxVars>>

\* The neighbour restaurant answers, or the error leaves restaurant_key
\* unbound and the thread dies of it.
PsiSetupAndFetch ==
  /\ run = "fetch"
  /\ run' \in {"greet", "dead"}
  /\ UNCHANGED <<chatVars, customers, queue, adding, ai, bots, slotVars, botVars,
                 auxVars>>

\* greet makes the bot if there is none,
Greet ==
  /\ run = "greet"
  /\ bots' = bots \cup {adding}
  /\ run' = "claim"
  /\ UNCHANGED <<chatVars, customers, queue, adding, ai, slotVars, botVars, auxVars>>

\* then writes customer_id, without the lock, and generates,
GreetClaim ==
  /\ run = "claim"
  /\ customerId' = adding
  /\ disturbed' = (prompt # None)
  /\ run' = "greeting"
  /\ UNCHANGED <<chatVars, customers, queue, adding, ai, bots, prompt, botVars,
                 outbox, overwritten>>

\* status-go sends a chat message.
SendChatMessage(message) == outbox' = Append(outbox, message)

\* Variant: the slot is given back after the greeting.
GreetSendAndReset ==
  /\ run = "greeting"
  /\ SendChatMessage([type |-> "start", to |-> customerId, for |-> adding])
  /\ customerId' = None
  /\ adding' = None
  /\ run' = "idle"
  /\ UNCHANGED <<chatVars, customers, queue, ai, bots, prompt, botVars,
                 overwritten, disturbed>>

\* and sends the greeting to whoever customer_id is by then.
GreetSend ==
  /\ run = "greeting"
  /\ SendChatMessage([type |-> "start", to |-> customerId, for |-> adding])
  /\ adding' = None
  /\ run' = "idle"
  /\ UNCHANGED <<chatVars, customers, queue, ai, bots, slotVars, botVars,
                 overwritten, disturbed>>

\* An error of the model ends the thread; customer_id stays as it is.
GreetFails ==
  /\ run = "greeting"
  /\ run' = "dead"
  /\ UNCHANGED <<chatVars, customers, queue, adding, ai, bots, slotVars, botVars,
                 auxVars>>

-----------------------------------------------------------------------------
(* The AI thread, with the lock from Poll to the end.                      *)

\* A customer_id without a bot would end the thread.
Poll ==
  /\ ai = "poll"
  /\ prompt # None
  /\ customerId # None
  /\ bot' = customerId
  /\ asked' = prompt
  /\ ai' = IF customerId \in bots THEN "generate" ELSE "dead"
  /\ UNCHANGED <<chatVars, customers, queue, runVars, bots, slotVars, auxVars>>

\* The model's answer, sent to whoever customer_id is by then.
Reply ==
  /\ ai = "generate"
  /\ SendChatMessage([type |-> "chat", to |-> customerId, for |-> asked,
                      disturbed |-> disturbed])
  /\ ai' = "close"
  /\ UNCHANGED <<chatVars, customers, queue, runVars, bots, slotVars, botVars,
                 overwritten, disturbed>>

\* An error of the model ends the thread, which leaves the lock.
ReplyFails ==
  /\ ai = "generate"
  /\ ai' = "failed"
  /\ UNCHANGED <<chatVars, customers, queue, runVars, bots, slotVars, botVars, auxVars>>

\* The bot compares the prompt with the keys of its own customer.
EndsChat ==
  \/ asked.kind = "own key" /\ asked.from = bot
  \/ asked.kind = "neighbour key"

\* With a summary or a feedback at hand the callback fails, for the functions
\* that save the embeddings are not defined, and the thread dies.
Close ==
  /\ ai = "close"
  /\ ai' = IF EndsChat THEN "dead" ELSE "clear"
  /\ UNCHANGED <<chatVars, customers, queue, runVars, bots, slotVars, botVars, auxVars>>

\* Variant: the prompt stays in the slot.
ClearIdOnly ==
  /\ ai = "clear"
  /\ customerId' = None
  /\ bot' = None
  /\ asked' = None
  /\ ai' = "poll"
  /\ UNCHANGED <<chatVars, customers, queue, runVars, bots, prompt, auxVars>>

\* The slot is emptied, and the lock released.
Clear ==
  /\ ai = "clear"
  /\ prompt' = None
  /\ customerId' = None
  /\ bot' = None
  /\ asked' = None
  /\ disturbed' = FALSE
  /\ ai' = "poll"
  /\ UNCHANGED <<chatVars, customers, queue, runVars, bots, outbox, overwritten>>

-----------------------------------------------------------------------------
Run == StartClients \/ AddCustomer \/ PsiSetupAndFetch \/ Greet \/ GreetClaim
         \/ GreetSend \/ GreetFails
AI == Poll \/ Reply \/ ReplyFails \/ Close \/ Clear

Next ==
  \/ \E c \in Customer, k \in Kind : OnStatusCb(c, k)
  \/ SendMessage
  \/ Run
  \/ AI

Spec == Init /\ [][Next]_vars

\* The threads run.  The AI thread takes and frees its lock over and over
\* while the slot is empty, so nothing says that a caller ever gets it.
Fairness == WF_vars(Run) /\ WF_vars(AI)

FairSpec == Spec /\ Fairness
-----------------------------------------------------------------------------
Sent ==
  [type : {"start"}, to : Customer \cup {None}, for : Customer]
    \cup [type : {"chat"}, to : Customer \cup {None}, for : Message,
           disturbed : BOOLEAN]

Answers(m) == {i \in DOMAIN outbox : outbox[i].type = "chat" /\ outbox[i].for = m}

TypeOK ==
  /\ written \in [Customer -> Nat]
  /\ accepted \subseteq Customer
  /\ customers \subseteq Customer
  /\ queue \in Seq([id : Customer, request : BOOLEAN])
  /\ signal \in Message \cup {None}
  /\ run \in {"starting", "idle", "fetch", "greet", "claim", "greeting", "dead"}
  /\ adding \in Customer \cup {None}
  /\ ai \in {"off", "poll", "generate", "close", "clear", "failed", "dead"}
  /\ bots \subseteq Customer
  /\ prompt \in Message \cup {None}
  /\ customerId \in Customer \cup {None}
  /\ bot \in Customer \cup {None}
  /\ asked \in Message \cup {None}
  /\ outbox \in Seq(Sent)
  /\ overwritten \subseteq Message
  /\ disturbed \in BOOLEAN

\* A known customer without a bot, whose messages sendMessage drops, is the
\* one the run thread is adding, or died over.
DroppedOnlyWhileAdding ==
  signal # None /\ signal.from \notin bots => signal.from = adding

\* The AI thread never meets a customer_id without a bot: what ends it, if not
\* an error of the model, is a prompt that is a key.
DiesOfKeysOnly ==
  ai = "dead" => \E i \in DOMAIN outbox :
                   outbox[i].type = "chat" /\ outbox[i].for.kind # "text"

\* The two ways to lose what a customer writes that are not the slot's: it
\* comes while the customer is added, or after a key has ended the AI thread.
LossesExplained == DroppedOnlyWhileAdding /\ DiesOfKeysOnly

\* A prompt is answered at most once, though greet points the slot at other
\* customers while the prompt is in it.
AnsweredOnce ==
  \A i, j \in DOMAIN outbox :
    /\ outbox[i].type = "chat"
    /\ outbox[j].type = "chat"
    /\ outbox[i].for = outbox[j].for
    => i = j

\* An answer goes to another customer than the one who wrote only when greet
\* wrote customer_id since: sendMessage never redirects a prompt, for its
\* lock is held while a prompt is answered.
MisrouteNeedsGreet ==
  \A i \in DOMAIN outbox :
    outbox[i].type = "chat" /\ outbox[i].to # outbox[i].for.from
      => outbox[i].disturbed

\* README.md:103: four chats at a time.  Nothing a bot says to one customer
\* goes to another.
ReplyGoesToSender ==
  \A i \in DOMAIN outbox :
    outbox[i].to \in {None, IF outbox[i].type = "start" THEN outbox[i].for
                             ELSE outbox[i].for.from}

\* README.md:107: the customer's key asks for a summary and the neighbour's
\* key for a feedback that ends the chat: the bots go on serving after it.
KeysKeepServing == ai # "dead"

\* A prompt in the slot is answered, unless a later one replaces it, or a key
\* or an error of the model has ended the AI thread.
PromptServed ==
  \A c \in Customer, n \in 1..MaxMsg, k \in Kind :
    LET m == [from |-> c, num |-> n, kind |-> k]
    IN  prompt = m ~> Answers(m) # {} \/ m \in overwritten
                      \/ ai \in {"dead", "failed"}

\* A contact in the queue gets its bot, unless the run thread died because a
\* neighbour, or the model in a greeting, did not answer.
ContactGetsBot ==
  \A c \in Customer :
    (\E i \in DOMAIN queue : queue[i].id = c) ~> c \in bots \/ run = "dead"
=============================================================================
