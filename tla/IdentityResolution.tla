------------------------- MODULE IdentityResolution -------------------------
(***************************************************************************)
(* How the ResourceManager verifies messages whose signer it may not know: *)
(* the signature check queue with its single worker, the identity request  *)
(* queue that parks messages of unknown signers and resolves each signer   *)
(* on a thread of its own (src/common/message_queue/mq_signing.cpp), and   *)
(* the IdentityCache both read (src/common/node.cpp).                      *)
(*                                                                         *)
(* A message is a member of Msg, or a node standing for the identity       *)
(* message with which that node answers a challenge.  The queues have no   *)
(* limit (queueLimit_ is 0 and no code sets it).  A signature verdict and  *)
(* the push that follows it are one step, and so are draining a signer and *)
(* handing its messages on: in between, the messages are in no state that  *)
(* another thread reads.                                                   *)
(***************************************************************************)
EXTENDS Naturals, Sequences, FiniteSets, Functions

CONSTANTS Signer,          \* nodes that sign messages
          Msg,             \* messages other than identity messages
          SignerOf,        \* the signer of each message
          CacheSizes,      \* the values maximumEntries may have
          MaxPending,      \* Limits::maxPendingMessages, 0 for no limit
          MaxPerSigner,    \* Limits::maxPendingPerSigner, 0 for no limit
          MaxAnswers       \* bound on the challenges that are answered

ASSUME SignerAssumption == SignerOf \in [Msg -> Signer] /\ Msg \cap Signer = {}
ASSUME SizeAssumption ==
    CacheSizes \subseteq Nat /\ {MaxPending, MaxPerSigner, MaxAnswers} \subseteq Nat

VARIABLES maximumEntries, \* IdentityCache::maximumEntries_
          entries,        \* IdentityCache::entries_: the nodes with a key
          usageOrder,     \* IdentityCache::usageOrder_, most recent first
          checkQueue,     \* signatureCheckQueue_
          identityQueue,  \* identityRequestQueue_, messages not yet parked
          parked,         \* parked[s]: pendingBySigner_[s].messages
          total,          \* totalPendingMessages_
          resolver,       \* resolver[s]: where the thread resolving s is
          late,           \* signers whose resolver is past its deadline
          challenged,     \* challenge requests on their way to the signer
          answers,        \* identity messages sent so far
          arrived,        \* messages of Msg received so far
          verified,       \* messages passed to handleVerifiedMessage
          failed,         \* messages answered with SIGNATURE_FAILED
          phase           \* progress of ~ResourceManager

cacheVars == <<maximumEntries, entries, usageOrder>>
resolverVars == <<parked, total, resolver, late>>
vars == <<cacheVars, resolverVars, checkQueue, identityQueue, challenged, answers,
          arrived, verified, failed, phase>>

Message == Msg \cup Signer
From(m) == IF m \in Msg THEN SignerOf[m] ELSE m

Phases == {"running", "checkStopped", "queuesStopped", "stopping", "joined"}
CheckRuns    == phase = "running"
IdentityRuns == phase \in {"running", "checkStopped"}
Stopping     == phase \in {"stopping", "joined"}

TypeOK ==
    /\ maximumEntries \in CacheSizes
    /\ entries \subseteq Signer
    /\ usageOrder \in Seq(Signer)
    /\ checkQueue \in Seq(Message) /\ identityQueue \in Seq(Message)
    /\ parked \in [Signer -> Seq(Message)]
    /\ total \in Nat
    /\ resolver \in [Signer -> {"none", "start", "request", "poll", "absent",
                                "replay", "fail"}]
    /\ late \subseteq Signer /\ challenged \subseteq Signer
    /\ answers \in 0..MaxAnswers
    /\ arrived \subseteq Msg
    /\ verified \subseteq Message /\ failed \subseteq Message
    /\ phase \in Phases

Init ==
    /\ maximumEntries \in CacheSizes
    /\ entries = {} /\ usageOrder = <<>>
    /\ checkQueue = <<>> /\ identityQueue = <<>>
    /\ parked = [s \in Signer |-> <<>>] /\ total = 0
    /\ resolver = [s \in Signer |-> "none"] /\ late = {}
    /\ challenged = {} /\ answers = 0
    /\ arrived = {} /\ verified = {} /\ failed = {}
    /\ phase = "running"
-----------------------------------------------------------------------------
(* cacheIdentity moves a known node to the front and puts an unknown one   *)
(* there; trimToLimitLocked drops nodes from the back.                     *)
TrimKeepsEntries(order, max, ents) ==
    /\ usageOrder' = SubSeq(order, 1, IF Len(order) < max THEN Len(order) ELSE max)
    /\ entries' = ents

TrimToLimit(order, max, ents) ==
    LET kept == IF Len(order) < max THEN Len(order) ELSE max
    IN  /\ usageOrder' = SubSeq(order, 1, kept)
        /\ entries' = ents \ {order[i] : i \in kept+1..Len(order)}

Without(q, p) == SubSeq(q, 1, p - 1) \o SubSeq(q, p + 1, Len(q))

Position(s) == CHOOSE i \in DOMAIN usageOrder : usageOrder[i] = s

CacheIdentity(s) ==
    /\ IF s \in entries
       THEN /\ usageOrder' = <<s>> \o Without(usageOrder, Position(s))
            /\ UNCHANGED entries
       ELSE TrimToLimit(<<s>> \o usageOrder, maximumEntries, entries \cup {s})
    /\ UNCHANGED maximumEntries

(* setMaximumEntries.                                                      *)
SetMaximumEntries(c) ==
    /\ maximumEntries' = c
    /\ TrimToLimit(usageOrder, c, entries)
    /\ UNCHANGED <<resolverVars, checkQueue, identityQueue, challenged, answers,
                   arrived, verified, failed, phase>>

(* observeMessage, for the identity of a connection's handshake            *)
(* (cacheAuthenticatedIdentity) or one in a message that was verified and  *)
(* authorized some time ago (handleAuthorizedMessage).                     *)
ObserveIdentity(s) ==
    /\ CacheIdentity(s)
    /\ UNCHANGED <<resolverVars, checkQueue, identityQueue, challenged, answers,
                   arrived, verified, failed, phase>>
-----------------------------------------------------------------------------
(* A connection delivers a message to the signature check queue.           *)
Receive(m) ==
    /\ m \notin arrived
    /\ arrived' = arrived \cup {m}
    /\ checkQueue' = Append(checkQueue, m)
    /\ UNCHANGED <<cacheVars, resolverVars, identityQueue, challenged, answers,
                   verified, failed, phase>>

(* A challenged node answers.                                              *)
Answer(s) ==
    /\ s \in challenged /\ answers < MaxAnswers
    /\ challenged' = challenged \ {s}
    /\ answers' = answers + 1
    /\ checkQueue' = Append(checkQueue, s)
    /\ UNCHANGED <<cacheVars, resolverVars, identityQueue, arrived, verified,
                   failed, phase>>

(* The key of a node other than the ResourceManager is in the cache, or    *)
(* unknown.                                                                *)
VerificationKeyForNodeId(s) == s \in entries

(* SIGNATURE_FAILED to the senders of messages.                            *)
SendSignatureFailure(messages) == failed' = failed \cup messages

(* handleMessage of the signature check queue: a message of a known signer *)
(* is passed on to handleVerifiedMessage, one of an unknown signer goes to *)
(* the identity queue (handleSignatureFailure).                            *)
CheckSignature ==
    /\ CheckRuns /\ checkQueue # <<>>
    /\ LET m == Head(checkQueue)
       IN  IF VerificationKeyForNodeId(From(m))
           THEN /\ verified' = verified \cup {m}
                /\ UNCHANGED identityQueue
           ELSE /\ identityQueue' = Append(identityQueue, m)
                /\ UNCHANGED verified
    /\ checkQueue' = Tail(checkQueue)
    /\ UNCHANGED <<cacheVars, resolverVars, challenged, answers, arrived, failed,
                   phase>>

(* A missing or wrong signature is answered with SIGNATURE_FAILED.         *)
RejectSignature ==
    /\ CheckRuns /\ checkQueue # <<>>
    /\ SendSignatureFailure({Head(checkQueue)})
    /\ checkQueue' = Tail(checkQueue)
    /\ UNCHANGED <<cacheVars, resolverVars, identityQueue, challenged, answers,
                   arrived, verified, phase>>

(* handleMessage of the identity queue: reject at a limit, or park and     *)
(* start a resolver unless the signer has one.                             *)
AcceptsPastTotal(s) == MaxPerSigner = 0 \/ Len(parked[s]) < MaxPerSigner

Accepts(s) ==
    /\ ~Stopping
    /\ MaxPending = 0 \/ total < MaxPending
    /\ MaxPerSigner = 0 \/ Len(parked[s]) < MaxPerSigner

StartedNever(s) == resolver[s]

Started(s) == IF resolver[s] = "none" THEN "start" ELSE resolver[s]

Park ==
    /\ IdentityRuns /\ identityQueue # <<>>
    /\ LET m == Head(identityQueue)
           s == From(m)
       IN  \/ /\ Accepts(s)
              /\ parked' = [parked EXCEPT ![s] = Append(@, m)]
              /\ total' = total + 1
              /\ resolver' = [resolver EXCEPT ![s] = Started(s)]
              /\ late' = IF resolver[s] = "none" THEN late \ {s} ELSE late
              /\ UNCHANGED failed
           \/ /\ ~Accepts(s)
              /\ SendSignatureFailure({m})
              /\ UNCHANGED resolverVars
    /\ identityQueue' = Tail(identityQueue)
    /\ UNCHANGED <<cacheVars, checkQueue, challenged, answers, arrived, verified,
                   phase>>
-----------------------------------------------------------------------------
Goto(s, pc) == resolver' = [resolver EXCEPT ![s] = pc]

Others == <<cacheVars, checkQueue, identityQueue, answers, arrived, verified,
            failed, phase>>

(* resolveSigner.  hasIdentity reads the cache, and what it returned may   *)
(* be stale at the next step.                                              *)
LookUp(s) ==
    /\ resolver[s] \in {"start", "poll"}
    /\ Goto(s, IF s \in entries THEN "replay"
               ELSE IF resolver[s] = "start" THEN "request" ELSE "absent")
    /\ UNCHANGED <<Others, parked, total, late, challenged>>

(* sendChallengeRequest fails when the output queue refuses the message.   *)
RequestIdentity(s, sent) ==
    /\ resolver[s] = "request"
    /\ Goto(s, IF sent THEN "poll" ELSE "fail")
    /\ challenged' = IF sent THEN challenged \cup {s} ELSE challenged
    /\ UNCHANGED <<Others, parked, total, late>>

(* The rest of the loop, under pendingMutex_: give up, or wait for a       *)
(* notification or the poll interval.                                      *)
WaitForever(s) ==
    /\ resolver[s] = "absent"
    /\ Goto(s, "poll")
    /\ UNCHANGED <<Others, parked, total, late, challenged>>

WaitForIdentity(s) ==
    /\ resolver[s] = "absent"
    /\ Goto(s, IF Stopping \/ s \in late THEN "fail" ELSE "poll")
    /\ UNCHANGED <<Others, parked, total, late, challenged>>

DeadlinePasses(s) ==
    /\ resolver[s] \in {"poll", "absent"} /\ s \notin late
    /\ late' = late \cup {s}
    /\ UNCHANGED <<Others, parked, total, resolver, challenged>>

(* drainSignerMessagesLocked.                                              *)
Drain(s) ==
    /\ parked' = [parked EXCEPT ![s] = <<>>]
    /\ total' = total - Len(parked[s])
    /\ Goto(s, "none")

(* replayMessages: back to the signature check.                            *)
ReplayReportsFailure(s) ==
    /\ resolver[s] = "replay"
    /\ checkQueue' = checkQueue \o parked[s]
    /\ failed' = failed \cup Range(parked[s])
    /\ Drain(s)
    /\ UNCHANGED <<cacheVars, identityQueue, late, challenged, answers, arrived,
                   verified, phase>>

ReplayMessages(s) ==
    /\ resolver[s] = "replay"
    /\ checkQueue' = checkQueue \o parked[s]
    /\ Drain(s)
    /\ UNCHANGED <<cacheVars, identityQueue, late, challenged, answers, arrived,
                   verified, failed, phase>>

(* failMessages: SIGNATURE_FAILED to each sender.                          *)
FailMessages(s) ==
    /\ resolver[s] = "fail"
    /\ SendSignatureFailure(Range(parked[s]))
    /\ Drain(s)
    /\ UNCHANGED <<cacheVars, checkQueue, identityQueue, late, challenged, answers,
                   arrived, verified, phase>>
-----------------------------------------------------------------------------
(* ~ResourceManager stops the two queues, whose workers then leave what is *)
(* queued, and ~MessageQueueRequestIdentity sets stopping_ and joins every *)
(* resolver thread.                                                        *)
Advance(from, to) ==
    /\ phase = from /\ phase' = to
    /\ UNCHANGED <<cacheVars, resolverVars, checkQueue, identityQueue, challenged,
                   answers, arrived, verified, failed>>

StopCheckQueue    == Advance("running", "checkStopped")
StopIdentityQueue == Advance("checkStopped", "queuesStopped")
SetStopping       == Advance("queuesStopped", "stopping")
JoinResolvers     == /\ \A s \in Signer : resolver[s] = "none"
                     /\ Advance("stopping", "joined")

ResolverStep(s) ==
    \/ LookUp(s)
    \/ \E sent \in BOOLEAN : RequestIdentity(s, sent)
    \/ WaitForIdentity(s)
    \/ ReplayMessages(s)
    \/ FailMessages(s)

Next ==
    \/ phase # "joined" /\ (\/ \E c \in CacheSizes : SetMaximumEntries(c)
                            \/ \E s \in Signer : ObserveIdentity(s) \/ Answer(s)
                            \/ \E m \in Msg : Receive(m))
    \/ CheckSignature \/ RejectSignature
    \/ Park
    \/ \E s \in Signer : ResolverStep(s) \/ DeadlinePasses(s)
    \/ StopCheckQueue \/ StopIdentityQueue \/ SetStopping \/ JoinResolvers

(* Worker and resolver threads keep running, and clocks advance.           *)
Fairness ==
    /\ WF_vars(CheckSignature \/ RejectSignature) /\ WF_vars(Park) /\ WF_vars(JoinResolvers)
    /\ \A s \in Signer : WF_vars(ResolverStep(s)) /\ WF_vars(DeadlinePasses(s))

Spec == Init /\ [][Next]_vars /\ Fairness
-----------------------------------------------------------------------------
(* The list and the map of IdentityCache describe the same nodes, each     *)
(* once, and never more than maximumEntries, whatever the order of         *)
(* observations and limit changes.                                         *)
CacheConsistent ==
    /\ Range(usageOrder) = entries
    /\ IsInjective(usageOrder)
    /\ Len(usageOrder) <= maximumEntries

(* The places of the parked messages: a signer and a position.             *)
Places == UNION {{s} \X DOMAIN parked[s] : s \in Signer}

(* The queues and tables keep their types, totalPendingMessages_ is the    *)
(* number of parked messages, and neither it nor a signer's share exceeds  *)
(* its limit.                                                              *)
PendingAccounted ==
    /\ TypeOK
    /\ total = Cardinality(Places)
    /\ MaxPending # 0 => total <= MaxPending
    /\ MaxPerSigner # 0 => \A s \in Signer : Len(parked[s]) <= MaxPerSigner

(* A signer has parked messages exactly while a thread is resolving it: no *)
(* message is parked behind a resolver that is gone, and no resolver finds *)
(* its entry erased by another one.                                        *)
ParkedIffResolving ==
    \A s \in Signer : parked[s] # <<>> <=> resolver[s] # "none"

Occurrences(m, q) == Cardinality({i \in DOMAIN q : q[i] = m})

(* Each received message is in one place: queued, parked, verified or      *)
(* rejected.  None is lost or gets two verdicts, through any number of     *)
(* rounds of parking and replaying.                                        *)
EachMessageOnce ==
    \A m \in Msg :
        Occurrences(m, checkQueue) + Occurrences(m, identityQueue)
          + Occurrences(m, parked[SignerOf[m]])
          + Cardinality({m} \cap verified) + Cardinality({m} \cap failed)
        = Cardinality({m} \cap arrived)

(* A parked message leaves the identity queue's care: its signer's         *)
(* resolver replays or fails it, also while the queue is being destroyed.  *)
ParkedIsResolved ==
    \A s \in Signer : parked[s] # <<>> ~> parked[s] = <<>>

(* The destructor's join returns.                                          *)
DestructionEnds == phase = "stopping" ~> phase = "joined"
=============================================================================
