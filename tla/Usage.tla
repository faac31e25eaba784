---------------------------------- MODULE Usage ----------------------------------
(***************************************************************************)
(* What one account uses and what is counted of it: the assistant           *)
(* (app/api/ai/chat/route.ts with lib/ai/limits.ts and the create_record    *)
(* tool of lib/ai/tools.ts) and the route that creates ERP documents        *)
(* (POST of app/api/erp/doc/route.ts with lib/metering.ts), both over       *)
(* ErpClient.                                                              *)
(*                                                                         *)
(* A chat reads this month's counters, talks to the model for some rounds,  *)
(* each with tool calls that run side by side, adds what it has used to the *)
(* counters of the month it ends in, and saves the conversation it has read *)
(* with its own turn added.  Nothing holds the quota in between.            *)
(*                                                                         *)
(* A round costs one token.  Every chat belongs to one conversation.  The   *)
(* model's answers are arbitrary.  A counter command whose reply is lost    *)
(* has been executed, or not, or twice: the Redis client sends unanswered   *)
(* commands again when it reconnects.  Bounds: each chat, post and call is  *)
(* used once; MaxTime; MaxFaults.                                           *)
(***************************************************************************)
EXTENDS ErpClient, Sequences

CONSTANTS
    Chats,
    Posts,
    MAX_ROUNDS,
    QUERY_LIMIT,   \* aiQueriesPerMonth
    TOKEN_LIMIT,   \* aiTokensPerMonth
    HISTORY,       \* messages kept of a conversation: 20
    MONTH,         \* length of a month
    USAGE_TTL,     \* EX of a month's counters: 35 days
    MaxTime,
    Null           \* a call nobody has made

ASSUME RoundsArePositive == MAX_ROUNDS \in Nat \ {0}
ASSUME LimitsArePositive == QUERY_LIMIT \in Nat \ {0} /\ TOKEN_LIMIT \in Nat \ {0}
ASSUME HistoryIsEven == HISTORY \in Nat \ {0} /\ HISTORY % 2 = 0
ASSUME CountersOutliveMonth == MONTH \in Nat \ {0} /\ USAGE_TTL \in Nat /\ USAGE_TTL > MONTH
ASSUME TimeIsBounded == MaxTime \in Nat
ASSUME ChatsAreFinite == IsFiniteSet(Chats) /\ IsFiniteSet(Posts) /\ IsFiniteSet(Creates)

Message == [role: {"user", "assistant"}, chat: Chats]

\* A chat: the month whose counters it read, the tokens it has used, the history it has read.
Chat == [pc: {"new", "tokens", "history", "model", "tools", "record", "save",
              "answered", "denied", "failed"},
         month: Nat, queries: Nat, round: Nat, tokens: Nat, history: Seq(Message)]

\* The counters of a month, and when they expire (0: there are none).
Counters == [queries: Nat, tokens: Nat, until: Nat]

VARIABLES
    now,
    usage,        \* usage[m]: the hash ai:usage:{account}:{m}
    chat,
    conversation, \* the messages saved in Redis
    owner,        \* owner[c]: the chat or post that made call c
    post,
    metered,      \* erp_docs_created
    \* History: written, never read, by the actions.
    spent,        \* spent[c]: rounds of the model chat c has had
    charged,      \* charged[c]: the month in which the use of c was recorded (-1: not)
    earlier,      \* earlier[c]: chats recorded when c read the counters
    unsure        \* chats and posts whose counters were hit by a fault

history == <<spent, charged, earlier, unsure>>
counters == <<usage, metered>>
vars == <<now, erp, faults, counters, chat, conversation, owner, post, history>>

Months == 0..(MaxTime \div MONTH)
ThisMonth == now \div MONTH

Never == MaxTime + USAGE_TTL + 1

TypeOK ==
    /\ ErpTypeOK
    /\ now \in Nat
    /\ usage \in [Months -> Counters]
    /\ chat \in [Chats -> Chat]
    /\ conversation \in Seq(Message)
    /\ owner \in [Creates -> Chats \cup Posts \cup {Null}]
    /\ post \in [Posts -> {"new", "waiting", "metering", "created", "failed"}]
    /\ metered \in Nat
    /\ spent \in [Chats -> Nat]
    /\ charged \in [Chats -> Months \cup {-1}]
    /\ earlier \in [Chats -> SUBSET Chats]
    /\ unsure \in SUBSET (Chats \cup Posts)

NoCounters == [queries |-> 0, tokens |-> 0, until |-> 0]

Init ==
    /\ ErpInit
    /\ now = 0
    /\ usage = [m \in Months |-> NoCounters]
    /\ chat = [c \in Chats |-> [pc |-> "new", month |-> 0, queries |-> 0, round |-> 0,
                                tokens |-> 0, history |-> <<>>]]
    /\ conversation = <<>>
    /\ owner = [c \in Creates |-> Null]
    /\ post = [p \in Posts |-> "new"]
    /\ metered = 0
    /\ spent = [c \in Chats |-> 0]
    /\ charged = [c \in Chats |-> -1]
    /\ earlier = [c \in Chats |-> {}]
    /\ unsure = {}

At(c, pc) == chat[c].pc = pc
Go(c, pc) == chat' = [chat EXCEPT ![c].pc = pc]

-----------------------------------------------------------------------------
(* The quota *)

\* getAiUsage, first command: the key is that of the present month.
ReadQueries(c) ==
    /\ At(c, "new")
    /\ chat' = [chat EXCEPT ![c].pc = "tokens", ![c].month = ThisMonth,
                            ![c].queries = usage[ThisMonth].queries]
    /\ earlier' = [earlier EXCEPT ![c] = {d \in Chats : charged[d] # -1}]
    /\ UNCHANGED <<now, erp, faults, counters, conversation, owner, post, spent, charged, unsure>>

\* Second command, and the verdict of checkAiLimit.
ReadTokensOneMore(c) ==
    /\ At(c, "tokens")
    /\ Go(c, IF chat[c].queries <= QUERY_LIMIT /\ usage[chat[c].month].tokens < TOKEN_LIMIT
             THEN "history" ELSE "denied")
    /\ UNCHANGED <<now, erp, faults, counters, conversation, owner, post, history>>
ReadTokens(c) ==
    /\ At(c, "tokens")
    /\ Go(c, IF chat[c].queries < QUERY_LIMIT /\ usage[chat[c].month].tokens < TOKEN_LIMIT
             THEN "history" ELSE "denied")
    /\ UNCHANGED <<now, erp, faults, counters, conversation, owner, post, history>>

\* getHistory.
ReadHistory(c) ==
    /\ At(c, "history")
    /\ chat' = [chat EXCEPT ![c].pc = "model", ![c].history = conversation]
    /\ UNCHANGED <<now, erp, faults, counters, conversation, owner, post, history>>

\* Redis or the model does not answer: nothing catches it, and the route answers 500.
ChatFails(c) ==
    /\ At(c, "tokens") \/ At(c, "history") \/ At(c, "model")
    /\ Fault
    /\ Go(c, "failed")
    /\ UNCHANGED <<now, erp, counters, conversation, owner, post, history>>

-----------------------------------------------------------------------------
(* The rounds *)

AfterRound(c) == IF chat[c].round + 1 = MAX_ROUNDS THEN "record" ELSE "model"

\* The model answers.  It ends the turn, asks for tool calls, or stops for another reason, in
\* which case the loop asks it again.
ModelEnds(c) ==
    /\ At(c, "model")
    /\ spent' = [spent EXCEPT ![c] = @ + 1]
    /\ chat' = [chat EXCEPT ![c].tokens = @ + 1, ![c].pc = "record"]
    /\ UNCHANGED <<now, erp, faults, owner, counters, conversation, post, charged, earlier, unsure>>
ModelStops(c) ==
    /\ At(c, "model")
    /\ spent' = [spent EXCEPT ![c] = @ + 1]
    /\ chat' = [chat EXCEPT ![c].tokens = @ + 1, ![c].round = @ + 1, ![c].pc = AfterRound(c)]
    /\ UNCHANGED <<now, erp, faults, owner, counters, conversation, post, charged, earlier, unsure>>
ModelCalls(c) ==
    /\ At(c, "model")
    /\ \E calls \in SUBSET {d \in Creates : client[d] = "idle"} :
        /\ calls # {}
        /\ CallErp(calls)
        /\ owner' = [d \in Creates |-> IF d \in calls THEN c ELSE owner[d]]
    /\ spent' = [spent EXCEPT ![c] = @ + 1]
    /\ chat' = [chat EXCEPT ![c].tokens = @ + 1, ![c].pc = "tools"]
    /\ UNCHANGED <<now, faults, counters, conversation, post, charged, earlier, unsure>>

\* Every call of the round has returned; a failed one is told to the model as text.
ToolsReturn(c) ==
    /\ At(c, "tools")
    /\ \A d \in Creates : owner[d] = c => client[d] # "waiting"
    /\ chat' = [chat EXCEPT ![c].round = @ + 1, ![c].pc = AfterRound(c)]
    /\ UNCHANGED <<now, erp, faults, counters, conversation, owner, post, history>>

-----------------------------------------------------------------------------
(* Recording and saving *)

\* q chats and t times the tokens of c are added to the present month, and its expiry is put off,
\* or stays what it was, which for a new hash is never.
Charge(c, q, t, expire) ==
    usage' = [usage EXCEPT ![ThisMonth] =
        [queries |-> @.queries + q,
         tokens |-> @.tokens + t * chat[c].tokens,
         until |-> CASE expire /\ (@.until # 0 \/ q + t # 0) -> now + USAGE_TTL
                     [] ~expire /\ @.until = 0 /\ q + t # 0 -> Never
                     [] OTHER -> @.until]]

\* recordAiUsage: three commands, sent to Redis together.
Record(c) ==
    /\ At(c, "record")
    /\ Charge(c, 1, 1, TRUE)
    /\ charged' = [charged EXCEPT ![c] = ThisMonth]
    /\ Go(c, "save")
    /\ UNCHANGED <<now, erp, faults, metered, conversation, owner, post, spent, earlier, unsure>>

\* The replies are lost: commands are missing or repeated, and the route may answer 500.
RecordBreaks(c) ==
    /\ At(c, "record")
    /\ Fault
    /\ \E q, t \in 0..2, expire \in BOOLEAN : Charge(c, q, t, expire)
    /\ unsure' = unsure \cup {c}
    /\ Go(c, "save") \/ Go(c, "failed")
    /\ UNCHANGED <<now, erp, metered, conversation, owner, post, spent, charged, earlier>>

\* The last n messages.
LastMessages(s, n) == SubSeq(s, IF Len(s) > n THEN Len(s) - n + 1 ELSE 1, Len(s))

\* saveHistory: the history c has read, with its own turn.
SaveOddHistory(c) ==
    /\ At(c, "save")
    /\ conversation' = LastMessages(chat[c].history
           \o <<[role |-> "user", chat |-> c], [role |-> "assistant", chat |-> c]>>, HISTORY - 1)
    /\ Go(c, "answered")
    /\ UNCHANGED <<now, erp, faults, counters, owner, post, history>>
Save(c) ==
    /\ At(c, "save")
    /\ conversation' = LastMessages(chat[c].history
           \o <<[role |-> "user", chat |-> c], [role |-> "assistant", chat |-> c]>>, HISTORY)
    /\ Go(c, "answered")
    /\ UNCHANGED <<now, erp, faults, counters, owner, post, history>>

\* Redis does not answer: a chat that was charged for is answered 500.
SaveFails(c) ==
    /\ At(c, "save")
    /\ Fault
    /\ Go(c, "failed")
    /\ UNCHANGED <<now, erp, counters, conversation, owner, post, history>>

-----------------------------------------------------------------------------
(* Creating documents *)

BeginPost(p) ==
    /\ post[p] = "new"
    /\ \E d \in Creates :
        /\ CallErp({d})
        /\ owner' = [owner EXCEPT ![d] = p]
    /\ post' = [post EXCEPT ![p] = "waiting"]
    /\ UNCHANGED <<now, faults, counters, chat, conversation, history>>

\* 200, or 502 with the error of the ERP system; only a success goes on to be metered.
AnswerPostAlways(p) ==
    /\ post[p] = "waiting"
    /\ \E d \in Creates :
        /\ owner[d] = p /\ client[d] # "waiting"
        /\ post' = [post EXCEPT ![p] = "metering"]
    /\ UNCHANGED <<now, erp, faults, counters, chat, conversation, owner, history>>
AnswerPost(p) ==
    /\ post[p] = "waiting"
    /\ \E d \in Creates :
        /\ owner[d] = p /\ client[d] # "waiting"
        /\ post' = [post EXCEPT ![p] = IF client[d] = "created" THEN "metering" ELSE "failed"]
    /\ UNCHANGED <<now, erp, faults, counters, chat, conversation, owner, history>>

\* meter.increment, which the answer does not wait for.
Meter(p) ==
    /\ post[p] = "metering"
    /\ metered' = metered + 1
    /\ post' = [post EXCEPT ![p] = "created"]
    /\ UNCHANGED <<now, erp, faults, usage, chat, conversation, owner, history>>

MeterBreaks(p) ==
    /\ post[p] = "metering"
    /\ Fault
    /\ \E n \in {0, 2} : metered' = metered + n
    /\ post' = [post EXCEPT ![p] = "created"]
    /\ unsure' = unsure \cup {p}
    /\ UNCHANGED <<now, erp, usage, chat, conversation, owner, spent, charged, earlier>>

-----------------------------------------------------------------------------

\* An hour without a message: Redis drops the conversation.
ExpireConversation ==
    /\ conversation # <<>>
    /\ conversation' = <<>>
    /\ UNCHANGED <<now, erp, faults, counters, chat, owner, post, history>>

\* The two reads of a quota are sent together: the answer to the second, or its failure, comes
\* before the month that follows the first can have taken its counters away, days later.
ReadsAreAnswered(t) == \A c \in Chats : At(c, "tokens") => t < chat[c].month * MONTH + USAGE_TTL

\* Time passes; Redis drops counters that expire.
Tick ==
    /\ now < MaxTime
    /\ ReadsAreAnswered(now + 1)
    /\ now' = now + 1
    /\ usage' = [m \in Months |-> IF usage[m].until <= now' THEN NoCounters ELSE usage[m]]
    /\ UNCHANGED <<erp, faults, metered, chat, conversation, owner, post, history>>

ErpWorks(c) ==
    /\ ErpStep(c)
    /\ UNCHANGED <<now, counters, chat, conversation, owner, post, history>>

ChatStep(c) ==
    \/ ReadQueries(c)
    \/ ReadTokens(c)
    \/ ReadHistory(c)
    \/ ChatFails(c)
    \/ ModelEnds(c)
    \/ ModelStops(c)
    \/ ModelCalls(c)
    \/ ToolsReturn(c)
    \/ Record(c)
    \/ RecordBreaks(c)
    \/ Save(c)
    \/ SaveFails(c)

PostStep(p) ==
    \/ BeginPost(p)
    \/ AnswerPost(p)
    \/ Meter(p)
    \/ MeterBreaks(p)

Next ==
    \/ \E c \in Chats : ChatStep(c)
    \/ \E p \in Posts : PostStep(p)
    \/ \E c \in Creates : ErpWorks(c)
    \/ ExpireConversation
    \/ Tick

Spec == Init /\ [][Next]_vars

-----------------------------------------------------------------------------
(* Properties *)

Admitted(c) == chat[c].pc \notin {"new", "tokens", "denied", "failed"}

\* A round is a token.
Rounds(chats) == UNION {{c} \X (1..spent[c]) : c \in chats}
SpentBy(chats) == Cardinality(Rounds(chats))

\* The quota holds for chats that follow one another: a chat is admitted only while fewer chats
\* than QUERY_LIMIT, with fewer tokens than TOKEN_LIMIT, had been recorded in that month when it
\* asked, unless the commands of one of them were lost; concurrent chats may pass on the same
\* count, and only they.
QuotaHoldsInSequence ==
    \A c \in Chats : Admitted(c) =>
        LET before == {d \in earlier[c] : charged[d] = chat[c].month}
        IN  before \cap unsure = {} =>
                Cardinality(before) < QUERY_LIMIT /\ SpentBy(before) < TOKEN_LIMIT

\* While no counter command was lost, a month's counters, as long as they exist, are the chats
\* recorded in it with all the rounds they had, a chat that was charged and not answered among
\* them, and the meter is the posts whose document the ERP system has acknowledged: nothing is
\* charged twice or left out whatever retries, failures or a change of month do in between.
CountersAreExact ==
    unsure = {} =>
        /\ \A m \in Months : usage[m].until # 0 =>
            LET recorded == {c \in Chats : charged[c] = m}
            IN  /\ usage[m].queries = Cardinality(recorded)
                /\ usage[m].tokens = SpentBy(recorded)
        /\ metered = Cardinality({p \in Posts : post[p] = "created"
                                    /\ \E d \in Creates : owner[d] = p /\ client[d] = "created"})

\* However chats overlap, the saved conversation is whole turns, each the question and the answer
\* of one chat that was charged for, so that what the next chat sends begins with a question.
ConversationIsWhole ==
    /\ Len(conversation) <= HISTORY /\ Len(conversation) % 2 = 0
    /\ \A i \in 1..(Len(conversation) \div 2) :
        LET question == conversation[2 * i - 1]
            answer == conversation[2 * i]
        IN  /\ question.role = "user" /\ answer.role = "assistant"
            /\ question.chat = answer.chat
            /\ At(question.chat, "answered")

=============================================================================
