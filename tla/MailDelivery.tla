---------------------------- MODULE MailDelivery ----------------------------
(***************************************************************************)
(* From a request that wants a message sent, or a click counted, to the    *)
(* mail server: the two task queues (Celery, and the one that works inside *)
(* the request), the task with its bounded retries, the templates, one set *)
(* per language, and the SMTP conversation.  Whatever a server does,       *)
(* including failing the QUIT that follows an accepted message, is a       *)
(* choice of the environment.                                              *)
(***************************************************************************)
EXTENDS Naturals, FiniteSets

CONSTANTS Jobs,         \* one task each
          Languages,
          MaxRetries    \* max_retries of the tasks

Modes == {"plain", "starttls", "ssl"}

VARIABLES
  queue,      \* "celery" or "null"
  mode,       \* how the mailer is configured: use_tls, use_ssl
  account,    \* a username is configured
  broker,     \* the broker accepts a task
  failedAt,   \* _failed_at: "never", or whether the retry interval is over
  envs,       \* languages whose environment is built
  job,        \* per job: its progress
  tries       \* history: clicks tried in the current interval of an outage

vars == <<queue, mode, account, broker, failedAt, envs, job, tries>>
config == <<queue, mode, account>>

\* state: of the task; at: the step of the SMTP conversation; link: the
\* connection; sent, spoke: history, messages accepted and their languages.
New == [state |-> "new", kind |-> "mail", at |-> "none", link |-> "none",
        runs |-> 0, told |-> FALSE, lang |-> "none", env |-> "none",
        sent |-> 0, spoke |-> {}]

Init ==
  /\ queue \in {"celery", "null"} /\ mode \in Modes /\ account \in BOOLEAN
  /\ broker = TRUE /\ failedAt = "never" /\ envs = {}
  /\ job = [j \in Jobs |-> New] /\ tries = 0

Set(j, r) == job' = [job EXCEPT ![j] = r]

-----------------------------------------------------------------------------
(* Enqueueing *)

\* A message is published once; the caller is told whether it was.
EnqueueMail(j, l) ==
  /\ job[j].state = "new" /\ queue = "celery"
  /\ Set(j, IF broker THEN [New EXCEPT !.state = "queued", !.lang = l, !.told = TRUE]
                      ELSE [New EXCEPT !.state = "refused", !.lang = l])
  /\ UNCHANGED <<config, broker, failedAt, envs, tries>>

\* NullTaskQueue sends inside the request, and there is no retry.
SendInline(j, l) ==
  /\ job[j].state = "new" /\ queue = "null"
  /\ Set(j, [New EXCEPT !.state = "running", !.lang = l, !.at = "env", !.runs = 1])
  /\ UNCHANGED <<config, broker, failedAt, envs, tries>>

Claimed == IF failedAt = "over" THEN "running" ELSE failedAt

\* While the broker is known to be away a click is dropped, and that changes
\* nothing.
ClaimClick(j) ==
  /\ job[j].state = "new" /\ queue = "celery"
  /\ failedAt # "running"
  /\ failedAt' = Claimed
  /\ tries' = IF failedAt = "over" /\ tries < 2 THEN tries + 1 ELSE tries
  /\ Set(j, [New EXCEPT !.state = "publish", !.kind = "click"])
  /\ UNCHANGED <<config, broker, envs>>

PublishClick(j) ==
  /\ job[j].state = "publish"
  /\ Set(j, [job[j] EXCEPT !.state = IF broker THEN "published" ELSE "unpublished"])
  /\ UNCHANGED <<config, broker, failedAt, envs, tries>>

\* Nothing is remembered of a click that was handed over, or dropped.
NotePublished(j) ==
  /\ job[j].state \in {"published", "unpublished"}
  /\ failedAt' = IF job[j].state = "published" THEN "never" ELSE "running"
  /\ Set(j, New)
  /\ UNCHANGED <<config, broker, envs, tries>>

-----------------------------------------------------------------------------
(* The task *)

StartTask(j) ==
  /\ job[j].state = "queued"
  /\ Set(j, [job[j] EXCEPT !.state = "running", !.at = "env",
                             !.runs = IF @ > MaxRetries THEN @ ELSE @ + 1])
  /\ UNCHANGED <<config, broker, failedAt, envs, tries>>

\* Slip: the last retry is not made.
MayRetry_Early(j) == job[j].runs < MaxRetries

MayRetry(j) == job[j].runs <= MaxRetries

\* MailDeliveryError: logged, and retried by the task; in the request it is
\* the end of the message and the answer is False.
AfterFailure(j, link) ==
  [job[j] EXCEPT
     !.at = "none", !.link = link, !.env = "none",
     !.state = IF queue = "celery" /\ MayRetry(j) THEN "queued" ELSE "failed"]

AfterSuccess(j) ==
  [job[j] EXCEPT !.at = "none", !.link = "none", !.env = "none",
                 !.state = "done", !.told = TRUE]

\* The worker dies in the middle of a task it has already acknowledged.
WorkerDies(j) ==
  /\ queue = "celery" /\ job[j].state = "running"
  /\ Set(j, [job[j] EXCEPT !.state = "lost", !.at = "none", !.link = "none", !.env = "none"])
  /\ UNCHANGED <<config, broker, failedAt, envs, tries>>

-----------------------------------------------------------------------------
(* JinjaMailTemplates: one environment per language, built on first use *)

Environments(l) == envs \cup {l}

TakeEnvironment(j) ==
  /\ job[j].state = "running" /\ job[j].at = "env"
  /\ envs' = Environments(job[j].lang)
  /\ Set(j, [job[j] EXCEPT !.at = "render", !.env = job[j].lang])
  /\ UNCHANGED <<config, broker, failedAt, tries>>

\* The catalogue an environment speaks with when it renders.
Voice(j) == IF job[j].env \in envs THEN {job[j].env} ELSE envs

Render(j) ==
  /\ job[j].state = "running" /\ job[j].at = "render"
  /\ Set(j, [job[j] EXCEPT !.at = "dial", !.spoke = @ \cup Voice(j)])
  /\ UNCHANGED <<config, broker, failedAt, envs, tries>>

-----------------------------------------------------------------------------
(* SMTPMailer.send *)

Dial(j) ==
  /\ job[j].state = "running" /\ job[j].at = "dial"
  /\ \/ Set(j, AfterFailure(j, "none"))
     \/ Set(j, [job[j] EXCEPT !.at = IF mode = "ssl" THEN "login" ELSE "greet",
                              !.link = IF mode = "ssl" THEN "secret" ELSE "open"])
  /\ UNCHANGED <<config, broker, failedAt, envs, tries>>

\* _discard: quit, or close.
Discard == "none"

\* starttls when it is asked for, and ehlo; a failure discards the socket.
Greet(j) ==
  /\ job[j].state = "running" /\ job[j].at = "greet"
  /\ \/ Set(j, AfterFailure(j, Discard))
     \/ Set(j, [job[j] EXCEPT !.at = "login",
                              !.link = IF mode = "starttls" THEN "secret" ELSE "open"])
  /\ UNCHANGED <<config, broker, failedAt, envs, tries>>

MayAuthenticate(j) == job[j].link = "secret"

\* The connection is closed by the with block, whatever happens in it.
Authenticate(j) ==
  /\ job[j].state = "running" /\ job[j].at = "login"
  /\ \/ /\ ~account /\ Set(j, [job[j] EXCEPT !.at = "message"])
     \/ /\ account /\ MayAuthenticate(j) /\ Set(j, [job[j] EXCEPT !.at = "entered"])
     \/ /\ account /\ Set(j, AfterFailure(j, "none"))
  /\ UNCHANGED <<config, broker, failedAt, envs, tries>>

SendMessage(j) ==
  /\ job[j].state = "running" /\ job[j].at \in {"message", "entered"}
  /\ \/ Set(j, AfterFailure(j, "none"))
     \/ Set(j, [job[j] EXCEPT !.at = "quit", !.sent = IF @ > MaxRetries THEN @ ELSE @ + 1])
  /\ UNCHANGED <<config, broker, failedAt, envs, tries>>

\* Leaving the with block sends QUIT, and its failure is a failure of send.
Quit(j) ==
  /\ job[j].state = "running" /\ job[j].at = "quit"
  /\ \/ Set(j, AfterFailure(j, "none"))
     \/ Set(j, AfterSuccess(j))
  /\ UNCHANGED <<config, broker, failedAt, envs, tries>>

-----------------------------------------------------------------------------

BrokerChanges ==
  /\ queue = "celery" /\ broker' = ~broker
  /\ UNCHANGED <<config, failedAt, envs, job, tries>>

IntervalPasses ==
  /\ failedAt = "running" /\ failedAt' = "over" /\ tries' = 0
  /\ UNCHANGED <<config, broker, envs, job>>

Work(j) ==
  \/ PublishClick(j) \/ NotePublished(j) \/ StartTask(j)
  \/ TakeEnvironment(j) \/ Render(j) \/ Dial(j) \/ Greet(j)
  \/ Authenticate(j) \/ SendMessage(j) \/ Quit(j)

Next ==
  \/ \E j \in Jobs, l \in Languages : EnqueueMail(j, l) \/ SendInline(j, l)
  \/ \E j \in Jobs : ClaimClick(j) \/ Work(j) \/ WorkerDies(j)
  \/ BrokerChanges \/ IntervalPasses

Spec == Init /\ [][Next]_vars
FairSpec == Spec /\ \A j \in Jobs : WF_vars(Work(j))

-----------------------------------------------------------------------------
(* Properties *)

\* Type invariant.
TypeOK ==
  /\ failedAt \in {"never", "running", "over"} /\ envs \subseteq Languages
  /\ {broker, account} \subseteq BOOLEAN /\ tries \in 0 .. 2
  /\ \A j \in Jobs :
       /\ job[j].state \in {"new", "publish", "published", "unpublished", "queued",
                            "running", "refused", "done", "failed", "lost"}
       /\ job[j].at \in {"none", "env", "render", "dial", "greet", "login",
                         "message", "entered", "quit"}
       /\ job[j].runs \in 0 .. (MaxRetries + 1)
       /\ job[j].sent \in 0 .. (MaxRetries + 1)

\* The password of the mail account never crosses a connection that is not
\* encrypted, whatever the settings say (_require_encrypted).
LoginIsSecret ==
  \A j \in Jobs : job[j].at = "entered" => job[j].link = "secret"

\* No socket outlives the attempt it was opened for, the attempts that fail
\* before the with block is entered included (_connect, _discard).
NoSocketLeft ==
  \A j \in Jobs : job[j].state # "running" => job[j].link = "none"

\* A message counts as sent only if a server took it, and it is given up
\* only after the first attempt and every retry failed.  It may be sent
\* more than once, when the failure came after the server took it, but
\* never more often than it was tried.
SentOrExhausted ==
  \A j \in Jobs : job[j].kind = "mail" =>
    /\ job[j].sent <= job[j].runs
    /\ job[j].state = "done" => job[j].sent >= 1
    /\ (job[j].state = "failed" /\ queue = "celery") => job[j].runs = MaxRetries + 1

\* A message is written in the language of the request that caused it, also
\* while other messages are rendered beside it (JinjaMailTemplates).
SpokenAsAsked == \A j \in Jobs : job[j].spoke \subseteq {job[j].lang}

\* While the broker is away one click per interval pays for finding out.
OneTryPerInterval == tries <= 1

\* Whatever was accepted for sending is finished: sent, given up, or lost
\* with its worker; a task is not retried for ever.
AcceptedEnds ==
  \A j \in Jobs : (job[j].state = "queued") ~> (job[j].state \in {"done", "failed", "lost"})
=============================================================================
