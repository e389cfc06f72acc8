----------------------------- MODULE SpeechProofs -----------------------------
(***************************************************************************)
(* Proofs about SpeechRequests for any finite sets of requests and any     *)
(* number of attempts, with and without the handoff.  Everything follows   *)
(* from one inductive invariant, IInv.                                     *)
(***************************************************************************)
EXTENDS SpeechRequests, FiniteSetTheorems, TLAPS

(***************************************************************************)
(* The inductive invariant, in parts.                                      *)
(***************************************************************************)

(* The phases of a request that has the lane.                              *)
OwnerPhases == {"calming", "sanitizing", "draining", "granted", "returning", "handingBack",
                "starting", "linking", "using", "kept", "dropping", "stopping", "deleting",
                "speaking", "closing", "startup", "halting", "serving", "leaving"}

(* Who is in which phase, and what each phase has at hand.                 *)
PhaseInv ==
    /\ \A r \in Requests : owner = r <=> pc[r] \in OwnerPhases
    /\ \A r \in Requests : held[r] # None =>
          /\ r \in Synthesizers
          /\ pc[r] \in {"calming", "sanitizing", "granted", "speaking", "closing",
                        "returning", "handingBack"}
    /\ \A r \in Requests : pc[r] \in {"sanitizing", "speaking", "closing"} => held[r] # None
    /\ \A r \in Requests : pc[r] \in {"calming", "draining"} => parting[r] # None
    /\ \A r \in Requests : pc[r] \in {"calming", "sanitizing"} /\ held[r] # None =>
          held[r] = parting[r]
    /\ \A r \in Requests : pc[r] \in {"starting", "linking", "using", "stopping", "deleting"} =>
          r \notin Talkers
    /\ \A r \in Requests : pc[r] \in {"kept", "dropping"} => r \in Transcribers
    /\ \A r \in Requests : pc[r] \in {"startup", "halting", "serving", "leaving"} => r \in Talkers
    /\ \A r \in Requests : pc[r] \in {"linking", "using", "kept", "dropping", "stopping"} =>
          front[r] # None
    /\ \A r \in Requests : pc[r] = "starting" => ask[r] # None

(* No attempt is begun beyond the last.                                    *)
AttemptInv == \A r \in Transcribers :
    /\ pc[r] \in {"idle", "asking", "queued", "calming", "draining"} => attempts[r] = 0
    /\ pc[r] = "granted" => attempts[r] < MaxAttempts

(* How a startup and its handler keep step.                                *)
TalkInv == \A r \in Talkers :
    /\ pc[r] \in {"idle", "reading", "asking", "queued", "calming", "draining", "granted"} =>
          startup[r] = "off" /\ r \notin abandoned
    /\ pc[r] = "startup" => r \notin abandoned /\ startup[r] \notin {"off", "winding"}
    /\ pc[r] = "halting" => r \in abandoned /\ startup[r] \notin {"off", "exec", "front"}
    /\ startup[r] \in {"exec", "front"} =>
          front[r] = None /\ ask[r] # None /\ (r \notin abandoned => pc[r] = "startup")
    /\ startup[r] = "exec" => exec[r] = None
    /\ startup[r] \in {"link", "settle"} =>
          front[r] # None /\ pc[r] = IF r \in abandoned THEN "halting" ELSE "startup"
    /\ startup[r] = "winding" => r \in abandoned

(* While a request has the lane, what may be closing and on offer.         *)
CleanInv ==
    /\ \A r \in Requests :
          pc[r] \in OwnerPhases \ {"returning", "handingBack"} => offer = None
    /\ \A r \in Requests :
          pc[r] \in {"sanitizing", "granted", "starting", "linking", "using", "kept", "stopping",
                     "deleting", "speaking", "startup", "halting", "serving", "leaving"} =>
              cleaning = {}
    /\ \A r \in Requests : pc[r] = "calming" =>
          cleaning \subseteq {parting[r]} /\ (held[r] # None => cleaning = {})
    /\ \A r \in Requests : pc[r] = "draining" => cleaning \subseteq {parting[r]}
    /\ \A r \in Requests : pc[r] = "closing" => cleaning \subseteq {held[r]}
    /\ \A r \in Requests : pc[r] = "dropping" => cleaning \subseteq {front[r]}

Still(t) == link[t] \notin {"opening", "closing"}

(* What is being set up or torn down is with the request that does it.     *)
StillInv ==
    /\ \A t \in cleaning : Still(t)
    /\ offer # None => Still(offer)
    /\ \A r \in Requests : held[r] # None => Still(held[r])
    /\ \A r \in Requests : pc[r] \in {"using", "kept"} => Still(front[r])
    /\ \A t \in Threads : link[t] = "closing" => \E r \in Requests : pc[r] = "stopping"

(* Where the one transport that is up may be.                              *)
UpInv == \A t \in Threads : Up(t) =>
    /\ owner = NoOne => t = offer \/ t \in cleaning
    /\ \A r \in Requests :
          /\ pc[r] \notin {"starting", "deleting"}
          /\ pc[r] \in {"linking", "using", "kept", "stopping", "dropping", "serving"} =>
                t = front[r]
          /\ pc[r] \in {"calming", "draining"} => t = parting[r]
          /\ pc[r] = "calming" /\ held[r] = None => t \in cleaning
          /\ pc[r] \in {"draining", "closing", "dropping"} => t \in cleaning
          /\ pc[r] \in {"granted", "sanitizing", "speaking", "closing"} => t = held[r]
          /\ pc[r] = "returning" => t = offer \/ t = held[r] \/ t \in cleaning
          /\ pc[r] = "handingBack" => t = offer \/ t \in cleaning
    /\ \A r \in Talkers :
          /\ pc[r] = "startup" => startup[r] \notin {"exec", "front"} /\ t = front[r]
          /\ pc[r] = "halting" => IF startup[r] = "winding" THEN t \in scrub[r]["startup"]
                                  ELSE t = front[r]
          /\ pc[r] = "leaving" => t \in scrub[r]["handler"]

(* A session that was stirred shows it, until nobody may speak on it.      *)
Shows(t) == t \in unread \cup invalid \/ dog[t] \in {"leaving", "cancelledLate", "late"}
QuietInv ==
    /\ \A t \in Threads : thread[t] = "none" => dog[t] = "none"
    /\ \A t \in stirred : dog[t] # "none"
    /\ \A r \in Requests : pc[r] = "starting" =>
          dog[ask[r]] = "none" /\ thread[ask[r]] # "none"
    /\ \A r \in Requests : pc[r] \in {"linking", "using", "kept"} =>
          dog[front[r]] = "none" /\ thread[front[r]] # "none"
    /\ offer # None => dog[offer] # "none" /\ (offer \in stirred => Shows(offer))
    /\ \A r \in Requests : held[r] # None =>
          /\ dog[held[r]] # "none"
          /\ pc[r] = "calming" /\ held[r] \in stirred => Shows(held[r])
          /\ pc[r] \in {"sanitizing", "granted", "speaking"} => dog[held[r]] \in {"done", "late"}
          /\ pc[r] \in {"sanitizing", "granted"} /\ held[r] \in stirred =>
                held[r] \in unread \/ dog[held[r]] = "late"
          /\ pc[r] = "speaking" /\ dog[held[r]] # "late" => held[r] \notin stirred

(* A thread asked for is waited for by one request.                        *)
AskInv ==
    /\ \A r \in Requests : ask[r] # None => thread[ask[r]] = "asked"
    /\ \A r, q \in Requests : ask[r] # None /\ ask[r] = ask[q] => r = q
    /\ \A t \in Threads : thread[t] = "asked" => \E r \in Requests : t = ask[r]

(* A thread the bridge knows has an owner who will delete it, and nothing  *)
(* else has one.                                                           *)
Kept(t) ==
    \/ t = offer \/ t \in cleaning
    \/ \E r \in Requests : t = front[r] \/ t = exec[r] \/ t = held[r]
    \/ \E r \in Talkers, who \in Starters : t \in scrub[r][who]
KeptInv == \A t \in Threads :
    /\ Kept(t) => thread[t] \in {"live", "deleted"}
    /\ thread[t] = "live" => Kept(t)

(* What is let go is deleted, or is with the task that deletes it.         *)
Gone(t) == t \in cleaning \/ thread[t] = "deleted"
GoneInv == \A r \in Requests :
    /\ pc[r] = "calming" /\ held[r] = None => Gone(parting[r])
    /\ pc[r] \in {"closing", "handingBack"} /\ held[r] # None => Gone(held[r])
    /\ pc[r] = "dropping" => Gone(front[r])
    /\ pc[r] = "deleting" => front[r] # None /\ thread[front[r]] = "deleted"

(* What a request has while nobody uses it.                                *)
RestInv ==
    /\ \A r \in Requests \ Talkers :
          /\ exec[r] = None
          /\ ask[r] # None => pc[r] = "starting"
          /\ front[r] # None => pc[r] \in {"linking", "using", "kept", "dropping", "stopping",
                                           "deleting"}
    /\ \A r \in Talkers :
          /\ ask[r] # None => startup[r] \in {"exec", "front"}
          /\ front[r] # None => pc[r] \in {"startup", "halting", "serving"}
          /\ exec[r] # None => startup[r] \in {"exec", "front"}
                               \/ pc[r] \in {"startup", "halting", "serving"}

(* What each stage of the end of the bridge has done stays done.           *)
BridgeInv ==
    /\ bridge # "up" => offer = None /\ \A r \in Requests : pc[r] \in {"idle", "done"}
    /\ bridge \in {"startups", "providers", "down"} => cleaning = {}
    /\ bridge \in {"providers", "down"} => \A r \in Talkers : ~Starting(r)
    /\ bridge = "down" => \A r \in Talkers : Scrubbed(r)

(* What is with an owner is live until the owner has it deleted, its       *)
(* deletion is asked for once, and no transport outlives its thread.       *)
LiveInv ==
    /\ offer # None => thread[offer] = "live"
    /\ \A t \in cleaning : thread[t] = "live"
    /\ \A r \in Requests : exec[r] # None => thread[exec[r]] = "live"
    /\ \A r \in Requests : front[r] # None /\ pc[r] \notin {"deleting", "dropping"} =>
          thread[front[r]] = "live"
    /\ \A r \in Requests : held[r] # None /\ pc[r] \notin {"closing", "handingBack"} =>
          thread[held[r]] = "live"
    /\ \A r \in Talkers, who \in Starters : \A t \in scrub[r][who] : thread[t] = "live"
    /\ \A t \in Threads : Up(t) => thread[t] = "live"
    /\ again = {}

(* The transport of a session that is, or was, on offer is open or closed. *)
LinkInv ==
    /\ \A t \in Threads : thread[t] \in {"none", "asked"} => dog[t] = "none"
    /\ \A t \in Threads : dog[t] # "none" => link[t] \in {"open", "closed", "cut"}
    /\ \A r \in Requests : pc[r] \in {"using", "kept"} => link[front[r]] = "open"

(* Nothing has two owners.  What a request with the lane has is no matter  *)
(* of its own: PhaseInv and RestInv say which slots are empty then.        *)
ApartInv ==
    /\ \A r \in Requests : held[r] # None =>
          offer = None /\ (held[r] \in cleaning => pc[r] \in {"closing", "handingBack"})
    /\ offer \notin cleaning
    /\ \A r \in Requests : exec[r] # None =>
          /\ exec[r] # offer /\ exec[r] \notin cleaning
          /\ \A q \in Requests : /\ exec[r] # front[q] /\ exec[r] # held[q]
                                 /\ exec[r] = exec[q] => r = q
          /\ \A q \in Talkers, who \in Starters : exec[r] \notin scrub[q][who]
    /\ \A r \in Talkers, who \in Starters : \A t \in scrub[r][who] :
          /\ t # offer /\ t \notin cleaning
          /\ \A q \in Requests : t # front[q] /\ t # held[q]
          /\ \A q \in Talkers, by \in Starters : t \in scrub[q][by] => q = r /\ by = who

IInv == /\ TypeOK /\ PhaseInv /\ AttemptInv /\ TalkInv /\ CleanInv /\ StillInv /\ UpInv
        /\ LaneIsExclusive /\ QuietInv /\ AskInv /\ KeptInv /\ GoneInv /\ RestInv /\ BridgeInv
        /\ LiveInv /\ LinkInv /\ ApartInv

-----------------------------------------------------------------------------
(* What the helpers of the actions do.                                     *)

(* The slot that holds no thread is not a thread.                          *)
LEMMA NoThread == None \notin Threads
  BY DEF None, Threads

(* What a realtime request owns are threads.                               *)
LEMMA OwnedType ==
    ASSUME TypeOK, NEW r \in Talkers
    PROVE  Owned(r) \in SUBSET Threads
  BY DEF Owned, TypeOK, Slot, Requests

(* start_provider_cleanup keeps the types of what it moves.                *)
LEMMA TakeOverType ==
    ASSUME TypeOK, NEW r \in Talkers, NEW who \in Starters, NEW own \in SUBSET Threads,
           TakeOver(r, who, own)
    PROVE  /\ scrub' \in [Talkers -> [Starters -> SUBSET Threads]]
           /\ front' \in [Requests -> Slot] /\ exec' \in [Requests -> Slot]
  BY DEF TakeOver, TypeOK, Slot

(* So does the end of a startup.                                           *)
LEMMA EndStartupType ==
    ASSUME TypeOK, NEW r \in Talkers, NEW own \in SUBSET Threads,
           EndStartup(r, "failed", own)
    PROVE  /\ startup' \in [Talkers -> StartupPhases]
           /\ scrub' \in [Talkers -> [Starters -> SUBSET Threads]]
           /\ front' \in [Requests -> Slot] /\ exec' \in [Requests -> Slot]
<1>1. CASE r \in abandoned /\ own # {}
  BY <1>1, TakeOverType DEF EndStartup, TypeOK, StartupPhases, Starters
<1>2. CASE ~(r \in abandoned /\ own # {})
  BY <1>2 DEF EndStartup, TypeOK, StartupPhases
<1> QED
  BY <1>1, <1>2

(* What the variables are indexed by, and what their slots hold.           *)
LEMMA Shapes ==
    ASSUME TypeOK
    PROVE  /\ DOMAIN pc = Requests /\ DOMAIN link = Threads /\ DOMAIN thread = Threads
           /\ DOMAIN dog = Threads /\ offer \in Slot /\ cleaning \subseteq Threads
           /\ held \in [Requests -> Slot] /\ parting \in [Requests -> Slot]
           /\ ask \in [Requests -> Slot] /\ front \in [Requests -> Slot]
           /\ exec \in [Requests -> Slot] /\ Slot = Threads \cup {None}
           /\ scrub \in [Talkers -> [Starters -> SUBSET Threads]] /\ stirred \subseteq Threads
BY DEF TypeOK, LaneTypeOK, Slot

(* A failed startup: its threads pass to a cleanup task if nobody wants    *)
(* them any more, and stay with the handler otherwise.                     *)
LEMMA EndStartupEffect ==
    ASSUME TypeOK, NEW r \in Talkers, EndStartup(r, "failed", Owned(r))
    PROVE  /\ startup'[r] = IF r \in abandoned /\ Owned(r) # {} THEN "winding" ELSE "failed"
           /\ startup'[r] = "winding" => front'[r] = None /\ exec'[r] = None
           /\ front'[r] \in {front[r], None} /\ exec'[r] \in {exec[r], None}
           /\ \A q \in Talkers \ {r} : startup'[q] = startup[q]
           /\ \A q \in Requests \ {r} : front'[q] = front[q] /\ exec'[q] = exec[q]
           /\ \A q \in Talkers, who \in Starters :
                 scrub'[q][who] = IF q = r /\ who = "startup" /\ r \in abandoned
                                  THEN scrub[q][who] \cup Owned(r) ELSE scrub[q][who]
<1>1. CASE r \in abandoned /\ Owned(r) # {}
  <2>1. scrub' = [scrub EXCEPT ![r]["startup"] = scrub[r]["startup"] \cup Owned(r)]
    BY <1>1 DEF EndStartup, TakeOver
  <2>2. ASSUME NEW q \in Talkers, NEW who \in Starters
        PROVE  scrub'[q][who] = IF q = r /\ who = "startup" THEN scrub[q][who] \cup Owned(r)
                                ELSE scrub[q][who]
    BY <2>1 DEF TypeOK, Starters
  <2>3. QED
    BY <1>1, <2>2 DEF EndStartup, TakeOver, TypeOK, Requests
<1>2. CASE ~(r \in abandoned /\ Owned(r) # {})
  BY <1>2 DEF EndStartup, TypeOK, Requests
<1> QED
  BY <1>1, <1>2

(* A startup that fails waits for no thread any more, and the one it asked *)
(* for was never known.                                                    *)
LEMMA StartupFailsEffect ==
    ASSUME TypeOK, NEW r \in Talkers, StartupFails(r)
    PROVE  /\ ask'[r] = None /\ \A q \in Requests \ {r} : ask'[q] = ask[q]
           /\ \A t \in Threads : thread'[t] = thread[t] \/
                 (t = ask[r] /\ thread'[t] \in {"deleted", "orphan"})
           /\ ask[r] \in Threads => thread'[ask[r]] \in {"deleted", "orphan"}
           /\ startup[r] \in {"exec", "front", "link", "settle"}
           /\ EndStartup(r, "failed", Owned(r))
           /\ UNCHANGED <<pc, leaseVars, offerVars, cleaning, noticeVars, link, again,
                          attemptVars, managed, abandoned, bridge>>
<1>1. CASE ask[r] = None
  BY <1>1, NoThread DEF StartupFails, TypeOK
<1>2. CASE ask[r] # None
  BY <1>2 DEF StartupFails, TypeOK, LaneTypeOK, Requests
<1> QED
  BY <1>1, <1>2

(* close_provider of the handler: everything it owns passes to the cleanup *)
(* task it waits for.                                                      *)
LEMMA LeaveTalkEffect ==
    ASSUME TypeOK, NEW r \in Talkers, LeaveTalk(r, Owned(r))
    PROVE  /\ pc' = [pc EXCEPT ![r] = "leaving"]
           /\ front' = [front EXCEPT ![r] = None] /\ exec' = [exec EXCEPT ![r] = None]
           /\ \A q \in Talkers, who \in Starters :
                 scrub'[q][who] = IF q = r /\ who = "handler"
                                  THEN scrub[q][who] \cup Owned(r) ELSE scrub[q][who]
<1>1. scrub' = [scrub EXCEPT ![r]["handler"] = scrub[r]["handler"] \cup Owned(r)]
  BY DEF LeaveTalk, TakeOver
<1>2. ASSUME NEW q \in Talkers, NEW who \in Starters
      PROVE  scrub'[q][who] = IF q = r /\ who = "handler" THEN scrub[q][who] \cup Owned(r)
                              ELSE scrub[q][who]
  BY <1>1 DEF TypeOK, Starters
<1>3. QED
  BY <1>2 DEF LeaveTalk, TakeOver, GoTo

(* A cleanup task deletes what it has and has nothing any more.            *)
LEMMA ScrubEffect ==
    ASSUME TypeOK, NEW r \in Talkers, NEW who \in Starters, Scrub(r, who),
           {t \in scrub[r][who] : link[t] \in {"opening", "open"}} = {}
    PROVE  /\ \A t \in Threads :
                 thread'[t] = IF t \in scrub[r][who] THEN "deleted" ELSE thread[t]
           /\ \A q \in Talkers, w \in Starters :
                 scrub'[q][w] = IF q = r /\ w = who THEN {} ELSE scrub[q][w]
           /\ UNCHANGED <<pc, offer, cleaning, held, front, exec, ask, link>>
<1>1. /\ Delete(scrub[r][who]) /\ scrub' = [scrub EXCEPT ![r][who] = {}]
      /\ UNCHANGED <<pc, offer, cleaning, held, front, exec, ask, link>>
  BY DEF Scrub, ownVars, leaseVars, offerVars
<1>2. QED
  BY <1>1 DEF Delete, TypeOK, Starters

(* A thread keeps its owner, or gets another one, when a cleanup begins.   *)
LEMMA TakeOverKept ==
    ASSUME TypeOK, NEW r \in Talkers, NEW starter \in Starters,
           TakeOver(r, starter, Owned(r)), UNCHANGED <<offer, cleaning, held>>,
           NEW t \in Threads
    PROVE  Kept(t)' <=> Kept(t)
<1>1. /\ front' = [front EXCEPT ![r] = None] /\ exec' = [exec EXCEPT ![r] = None]
      /\ scrub' = [scrub EXCEPT ![r][starter] = scrub[r][starter] \cup Owned(r)]
  BY DEF TakeOver
<1>2. ASSUME NEW q \in Talkers, NEW who \in Starters
      PROVE  scrub'[q][who] = IF q = r /\ who = starter THEN scrub[q][who] \cup Owned(r)
                              ELSE scrub[q][who]
  BY <1>1 DEF TypeOK
<1>3. (\E q \in Requests : t = front'[q] \/ t = exec'[q]) \/ t \in Owned(r)
      <=> \E q \in Requests : t = front[q] \/ t = exec[q]
  BY <1>1, NoThread DEF Owned, TypeOK, Requests
<1>4. (\E q \in Talkers, who \in Starters : t \in scrub'[q][who])
      <=> t \in Owned(r) \/ \E q \in Talkers, who \in Starters : t \in scrub[q][who]
  BY <1>2
<1>5. QED
  BY <1>3, <1>4 DEF Kept

(* So when a handler leaves.                                               *)
LEMMA LeaveTalkKept ==
    ASSUME TypeOK, KeptInv, NEW r \in Talkers, LeaveTalk(r, Owned(r)),
           UNCHANGED <<offer, cleaning, held, thread>>
    PROVE  KeptInv'
  BY TakeOverKept DEF LeaveTalk, Starters, KeptInv

(* So when a startup ends.                                                 *)
LEMMA EndStartupKept ==
    ASSUME TypeOK, KeptInv, NEW r \in Talkers, EndStartup(r, "failed", Owned(r)),
           UNCHANGED <<offer, cleaning, held>>
    PROVE  /\ \A t \in Threads : Kept(t)' <=> Kept(t)
           /\ UNCHANGED thread => KeptInv'
<1>1. ASSUME NEW t \in Threads PROVE Kept(t)' <=> Kept(t)
  <2>1. CASE TakeOver(r, "startup", Owned(r))
    BY <2>1, TakeOverKept DEF Starters
  <2>2. CASE ~TakeOver(r, "startup", Owned(r))
    BY <2>2 DEF EndStartup, Kept
  <2>3. QED
    BY <2>1, <2>2
<1>2. QED
  BY <1>1 DEF KeptInv

(* AskInv says nothing of a step that asks for no thread and gets none.    *)
LEMMA AskStays ==
    ASSUME TypeOK, AskInv, UNCHANGED ask,
           \A t \in Threads : thread'[t] = "asked" <=> thread[t] = "asked"
    PROVE  AskInv'
  BY DEF AskInv, TypeOK, Slot

(* A request stops to wait for the thread it asked for.                    *)
LEMMA AskEnds ==
    ASSUME TypeOK, AskInv, NEW r \in Requests,
           ask'[r] = None, \A q \in Requests \ {r} : ask'[q] = ask[q],
           \A t \in Threads : thread'[t] = "asked" <=> thread[t] = "asked" /\ t # ask[r]
    PROVE  AskInv'
<1>1. ASSUME NEW q \in Requests, ask'[q] # None
      PROVE  ask'[q] = ask[q] /\ q # r /\ ask[q] \in Threads /\ ask[q] # ask[r]
  BY <1>1 DEF AskInv, TypeOK, Slot
<1>2. \A q \in Requests : ask'[q] # None => thread'[ask'[q]] = "asked"
  BY <1>1 DEF AskInv
<1>3. \A q, p \in Requests : ask'[q] # None /\ ask'[q] = ask'[p] => q = p
  BY <1>1 DEF AskInv
<1>4. \A t \in Threads : thread'[t] = "asked" => \E q \in Requests : t = ask'[q]
  BY DEF AskInv
<1>5. QED
  BY <1>2, <1>3, <1>4 DEF AskInv

(* A realtime request that has a session has the lane, and what the lane   *)
(* hands over is not there.                                                *)
LEMMA FrontAlone ==
    ASSUME TypeOK, PhaseInv, RestInv, CleanInv, NEW r \in Talkers, front[r] # None
    PROVE  /\ offer = None /\ cleaning = {}
           /\ \A q \in Requests : held[q] = None
           /\ \A q \in Requests \ {r} : front[q] = None
<1>1. pc[r] \in {"startup", "halting", "serving"} /\ owner = r
  BY DEF RestInv, PhaseInv, OwnerPhases, Requests
<1>2. offer = None /\ cleaning = {}
  BY <1>1 DEF CleanInv, OwnerPhases, Requests
<1>3. \A q \in Requests : held[q] = None
  BY <1>1, RequestsAssumption DEF PhaseInv, OwnerPhases, Requests
<1>4. ASSUME NEW q \in Requests, front[q] # None PROVE pc[q] \in OwnerPhases
  BY <1>4 DEF RestInv, OwnerPhases
<1>5. QED
  BY <1>1, <1>2, <1>3, <1>4 DEF PhaseInv

(* A cleanup task that takes over what a request owns, and what nobody had *)
(* before, shares it with nobody.                                          *)
LEMMA TakeOverApart ==
    ASSUME TypeOK, PhaseInv, RestInv, CleanInv, KeptInv, ApartInv,
           NEW r \in Talkers, NEW starter \in Starters, NEW own \in SUBSET Threads,
           TakeOver(r, starter, own), \A t \in own : t \in Owned(r) \/ ~Kept(t),
           UNCHANGED <<offer, cleaning, held>>,
           \A q \in Requests : held[q] # None => pc'[q] = pc[q]
    PROVE  ApartInv'
<1>1. /\ front' = [front EXCEPT ![r] = None] /\ exec' = [exec EXCEPT ![r] = None]
      /\ scrub' = [scrub EXCEPT ![r][starter] = scrub[r][starter] \cup own]
  BY DEF TakeOver
<1>2. ASSUME NEW q \in Talkers, NEW who \in Starters
      PROVE  scrub'[q][who] = IF q = r /\ who = starter THEN scrub[q][who] \cup own
                              ELSE scrub[q][who]
  BY <1>1 DEF TypeOK
<1>3. /\ front'[r] = None /\ exec'[r] = None
      /\ \A q \in Requests \ {r} : front'[q] = front[q] /\ exec'[q] = exec[q]
  BY <1>1 DEF TypeOK, Requests
<1>4. ASSUME NEW t \in own
      PROVE  /\ t # offer /\ t \notin cleaning /\ t # None
             /\ \A q \in Requests : t # held[q]
             /\ \A q \in Requests \ {r} : t # front[q] /\ t # exec[q]
             /\ \A q \in Talkers, who \in Starters : t \notin scrub[q][who]
  <2>1. CASE t = exec[r] /\ exec[r] # None
    BY <2>1, NoThread DEF ApartInv, Requests
  <2>2. CASE t = front[r] /\ front[r] # None
    <3>1. /\ offer = None /\ cleaning = {} /\ \A q \in Requests : held[q] = None
          /\ \A q \in Requests \ {r} : front[q] = None
      BY <2>2, FrontAlone
    <3>2. /\ \A q \in Requests \ {r} : t # exec[q]
          /\ \A q \in Talkers, who \in Starters : t \notin scrub[q][who]
      BY <2>2 DEF ApartInv, Requests
    <3>3. QED
      BY <2>2, <3>1, <3>2
  <2>3. CASE ~Kept(t)
    BY <2>3, NoThread DEF Kept
  <2>4. QED
    BY <2>1, <2>2, <2>3, NoThread DEF Owned
<1>5. /\ \A q \in Requests : held[q] # None =>
            offer = None /\ (held[q] \in cleaning => pc'[q] \in {"closing", "handingBack"})
      /\ offer \notin cleaning
  BY DEF ApartInv
<1>6. ASSUME NEW p \in Requests, exec'[p] # None
      PROVE  /\ exec'[p] # offer /\ exec'[p] \notin cleaning
             /\ \A q \in Requests : /\ exec'[p] # front'[q] /\ exec'[p] # held[q]
                                    /\ exec'[p] = exec'[q] => p = q
             /\ \A q \in Talkers, who \in Starters : exec'[p] \notin scrub'[q][who]
  <2>1. p # r /\ exec'[p] = exec[p] /\ exec[p] # None /\ exec[p] \notin own
    BY <1>3, <1>4, <1>6
  <2>2. ASSUME NEW q \in Requests PROVE exec'[p] # front'[q] /\ (exec'[p] = exec'[q] => p = q)
    <3>1. CASE q = r
      BY <1>3, <1>6, <2>1, <3>1
    <3>2. CASE q # r
      BY <1>3, <2>1, <3>2 DEF ApartInv
    <3>3. QED
      BY <3>1, <3>2
  <2>3. ASSUME NEW q \in Talkers, NEW who \in Starters PROVE exec[p] \notin scrub'[q][who]
    <3>1. exec[p] \notin scrub[q][who]
      BY <2>1 DEF ApartInv
    <3>2. QED
      BY <1>2, <2>1, <3>1
  <2>4. /\ exec[p] # offer /\ exec[p] \notin cleaning
        /\ \A q \in Requests : exec[p] # held[q]
    BY <2>1 DEF ApartInv
  <2>5. QED
    BY <2>1, <2>2, <2>3, <2>4
<1>7. ASSUME NEW p \in Talkers, NEW who \in Starters, NEW t \in scrub'[p][who]
      PROVE  /\ t # offer /\ t \notin cleaning
             /\ \A q \in Requests : t # front'[q] /\ t # held[q]
             /\ \A q \in Talkers, by \in Starters :
                   t \in scrub'[q][by] => q = p /\ by = who
  <2>1. CASE t \in own
    <3>1. p = r /\ who = starter
      BY <1>2, <1>4, <2>1
    <3>2. \A q \in Requests : t # front'[q]
      BY <1>3, <1>4, <2>1
    <3>3. QED
      BY ZenonT(40), <1>2, <1>4, <2>1, <3>1, <3>2
  <2>2. CASE t \notin own
    <3>1. t \in scrub[p][who]
      BY <1>2, <2>2
    <3>2. t # None
      BY <3>1, NoThread DEF TypeOK
    <3>3. \A q \in Requests : t # front'[q]
      BY <1>3, <3>1, <3>2 DEF ApartInv
    <3>4. \A q \in Talkers, by \in Starters : t \in scrub'[q][by] => t \in scrub[q][by]
      BY <1>2, <2>2
    <3>5. QED
      BY <3>1, <3>3, <3>4 DEF ApartInv
  <2>3. QED
    BY <2>1, <2>2
<1>8. QED
  BY <1>5, <1>6, <1>7 DEF ApartInv

(* So when a startup ends.                                                 *)
LEMMA EndStartupApart ==
    ASSUME TypeOK, PhaseInv, RestInv, CleanInv, KeptInv, ApartInv, NEW r \in Talkers,
           EndStartup(r, "failed", Owned(r)), UNCHANGED <<pc, offer, cleaning, held>>
    PROVE  ApartInv'
<1>1. CASE TakeOver(r, "startup", Owned(r))
  BY <1>1, OwnedType, TakeOverApart DEF Starters
<1>2. CASE ~TakeOver(r, "startup", Owned(r))
  BY <1>2 DEF EndStartup, ApartInv
<1>3. QED
  BY <1>1, <1>2

(* So when a handler leaves.                                               *)
LEMMA LeaveTalkApart ==
    ASSUME TypeOK, PhaseInv, RestInv, CleanInv, KeptInv, ApartInv, NEW r \in Talkers,
           LeaveTalk(r, Owned(r)), UNCHANGED <<offer, cleaning, held>>
    PROVE  ApartInv'
<1>1. \A q \in Requests : held[q] # None => pc'[q] = pc[q]
  BY RequestsAssumption DEF LeaveTalk, GoTo, PhaseInv, TypeOK
<1>2. QED
  BY <1>1, OwnedType, TakeOverApart DEF LeaveTalk, Starters

(* A lease that gives up the session it was to use has it closed, and one  *)
(* that took an offer out to close it has done so.                         *)
LEMMA RecheckEffect ==
    ASSUME TypeOK, PhaseInv, CleanInv, GoneInv, LinkInv, LiveInv, NEW r \in Requests,
           Recheck(r)
    PROVE  \/ /\ UNCHANGED cleaning
              /\ \A q \in Requests : held'[q] = held[q]
           \/ /\ held[r] \in Threads /\ cleaning' = {held[r]}
              /\ held'[r] = None /\ \A q \in Requests \ {r} : held'[q] = held[q]
<1>1. pc[r] = "calming" /\ parting[r] \in Threads
  BY DEF Recheck, PhaseInv, TypeOK, LaneTypeOK, Slot
<1>2. CASE UNCHANGED <<held, cleaning>>
  BY <1>2
<1>3. CASE ~(UNCHANGED <<held, cleaning>>)
  <2>1. held' = [held EXCEPT ![r] = None] /\ TrackCleanup(parting[r])
    BY <1>3 DEF Recheck
  <2>2. CASE held[r] = None
    <3>1. Gone(parting[r]) /\ dog[parting[r]] # "none"
      BY <1>1, <2>2 DEF GoneInv, Recheck
    <3>2. thread[parting[r]] = "deleted" => Closed(parting[r])
      BY <1>1, <3>1 DEF LinkInv, LiveInv, Up, Closed
    <3>3. UNCHANGED cleaning
      BY <2>1, <3>1, <3>2 DEF TrackCleanup, Gone
    <3>4. QED
      BY <2>1, <2>2, <3>3 DEF TypeOK, LaneTypeOK
  <2>3. CASE held[r] # None
    <3>1. parting[r] = held[r] /\ cleaning = {} /\ thread[held[r]] = "live"
      BY <1>1, <2>3 DEF PhaseInv, CleanInv, LiveInv
    <3>2. QED
      BY <1>1, <2>1, <3>1 DEF TrackCleanup, Closed, TypeOK, LaneTypeOK
  <2>4. QED
    BY <2>2, <2>3
<1>4. QED
  BY <1>2, <1>3

(* What a cleanup task takes over is live.                                 *)
LEMMA TakeOverLive ==
    ASSUME TypeOK, PhaseInv, LiveInv, NEW r \in Talkers, NEW starter \in Starters,
           NEW own \in SUBSET Threads, TakeOver(r, starter, own),
           \A t \in own : t \in Owned(r) \/ thread'[t] = "live",
           \A t \in Threads : thread[t] = "live" => thread'[t] = "live",
           UNCHANGED <<offer, cleaning, held, link, again>>,
           \A q \in Requests \ {r} : pc'[q] = pc[q]
    PROVE  LiveInv'
<1>1. /\ front' = [front EXCEPT ![r] = None] /\ exec' = [exec EXCEPT ![r] = None]
      /\ scrub' = [scrub EXCEPT ![r][starter] = scrub[r][starter] \cup own]
  BY DEF TakeOver
<1>2. ASSUME NEW q \in Talkers, NEW who \in Starters
      PROVE  scrub'[q][who] \subseteq scrub[q][who] \cup own
  BY <1>1 DEF TypeOK
<1>3. ASSUME NEW t \in own PROVE thread'[t] = "live"
  <2>1. t \in Owned(r) => thread[t] = "live"
    BY RequestsAssumption DEF Owned, LiveInv, PhaseInv, Requests
  <2>2. QED
    BY <2>1
<1>4. /\ held[r] = None
      /\ \A q \in Requests : front'[q] # None => q # r /\ front'[q] = front[q]
      /\ \A q \in Requests : exec'[q] # None => exec'[q] = exec[q]
  BY <1>1, RequestsAssumption DEF PhaseInv, TypeOK, Requests
<1>5. \A q \in Talkers, who \in Starters : \A t \in scrub'[q][who] : thread'[t] = "live"
  BY <1>2, <1>3 DEF LiveInv, TypeOK
<1>6. \A q \in Requests : /\ exec'[q] # None => thread'[exec'[q]] = "live"
                          /\ front'[q] # None /\ pc'[q] \notin {"deleting", "dropping"} =>
                                thread'[front'[q]] = "live"
                          /\ held[q] # None /\ pc'[q] \notin {"closing", "handingBack"} =>
                                thread'[held[q]] = "live"
  BY <1>4 DEF LiveInv, TypeOK, LaneTypeOK, Slot
<1>7. /\ offer # None => thread'[offer] = "live"
      /\ \A t \in cleaning : thread'[t] = "live"
  BY DEF LiveInv, TypeOK, LaneTypeOK, Slot
<1>8. QED
  BY <1>5, <1>6, <1>7 DEF LiveInv, Up

(* So when a startup ends.                                                 *)
LEMMA EndStartupLive ==
    ASSUME TypeOK, PhaseInv, LiveInv, NEW r \in Talkers,
           EndStartup(r, "failed", Owned(r)),
           \A t \in Threads : thread[t] = "live" => thread'[t] = "live",
           UNCHANGED <<pc, offer, cleaning, held, link, again>>
    PROVE  LiveInv'
<1>1. CASE TakeOver(r, "startup", Owned(r))
  BY <1>1, OwnedType, TakeOverLive DEF Starters
<1>2. CASE ~TakeOver(r, "startup", Owned(r))
  BY <1>2 DEF EndStartup, LiveInv, Up, TypeOK, LaneTypeOK, Slot
<1>3. QED
  BY <1>1, <1>2

(* So when a handler leaves.                                               *)
LEMMA LeaveTalkLive ==
    ASSUME TypeOK, PhaseInv, LiveInv, NEW r \in Talkers, LeaveTalk(r, Owned(r)),
           UNCHANGED <<offer, cleaning, held, thread, link, again>>
    PROVE  LiveInv'
<1>1. \A q \in Requests \ {r} : pc'[q] = pc[q]
  BY DEF LeaveTalk, GoTo, TypeOK
<1>2. QED
  BY <1>1, OwnedType, TakeOverLive DEF LeaveTalk, Starters

-----------------------------------------------------------------------------
(* Every action keeps every part of the invariant.                         *)

(* Types: a transcription has an attempt left when it begins one.          *)
LEMMA TypeStep ==
    PhaseInv /\ AttemptInv /\ TalkInv /\ TypeOK /\ [Next]_vars => TypeOK'
<1> SUFFICES ASSUME PhaseInv, AttemptInv, TalkInv, TypeOK, [Next]_vars PROVE TypeOK'
  OBVIOUS
<1> USE DEF GoTo, laneVars, leaseVars, offerVars, noticeVars, resourceVars, requestVars,
            ownVars, attemptVars, talkVars
<1>1. ASSUME NEW r \in Requests, LaneBusy(r), UNCHANGED requestVars PROVE TypeOK'
  BY <1>1 DEF LaneBusy, TypeOK, LaneTypeOK, Slot, LeasePhases, StartupPhases
<1>2. ASSUME NEW r \in Requests, LaneQueue(r), UNCHANGED requestVars PROVE TypeOK'
  BY <1>2 DEF LaneQueue, TypeOK, LaneTypeOK, Slot, LeasePhases, StartupPhases
<1>3. ASSUME NEW r \in Requests, LaneRetry(r), UNCHANGED requestVars PROVE TypeOK'
  BY <1>3 DEF LaneRetry, TypeOK, LaneTypeOK, Slot, LeasePhases, StartupPhases
<1>4. ASSUME NEW r \in Requests, LaneTimesOut(r), UNCHANGED requestVars PROVE TypeOK'
  BY <1>4 DEF LaneTimesOut, TypeOK, LaneTypeOK, Slot, LeasePhases, StartupPhases
<1>5. ASSUME NEW r \in Requests, NEW match \in BOOLEAN, Claim(r, match), UNCHANGED requestVars
      PROVE  TypeOK'
  <2>1. /\ owner' \in Requests \cup {NoOne} /\ offer' \in Slot
        /\ parting' \in [Requests -> Slot]
    BY <1>5 DEF Claim, TypeOK, LaneTypeOK, Slot
  <2>2. CASE offer = None
    BY <1>5, <2>1, <2>2 DEF Claim, TypeOK, LaneTypeOK, LeasePhases
  <2>3. CASE offer # None
    <3>1. offer \in Threads
      BY <2>3 DEF TypeOK, LaneTypeOK, Slot
    <3>2. dog' \in [Threads -> {"none", "watching", "leaving", "cancelled", "cancelledLate",
                                "done", "late"}]
      BY <1>5, <2>3 DEF Claim, CancelDog, TypeOK, LaneTypeOK
    <3>3. held' \in [Requests -> Slot] /\ cleaning' \subseteq Threads
      BY <1>5, <2>3, <3>1 DEF Claim, TrackCleanup, TypeOK, LaneTypeOK, Slot
    <3>4. QED
      BY <1>5, <2>1, <2>3, <3>2, <3>3 DEF Claim, TypeOK, LaneTypeOK, LeasePhases
  <2>4. QED
    BY <2>2, <2>3
<1>6. ASSUME NEW r \in Requests, Recheck(r), UNCHANGED requestVars PROVE TypeOK'
  BY <1>6 DEF Recheck, TrackCleanup, TypeOK, LaneTypeOK, Slot, LeasePhases, Requests, PhaseInv
<1>7. ASSUME NEW r \in Requests, Sanitize(r), UNCHANGED requestVars PROVE TypeOK'
  BY <1>7 DEF Sanitize, TrackCleanup, TypeOK, LaneTypeOK, Slot, LeasePhases, StartupPhases
<1>8. ASSUME NEW r \in Requests, Drained(r), UNCHANGED requestVars PROVE TypeOK'
  BY <1>8 DEF Drained, TypeOK, LaneTypeOK, Slot, LeasePhases, StartupPhases
<1>9. ASSUME NEW r \in Requests, HandBack(r), UNCHANGED requestVars PROVE TypeOK'
  BY <1>9 DEF HandBack, TrackCleanup, TypeOK, LaneTypeOK, Slot, LeasePhases, StartupPhases
<1>10. ASSUME NEW r \in Requests, Release(r), UNCHANGED requestVars PROVE TypeOK'
  BY <1>10 DEF Release, TypeOK, LaneTypeOK, Slot, LeasePhases, StartupPhases
<1>11. ASSUME NEW r \in Requests, Call(r) PROVE TypeOK'
  BY <1>11 DEF Call, TypeOK, LaneTypeOK, Slot, LeasePhases, StartupPhases
<1>12. ASSUME NEW r \in Requests, Look(r) PROVE TypeOK'
  BY <1>12 DEF Look, TypeOK, LaneTypeOK, Slot, LeasePhases, StartupPhases
<1>13. ASSUME NEW r \in Requests, BodyRead(r) PROVE TypeOK'
  BY <1>13 DEF BodyRead, TypeOK, LaneTypeOK, Slot, LeasePhases, StartupPhases
<1>14. ASSUME NEW r \in Requests, StartRead(r) PROVE TypeOK'
  BY <1>14 DEF StartRead, TypeOK, LaneTypeOK, Slot, LeasePhases, StartupPhases
<1>15. ASSUME NEW r \in Requests, RefuseAudio(r) PROVE TypeOK'
  BY <1>15 DEF RefuseAudio, TypeOK, LaneTypeOK, Slot, LeasePhases, StartupPhases
<1>16. ASSUME NEW r \in Requests, RefuseText(r) PROVE TypeOK'
  BY <1>16 DEF RefuseText, TypeOK, LaneTypeOK, Slot, LeasePhases, StartupPhases
<1>17. ASSUME NEW r \in Requests, Begin(r) PROVE TypeOK'
  <2>1. attempts' \in [Requests -> 0..MaxAttempts]
    <3>1. r \in Transcribers => attempts[r] + 1 \in 0..MaxAttempts
      BY <1>17, SettingsAssumption DEF Begin, TypeOK, AttemptInv
    <3>2. QED
      BY <1>17, <3>1 DEF Begin, TypeOK
  <2>2. thread' \in [Threads -> {"none", "asked", "live", "deleted", "orphan", "stray"}]
        /\ ask' \in [Requests -> Slot]
    BY <1>17 DEF Begin, AskThread, TypeOK, LaneTypeOK, Slot
  <2>3. QED
    BY <1>17, <2>1, <2>2 DEF Begin, TypeOK, LaneTypeOK, LeasePhases
<1>18. ASSUME NEW r \in Requests, Started(r) PROVE TypeOK'
  BY <1>18 DEF Started, TypeOK, LaneTypeOK, Slot, LeasePhases, StartupPhases
<1>19. ASSUME NEW r \in Requests, StartFails(r) \/ NoSession(r) PROVE TypeOK'
  <2>1. CASE StartFails(r)
    BY <2>1 DEF StartFails, TypeOK, LaneTypeOK, Slot, LeasePhases, PhaseInv
  <2>2. CASE NoSession(r)
    BY <2>2 DEF NoSession, TypeOK, LaneTypeOK, Slot, LeasePhases, PhaseInv
  <2>3. QED
    BY <1>19, <2>1, <2>2
<1>20. ASSUME NEW r \in Requests, StartRejected(r) PROVE TypeOK'
  BY <1>20 DEF StartRejected, Delete, TypeOK, LaneTypeOK, Slot, PhaseInv
<1>21. ASSUME NEW r \in Requests, Linked(r) PROVE TypeOK'
  BY <1>21 DEF Linked, TypeOK, LaneTypeOK, Slot, LeasePhases, StartupPhases
<1>22. ASSUME NEW r \in Requests, UseEnds(r) PROVE TypeOK'
  BY <1>22 DEF UseEnds, Wind, TypeOK, LaneTypeOK, Requests, Starters, OwnerPhases
<1>23. ASSUME NEW r \in Requests, Retain(r) PROVE TypeOK'
  BY <1>23 DEF Retain, TypeOK, LaneTypeOK, Slot, LeasePhases, StartupPhases
<1>24. ASSUME NEW r \in Requests, Stopped(r) PROVE TypeOK'
  BY <1>24 DEF Stopped, Delete, TypeOK, LaneTypeOK, Slot, PhaseInv
<1>25. ASSUME NEW r \in Requests, Disposed(r) PROVE TypeOK'
  BY <1>25 DEF Disposed, TypeOK, LaneTypeOK, Slot, LeasePhases, StartupPhases
<1>26. ASSUME NEW r \in Requests, GiveUp(r) PROVE TypeOK'
  <2>1. CASE pc[r] = "granted"
    BY <1>26, <2>1 DEF GiveUp, TypeOK, LaneTypeOK, LeasePhases
  <2>2. CASE pc[r] = "starting"
    <3>1. /\ thread' = [thread EXCEPT ![ask[r]] = "orphan"]
          /\ ask' = [ask EXCEPT ![r] = None]
          /\ pc' = [pc EXCEPT ![r] = "returning"]
          /\ next' = [next EXCEPT ![r] = "fail"] /\ quit' = quit \cup {r}
          /\ UNCHANGED <<link, again, front, cleaning>>
      BY <1>26, <2>2 DEF GiveUp, GoTo
    <3>2. UNCHANGED <<leaseVars, offerVars, noticeVars, exec, attempts, talkVars, bridge>>
      BY <1>26 DEF GiveUp
    <3>3. r \in Transcribers
      BY <1>26 DEF GiveUp
    <3>4. UNCHANGED <<owner, held, parting, waitFor, offer, dog, expired, invalid, unread,
                      stirred, exec, attempts, startup, managed, abandoned, scrub, bridge>>
      BY <3>2 DEF leaseVars, offerVars, noticeVars, talkVars
    <3>5. pc' \in [Requests -> LeasePhases \cup
                 {"reading", "starting", "linking", "using", "kept", "dropping",
                  "stopping", "deleting", "speaking", "closing", "startup",
                  "halting", "serving", "leaving"}]
      BY <3>1 DEF TypeOK, LeasePhases
    <3>6. QED
      BY <3>1, <3>3, <3>4, <3>5 DEF TypeOK, LaneTypeOK, Slot
  <2>3. CASE pc[r] \in {"linking", "using"}
    BY <1>26, <2>3 DEF GiveUp, TypeOK, LaneTypeOK, LeasePhases
  <2>4. CASE pc[r] = "stopping"
    <3>1. /\ link' = [link EXCEPT ![front[r]] = "cut"]
          /\ thread' = [t \in Threads |-> IF t \in {front[r]} THEN "deleted" ELSE thread[t]]
          /\ again' = again \cup {t \in {front[r]} : thread[t] = "deleted"}
          /\ pc' = [pc EXCEPT ![r] = "deleting"]
          /\ next' = [next EXCEPT ![r] = "fail"] /\ quit' = quit \cup {r}
          /\ UNCHANGED <<ask, front, cleaning>>
      BY <1>26, <2>4 DEF GiveUp, Delete, GoTo
    <3>2. UNCHANGED <<leaseVars, offerVars, noticeVars, exec, attempts, talkVars, bridge>>
      BY <1>26 DEF GiveUp
    <3>3. r \in Transcribers /\ front[r] \in Threads
      BY <1>26, <2>4 DEF GiveUp, TypeOK, Slot, PhaseInv
    <3>4. QED
      BY <3>1, <3>2, <3>3 DEF TypeOK, LaneTypeOK
  <2>5. CASE pc[r] = "deleting"
    BY <1>26, <2>5 DEF GiveUp, TypeOK, LaneTypeOK, Slot, LeasePhases
  <2>6. CASE pc[r] = "kept"
    <3>1. /\ cleaning' = IF Closed(front[r]) THEN cleaning ELSE cleaning \cup {front[r]}
          /\ pc' = [pc EXCEPT ![r] = "dropping"]
          /\ next' = [next EXCEPT ![r] = "fail"] /\ quit' = quit \cup {r}
          /\ UNCHANGED <<thread, link, again, ask, front>>
      BY <1>26, <2>6 DEF GiveUp, TrackCleanup, GoTo
    <3>2. UNCHANGED <<leaseVars, offerVars, noticeVars, exec, attempts, talkVars, bridge>>
      BY <1>26 DEF GiveUp
    <3>3. r \in Transcribers /\ front[r] \in Threads
      BY <1>26, <2>6 DEF GiveUp, TypeOK, Slot, PhaseInv
    <3>4. QED
      BY <3>1, <3>2, <3>3 DEF TypeOK, LaneTypeOK
  <2>7. QED
    BY <1>26, <2>1, <2>2, <2>3, <2>4, <2>5, <2>6 DEF GiveUp
<1>27. ASSUME NEW r \in Requests, Dropped(r) PROVE TypeOK'
  BY <1>27 DEF Dropped, TypeOK, LaneTypeOK, Slot, LeasePhases, StartupPhases
<1>28. ASSUME NEW r \in Requests, Publish(r) PROVE TypeOK'
  BY <1>28 DEF Publish, TypeOK, LaneTypeOK, Slot, LeasePhases, StartupPhases
<1>29. ASSUME NEW r \in Requests, Speak(r) PROVE TypeOK'
  BY <1>29 DEF Speak, CloseHeld, TrackCleanup, TypeOK, LaneTypeOK, LeasePhases, Requests
<1>30. ASSUME NEW r \in Requests, Spoken(r) PROVE TypeOK'
  BY <1>30 DEF Spoken, CloseHeld, TrackCleanup, TypeOK, LaneTypeOK, Slot, PhaseInv
<1>31. ASSUME NEW r \in Requests, HeldClosed(r) PROVE TypeOK'
  BY <1>31 DEF HeldClosed, TypeOK, LaneTypeOK, Slot, LeasePhases, StartupPhases
<1>32. ASSUME NEW r \in Talkers, StartTalk(r) PROVE TypeOK'
  BY <1>32 DEF StartTalk, AskThread, TypeOK, LaneTypeOK, Slot, StartupPhases, Requests
<1>33. ASSUME NEW r \in Talkers, ExecStarted(r) PROVE TypeOK'
  BY <1>33, NoThread
     DEF ExecStarted, IsNext, TypeOK, LaneTypeOK, Slot, StartupPhases, Requests, Starters
<1>34. ASSUME NEW r \in Talkers, FrontStarted(r) PROVE TypeOK'
  <2>1. ask[r] \in Threads
    BY <1>34 DEF FrontStarted, TypeOK, TalkInv, Slot, Requests
  <2>2. Owned(r) \cup {ask[r]} \in SUBSET Threads
    BY <2>1, OwnedType
  <2>3. CASE r \in abandoned
    BY <1>34, <2>2, <2>3, EndStartupType DEF FrontStarted, TypeOK, LaneTypeOK, Slot, Requests
  <2>4. CASE r \notin abandoned
    BY ZenonT(40), <1>34, <2>1, <2>4
       DEF FrontStarted, TypeOK, LaneTypeOK, Slot, Requests, StartupPhases
  <2>5. QED
    BY <2>3, <2>4
<1>35. ASSUME NEW r \in Talkers, TalkLinked(r) PROVE TypeOK'
  BY <1>35 DEF TalkLinked, TypeOK, LaneTypeOK, Slot, LeasePhases, StartupPhases
<1>36. ASSUME NEW r \in Talkers, Settled(r) PROVE TypeOK'
  BY <1>36 DEF Settled, TypeOK, LaneTypeOK, Slot, LeasePhases, StartupPhases
<1>37. ASSUME NEW r \in Talkers, StartupFails(r) PROVE TypeOK'
  <2>1. CASE ask[r] = None
    BY <1>37, <2>1, OwnedType, EndStartupType DEF StartupFails, TypeOK, LaneTypeOK
  <2>2. CASE ask[r] # None
    <3>1. /\ thread' \in [Threads -> {"none", "asked", "live", "deleted", "orphan", "stray"}]
          /\ ask' \in [Requests -> Slot]
      <4>1. PICK state \in {"deleted", "orphan"} : thread' = [thread EXCEPT ![ask[r]] = state]
        BY <1>37, <2>2 DEF StartupFails
      <4>2. ask' = [ask EXCEPT ![r] = None]
        BY <1>37, <2>2 DEF StartupFails
      <4>3. QED
        BY <4>1, <4>2 DEF TypeOK, LaneTypeOK, Slot
    <3>2. QED
      BY <1>37, <3>1, OwnedType, EndStartupType DEF StartupFails, TypeOK, LaneTypeOK
  <2>3. QED
    BY <2>1, <2>2
<1>38. ASSUME NEW r \in Talkers, WindingEnds(r) PROVE TypeOK'
  BY <1>38 DEF WindingEnds, TypeOK, LaneTypeOK, Slot, LeasePhases, StartupPhases
<1>39. ASSUME NEW r \in Talkers, Interrupt(r) PROVE TypeOK'
  <2>1. abandoned' \subseteq Talkers
    BY <1>39 DEF Interrupt, TypeOK
  <2>2. CASE UNCHANGED <<scrub, front, exec>>
    BY <1>39, <2>1, <2>2 DEF Interrupt, LeaveTalk, TypeOK, LaneTypeOK, Requests
  <2>3. CASE LeaveTalk(r, Owned(r))
    <3>1. /\ scrub' \in [Talkers -> [Starters -> SUBSET Threads]]
          /\ front' \in [Requests -> Slot] /\ exec' \in [Requests -> Slot]
      BY <2>3, OwnedType, TakeOverType DEF LeaveTalk, Starters
    <3>2. QED
      BY <1>39, <2>1, <2>3, <3>1 DEF Interrupt, LeaveTalk, TypeOK, LaneTypeOK, Requests
  <2>4. QED
    BY <1>39, <2>2, <2>3 DEF Interrupt
<1>40. ASSUME NEW r \in Talkers, HaltStartup(r) PROVE TypeOK'
  BY <1>40, OwnedType, EndStartupType DEF HaltStartup, TypeOK, LaneTypeOK, Slot, Requests
<1>41. ASSUME NEW r \in Talkers, Halted(r) PROVE TypeOK'
  BY <1>41 DEF Halted, LeaveTalk, TakeOver, Owned, TypeOK, LaneTypeOK, Slot, Requests, Starters
<1>42. ASSUME NEW r \in Talkers, StartupEnds(r) PROVE TypeOK'
  <2>1. CASE startup[r] = "ready"
    BY <1>42, <2>1 DEF StartupEnds, TypeOK, LaneTypeOK, Slot, Requests
  <2>2. CASE LeaveTalk(r, Owned(r))
    <3>1. /\ scrub' \in [Talkers -> [Starters -> SUBSET Threads]]
          /\ front' \in [Requests -> Slot] /\ exec' \in [Requests -> Slot]
      BY <2>2, OwnedType, TakeOverType DEF LeaveTalk, Starters
    <3>2. QED
      BY <1>42, <2>2, <3>1 DEF StartupEnds, LeaveTalk, TypeOK, LaneTypeOK, Requests
  <2>3. QED
    BY <1>42, <2>1, <2>2 DEF StartupEnds
<1>43. ASSUME NEW r \in Talkers, TalkEnds(r) PROVE TypeOK'
  BY <1>43
     DEF TalkEnds, LeaveTalk, TakeOver, Owned, TypeOK, LaneTypeOK, Slot, Requests, Starters
<1>44. ASSUME NEW r \in Talkers, Left(r) PROVE TypeOK'
  BY <1>44 DEF Left, TypeOK, LaneTypeOK, Slot, LeasePhases, StartupPhases
<1>45. ASSUME NEW r \in Talkers, NEW who \in Starters, Scrub(r, who) PROVE TypeOK'
  BY SMTT(30), <1>45, NoThread
     DEF Scrub, Delete, TypeOK, LaneTypeOK, Slot, LeasePhases, Requests, Starters, PhaseInv,
         AttemptInv, TalkInv
<1>46. ASSUME NEW t \in Threads, CloseRetained(t), UNCHANGED requestVars PROVE TypeOK'
  BY <1>46 DEF CloseRetained, Delete, TypeOK, LaneTypeOK, Slot, LeasePhases, StartupPhases
<1>47. ASSUME NEW t \in Threads, Expire(t), UNCHANGED requestVars PROVE TypeOK'
  BY <1>47 DEF Expire, TypeOK, LaneTypeOK, Slot, LeasePhases, StartupPhases
<1>48. ASSUME NEW t \in Threads, DogFinds(t), UNCHANGED requestVars PROVE TypeOK'
  BY <1>48 DEF DogFinds, TypeOK, LaneTypeOK, Slot, LeasePhases, StartupPhases
<1>49. ASSUME NEW t \in Threads, DogBites(t), UNCHANGED requestVars PROVE TypeOK'
  BY <1>49 DEF DogBites, TrackCleanup, TypeOK, LaneTypeOK, Slot, LeasePhases, StartupPhases
<1>50. ASSUME NEW t \in Threads, DogStops(t), UNCHANGED requestVars PROVE TypeOK'
  BY <1>50 DEF DogStops, TypeOK, LaneTypeOK, Slot, LeasePhases, StartupPhases
<1>51. ASSUME NEW t \in Threads, DogStopsLate(t), UNCHANGED requestVars PROVE TypeOK'
  BY <1>51 DEF DogStopsLate, TypeOK, LaneTypeOK, Slot, LeasePhases, StartupPhases
<1>52. ASSUME NEW t \in Threads, Stir(t), UNCHANGED requestVars PROVE TypeOK'
  BY <1>52 DEF Stir, TypeOK, LaneTypeOK, Slot, LeasePhases, StartupPhases
<1>53. ASSUME ReleaseOffer, UNCHANGED requestVars PROVE TypeOK'
  BY <1>53
     DEF ReleaseOffer, TrackCleanup, CancelDog, TypeOK, LaneTypeOK, Slot, LeasePhases,
         StartupPhases
<1>54. ASSUME CloseBridge PROVE TypeOK'
  BY <1>54
     DEF CloseBridge, TrackCleanup, CancelDog, TypeOK, LaneTypeOK, Slot, LeasePhases,
         StartupPhases
<1>55. ASSUME CloseOn PROVE TypeOK'
  BY <1>55 DEF CloseOn, Starting, Scrubbed, TypeOK, LaneTypeOK, Slot, LeasePhases, StartupPhases
<1>56. CASE UNCHANGED vars
  BY <1>56 DEF vars, TypeOK, LaneTypeOK, Slot
<1> QED
  BY <1>1, <1>2, <1>3, <1>4, <1>5, <1>6, <1>7, <1>8, <1>9, <1>10, <1>11, <1>12, <1>13, <1>14,
     <1>15, <1>16, <1>17, <1>18, <1>19, <1>20, <1>21, <1>22, <1>23, <1>24, <1>25, <1>26, <1>27,
     <1>28, <1>29, <1>30, <1>31, <1>32, <1>33, <1>34, <1>35, <1>36, <1>37, <1>38, <1>39, <1>40,
     <1>41, <1>42, <1>43, <1>44, <1>45, <1>46, <1>47, <1>48, <1>49, <1>50, <1>51, <1>52, <1>53,
     <1>54, <1>55, <1>56
     DEF Next, Lease, Retained, Transcribe, Synthesize, Talk

(* One request has the lane, and has what its phase needs.                 *)
LEMMA PhaseStep ==
    TypeOK /\ PhaseInv /\ [Next]_vars => PhaseInv'
<1> SUFFICES ASSUME TypeOK, PhaseInv, [Next]_vars PROVE PhaseInv'
  OBVIOUS
<1> USE DEF GoTo, laneVars, leaseVars, offerVars, noticeVars, resourceVars, requestVars,
            ownVars, attemptVars, talkVars
<1>1. ASSUME NEW r \in Talkers, TalkLinked(r) \/ Settled(r) \/ WindingEnds(r)
      PROVE  PhaseInv'
  <2>1. UNCHANGED <<owner, pc, held, parting, front, ask>>
    BY <1>1 DEF TalkLinked, Settled, WindingEnds
  <2>2. QED
    BY <2>1 DEF PhaseInv
<1>2. ASSUME NEW r \in Talkers, NEW who \in Starters, Scrub(r, who)
      PROVE  PhaseInv'
  <2>1. UNCHANGED <<owner, pc, held, parting, front, ask>>
    BY <1>2 DEF Scrub
  <2>2. QED
    BY <2>1 DEF PhaseInv
<1>3. ASSUME NEW t \in Threads, (CloseRetained(t) \/ Expire(t) \/ DogFinds(t) \/ DogBites(t) \/
                DogStops(t) \/ DogStopsLate(t) \/ Stir(t)) /\ UNCHANGED requestVars
      PROVE  PhaseInv'
  <2>1. UNCHANGED <<owner, pc, held, parting, front, ask>>
    BY <1>3 DEF CloseRetained, Expire, DogFinds, DogBites, DogStops, DogStopsLate, Stir
  <2>2. QED
    BY <2>1 DEF PhaseInv
<1>4. ASSUME (ReleaseOffer /\ UNCHANGED requestVars) \/ CloseBridge \/ CloseOn
      PROVE  PhaseInv'
  <2>1. UNCHANGED <<owner, pc, held, parting, front, ask>>
    BY <1>4 DEF ReleaseOffer, CloseBridge, CloseOn
  <2>2. QED
    BY <2>1 DEF PhaseInv
<1>5. ASSUME NEW r \in Requests, LaneBusy(r), UNCHANGED requestVars PROVE PhaseInv'
  BY <1>5 DEF LaneBusy, PhaseInv, OwnerPhases
<1>6. ASSUME NEW r \in Requests, LaneQueue(r), UNCHANGED requestVars PROVE PhaseInv'
  BY <1>6 DEF LaneQueue, PhaseInv, OwnerPhases
<1>7. ASSUME NEW r \in Requests, LaneRetry(r), UNCHANGED requestVars PROVE PhaseInv'
  BY <1>7 DEF LaneRetry, PhaseInv, OwnerPhases
<1>8. ASSUME NEW r \in Requests, LaneTimesOut(r), UNCHANGED requestVars PROVE PhaseInv'
  BY <1>8 DEF LaneTimesOut, PhaseInv, OwnerPhases
<1>9. ASSUME NEW r \in Requests, NEW match \in BOOLEAN, Claim(r, match), UNCHANGED requestVars
      PROVE  PhaseInv'
  BY <1>9, RequestsAssumption
     DEF Claim, TrackCleanup, PhaseInv, OwnerPhases, TypeOK, LaneTypeOK, Requests
<1>10. ASSUME NEW r \in Requests, Recheck(r), UNCHANGED requestVars PROVE PhaseInv'
  BY <1>10, Shapes DEF Recheck, TrackCleanup, PhaseInv, OwnerPhases
<1>11. ASSUME NEW r \in Requests, Sanitize(r), UNCHANGED requestVars PROVE PhaseInv'
  BY <1>11, Shapes DEF Sanitize, TrackCleanup, PhaseInv, OwnerPhases
<1>12. ASSUME NEW r \in Requests, Drained(r), UNCHANGED requestVars PROVE PhaseInv'
  BY <1>12 DEF Drained, PhaseInv, OwnerPhases, TypeOK
<1>13. ASSUME NEW r \in Requests, HandBack(r), UNCHANGED requestVars PROVE PhaseInv'
  BY <1>13 DEF HandBack, TrackCleanup, PhaseInv, OwnerPhases
<1>14. ASSUME NEW r \in Requests, Release(r), UNCHANGED requestVars PROVE PhaseInv'
  BY <1>14, RequestsAssumption DEF Release, PhaseInv, OwnerPhases, TypeOK, LaneTypeOK
<1>15. ASSUME NEW r \in Requests, Call(r) PROVE PhaseInv'
  BY <1>15 DEF Call, PhaseInv, OwnerPhases
<1>16. ASSUME NEW r \in Requests, Look(r) PROVE PhaseInv'
  BY <1>16 DEF Look, PhaseInv, OwnerPhases
<1>17. ASSUME NEW r \in Requests, BodyRead(r) PROVE PhaseInv'
  BY <1>17, NoThread DEF BodyRead, PhaseInv, OwnerPhases, TypeOK
<1>18. ASSUME NEW r \in Requests, StartRead(r) PROVE PhaseInv'
  BY <1>18 DEF StartRead, PhaseInv, OwnerPhases, TypeOK, Requests
<1>19. ASSUME NEW r \in Requests, RefuseAudio(r) PROVE PhaseInv'
  BY <1>19 DEF RefuseAudio, PhaseInv, OwnerPhases
<1>20. ASSUME NEW r \in Requests, RefuseText(r) PROVE PhaseInv'
  BY <1>20 DEF RefuseText, PhaseInv, OwnerPhases
<1>21. ASSUME NEW r \in Requests, Begin(r) PROVE PhaseInv'
  BY <1>21, NoThread, RequestsAssumption DEF Begin, AskThread, PhaseInv, OwnerPhases, TypeOK
<1>22. ASSUME NEW r \in Requests, Started(r) PROVE PhaseInv'
  BY <1>22 DEF Started, PhaseInv, OwnerPhases, TypeOK
<1>23. ASSUME NEW r \in Requests, StartFails(r) \/ NoSession(r) PROVE PhaseInv'
  BY <1>23 DEF StartFails, NoSession, PhaseInv, OwnerPhases, TypeOK
<1>24. ASSUME NEW r \in Requests, StartRejected(r) PROVE PhaseInv'
  BY <1>24 DEF StartRejected, PhaseInv, OwnerPhases, TypeOK
<1>25. ASSUME NEW r \in Requests, Linked(r) PROVE PhaseInv'
  BY <1>25 DEF Linked, PhaseInv, OwnerPhases
<1>26. ASSUME NEW r \in Requests, UseEnds(r) PROVE PhaseInv'
  BY <1>26 DEF UseEnds, Wind, PhaseInv, OwnerPhases, TypeOK
<1>27. ASSUME NEW r \in Requests, Retain(r) PROVE PhaseInv'
  BY <1>27 DEF Retain, PhaseInv, OwnerPhases
<1>28. ASSUME NEW r \in Requests, Stopped(r) PROVE PhaseInv'
  BY <1>28 DEF Stopped, Delete, PhaseInv, OwnerPhases
<1>29. ASSUME NEW r \in Requests, Disposed(r) PROVE PhaseInv'
  BY <1>29 DEF Disposed, PhaseInv, OwnerPhases
<1>30. ASSUME NEW r \in Requests, GiveUp(r) PROVE PhaseInv'
  BY <1>30 DEF GiveUp, PhaseInv, OwnerPhases, TypeOK
<1>31. ASSUME NEW r \in Requests, Dropped(r) PROVE PhaseInv'
  BY <1>31 DEF Dropped, PhaseInv, OwnerPhases, TypeOK
<1>32. ASSUME NEW r \in Requests, Publish(r) PROVE PhaseInv'
  BY <1>32 DEF Publish, PhaseInv, OwnerPhases, TypeOK
<1>33. ASSUME NEW r \in Requests, Speak(r) PROVE PhaseInv'
  BY <1>33 DEF Speak, CloseHeld, PhaseInv, OwnerPhases, TypeOK
<1>34. ASSUME NEW r \in Requests, Spoken(r) PROVE PhaseInv'
  BY <1>34 DEF Spoken, CloseHeld, TrackCleanup, PhaseInv, OwnerPhases
<1>35. ASSUME NEW r \in Requests, HeldClosed(r) PROVE PhaseInv'
  BY <1>35 DEF HeldClosed, PhaseInv, OwnerPhases, TypeOK
<1>36. ASSUME NEW r \in Talkers, StartTalk(r) PROVE PhaseInv'
  BY <1>36, RequestsAssumption DEF StartTalk, AskThread, PhaseInv, OwnerPhases
<1>37. ASSUME NEW r \in Talkers, ExecStarted(r) PROVE PhaseInv'
  BY <1>37 DEF ExecStarted, IsNext, PhaseInv, OwnerPhases
<1>38. ASSUME NEW r \in Talkers, FrontStarted(r) PROVE PhaseInv'
  BY <1>38, RequestsAssumption
     DEF FrontStarted, EndStartup, TakeOver, PhaseInv, TypeOK, Requests
<1>39. ASSUME NEW r \in Talkers, StartupFails(r) PROVE PhaseInv'
  <2>1. EndStartup(r, "failed", Owned(r)) /\ UNCHANGED <<owner, pc, held, parting>>
    BY <1>39, StartupFailsEffect
  <2>2. \A q \in Requests \ {r} : ask'[q] = ask[q] /\ front'[q] = front[q]
    BY <1>39, <2>1, StartupFailsEffect, EndStartupEffect
  <2>3. QED
    BY <2>1, <2>2, RequestsAssumption DEF PhaseInv, Requests
<1>40. ASSUME NEW r \in Talkers, Interrupt(r) PROVE PhaseInv'
  BY <1>40 DEF Interrupt, LeaveTalk, TakeOver, Owned, PhaseInv, OwnerPhases, TypeOK
<1>41. ASSUME NEW r \in Talkers, HaltStartup(r) PROVE PhaseInv'
  BY <1>41, EndStartupEffect, NoThread, RequestsAssumption
     DEF HaltStartup, Owned, PhaseInv, OwnerPhases, TypeOK, LaneTypeOK, Slot, Requests, Starters
<1>42. ASSUME NEW r \in Talkers, Halted(r) PROVE PhaseInv'
  BY <1>42 DEF Halted, LeaveTalk, TakeOver, Owned, Starting, PhaseInv, OwnerPhases
<1>43. ASSUME NEW r \in Talkers, StartupEnds(r) PROVE PhaseInv'
  BY <1>43 DEF StartupEnds, LeaveTalk, TakeOver, Owned, PhaseInv, OwnerPhases, TypeOK
<1>44. ASSUME NEW r \in Talkers, TalkEnds(r) PROVE PhaseInv'
  BY <1>44 DEF TalkEnds, LeaveTalk, TakeOver, Owned, PhaseInv, OwnerPhases
<1>45. ASSUME NEW r \in Talkers, Left(r) PROVE PhaseInv'
  BY <1>45 DEF Left, PhaseInv, OwnerPhases
<1>46. CASE UNCHANGED vars
  BY <1>46 DEF vars, PhaseInv
<1> QED
  BY <1>1, <1>2, <1>3, <1>4, <1>5, <1>6, <1>7, <1>8, <1>9, <1>10, <1>11, <1>12, <1>13, <1>14,
     <1>15, <1>16, <1>17, <1>18, <1>19, <1>20, <1>21, <1>22, <1>23, <1>24, <1>25, <1>26, <1>27,
     <1>28, <1>29, <1>30, <1>31, <1>32, <1>33, <1>34, <1>35, <1>36, <1>37, <1>38, <1>39, <1>40,
     <1>41, <1>42, <1>43, <1>44, <1>45, <1>46
     DEF Next, Lease, Retained, Transcribe, Synthesize, Talk

(* An attempt follows a timeout only while there is one left.              *)
LEMMA AttemptStep ==
    TypeOK /\ PhaseInv /\ AttemptInv /\ [Next]_vars => AttemptInv'
<1> SUFFICES ASSUME TypeOK, PhaseInv, AttemptInv, [Next]_vars PROVE AttemptInv'
  OBVIOUS
<1> USE DEF GoTo, laneVars, leaseVars, offerVars, noticeVars, resourceVars, requestVars,
            ownVars, attemptVars, talkVars
<1>1. ASSUME NEW r \in Talkers, ExecStarted(r) \/ FrontStarted(r) \/ TalkLinked(r) \/ Settled(r)
                \/ StartupFails(r) \/ WindingEnds(r) \/ HaltStartup(r)
      PROVE  AttemptInv'
  <2>1. UNCHANGED <<pc, attempts>>
    BY <1>1
       DEF ExecStarted, FrontStarted, TalkLinked, Settled, StartupFails, WindingEnds,
           HaltStartup
  <2>2. QED
    BY <2>1 DEF AttemptInv
<1>2. ASSUME NEW r \in Talkers, NEW who \in Starters, Scrub(r, who)
      PROVE  AttemptInv'
  <2>1. UNCHANGED <<pc, attempts>>
    BY <1>2 DEF Scrub
  <2>2. QED
    BY <2>1 DEF AttemptInv
<1>3. ASSUME NEW t \in Threads, (CloseRetained(t) \/ Expire(t) \/ DogFinds(t) \/ DogBites(t) \/
                DogStops(t) \/ DogStopsLate(t) \/ Stir(t)) /\ UNCHANGED requestVars
      PROVE  AttemptInv'
  <2>1. UNCHANGED <<pc, attempts>>
    BY <1>3 DEF CloseRetained, Expire, DogFinds, DogBites, DogStops, DogStopsLate, Stir
  <2>2. QED
    BY <2>1 DEF AttemptInv
<1>4. ASSUME (ReleaseOffer /\ UNCHANGED requestVars) \/ CloseBridge \/ CloseOn
      PROVE  AttemptInv'
  <2>1. UNCHANGED <<pc, attempts>>
    BY <1>4 DEF ReleaseOffer, CloseBridge, CloseOn
  <2>2. QED
    BY <2>1 DEF AttemptInv
<1>5. ASSUME NEW r \in Requests, LaneBusy(r), UNCHANGED requestVars PROVE AttemptInv'
  BY <1>5 DEF LaneBusy, AttemptInv
<1>6. ASSUME NEW r \in Requests, LaneQueue(r), UNCHANGED requestVars PROVE AttemptInv'
  BY <1>6 DEF LaneQueue, AttemptInv
<1>7. ASSUME NEW r \in Requests, LaneRetry(r), UNCHANGED requestVars PROVE AttemptInv'
  BY <1>7 DEF LaneRetry, AttemptInv
<1>8. ASSUME NEW r \in Requests, LaneTimesOut(r), UNCHANGED requestVars PROVE AttemptInv'
  BY <1>8 DEF LaneTimesOut, AttemptInv
<1>9. ASSUME NEW r \in Requests, NEW match \in BOOLEAN, Claim(r, match), UNCHANGED requestVars
      PROVE  AttemptInv'
  BY <1>9, SettingsAssumption DEF Claim, AttemptInv, TypeOK, Requests
<1>10. ASSUME NEW r \in Requests, Recheck(r), UNCHANGED requestVars PROVE AttemptInv'
  BY <1>10 DEF Recheck, AttemptInv, TypeOK, Requests
<1>11. ASSUME NEW r \in Requests, Sanitize(r), UNCHANGED requestVars PROVE AttemptInv'
  BY <1>11, RequestsAssumption DEF Sanitize, AttemptInv, TypeOK, Requests, PhaseInv
<1>12. ASSUME NEW r \in Requests, Drained(r), UNCHANGED requestVars PROVE AttemptInv'
  BY <1>12, SettingsAssumption DEF Drained, AttemptInv
<1>13. ASSUME NEW r \in Requests, HandBack(r), UNCHANGED requestVars PROVE AttemptInv'
  BY <1>13 DEF HandBack, TrackCleanup, AttemptInv
<1>14. ASSUME NEW r \in Requests, Release(r), UNCHANGED requestVars PROVE AttemptInv'
  BY <1>14 DEF Release, AttemptInv
<1>15. ASSUME NEW r \in Requests, Call(r) PROVE AttemptInv'
  BY <1>15 DEF Call, AttemptInv
<1>16. ASSUME NEW r \in Requests, Look(r) PROVE AttemptInv'
  BY <1>16 DEF Look, AttemptInv
<1>17. ASSUME NEW r \in Requests, BodyRead(r) PROVE AttemptInv'
  BY <1>17, RequestsAssumption DEF BodyRead, AttemptInv, TypeOK, Requests
<1>18. ASSUME NEW r \in Requests, StartRead(r) PROVE AttemptInv'
  BY <1>18, RequestsAssumption DEF StartRead, AttemptInv, TypeOK, Requests
<1>19. ASSUME NEW r \in Requests, RefuseAudio(r) PROVE AttemptInv'
  BY <1>19 DEF RefuseAudio, AttemptInv
<1>20. ASSUME NEW r \in Requests, RefuseText(r) PROVE AttemptInv'
  BY <1>20 DEF RefuseText, AttemptInv
<1>21. ASSUME NEW r \in Requests, Begin(r) PROVE AttemptInv'
  BY <1>21 DEF Begin, AttemptInv, TypeOK
<1>22. ASSUME NEW r \in Requests, Started(r) PROVE AttemptInv'
  BY <1>22 DEF Started, AttemptInv
<1>23. ASSUME NEW r \in Requests, StartFails(r) \/ NoSession(r) PROVE AttemptInv'
  <2>1. CASE StartFails(r)
    BY <2>1 DEF StartFails, AttemptInv
  <2>2. CASE NoSession(r)
    BY <2>2 DEF NoSession, AttemptInv
  <2>3. QED
    BY <1>23, <2>1, <2>2
<1>24. ASSUME NEW r \in Requests, StartRejected(r) PROVE AttemptInv'
  BY <1>24 DEF StartRejected, Delete, AttemptInv
<1>25. ASSUME NEW r \in Requests, Linked(r) PROVE AttemptInv'
  BY <1>25 DEF Linked, AttemptInv
<1>26. ASSUME NEW r \in Requests, UseEnds(r) PROVE AttemptInv'
  BY <1>26 DEF UseEnds, Wind, AttemptInv, TypeOK, Requests
<1>27. ASSUME NEW r \in Requests, Retain(r) PROVE AttemptInv'
  BY <1>27 DEF Retain, AttemptInv
<1>28. ASSUME NEW r \in Requests, Stopped(r) PROVE AttemptInv'
  BY <1>28 DEF Stopped, Delete, AttemptInv
<1>29. ASSUME NEW r \in Requests, Disposed(r) PROVE AttemptInv'
  BY <1>29 DEF Disposed, AttemptInv
<1>30. ASSUME NEW r \in Requests, GiveUp(r) PROVE AttemptInv'
  BY <1>30 DEF GiveUp, AttemptInv, TypeOK, Requests
<1>31. ASSUME NEW r \in Requests, Dropped(r) PROVE AttemptInv'
  BY <1>31 DEF Dropped, AttemptInv
<1>32. ASSUME NEW r \in Requests, Publish(r) PROVE AttemptInv'
  BY <1>32 DEF Publish, AttemptInv
<1>33. ASSUME NEW r \in Requests, Speak(r) PROVE AttemptInv'
  BY <1>33 DEF Speak, CloseHeld, AttemptInv, TypeOK, Requests
<1>34. ASSUME NEW r \in Requests, Spoken(r) PROVE AttemptInv'
  BY <1>34 DEF Spoken, CloseHeld, TrackCleanup, AttemptInv
<1>35. ASSUME NEW r \in Requests, HeldClosed(r) PROVE AttemptInv'
  BY <1>35, RequestsAssumption DEF HeldClosed, AttemptInv, PhaseInv
<1>36. ASSUME NEW r \in Talkers, StartTalk(r) PROVE AttemptInv'
  BY <1>36 DEF StartTalk, AskThread, IsNext, AttemptInv
<1>37. ASSUME NEW r \in Talkers, Interrupt(r) PROVE AttemptInv'
  BY <1>37 DEF Interrupt, LeaveTalk, AttemptInv, TypeOK, Requests
<1>38. ASSUME NEW r \in Talkers, Halted(r) PROVE AttemptInv'
  BY <1>38 DEF Halted, LeaveTalk, TakeOver, Owned, Starting, AttemptInv
<1>39. ASSUME NEW r \in Talkers, StartupEnds(r) PROVE AttemptInv'
  BY <1>39 DEF StartupEnds, LeaveTalk, AttemptInv, TypeOK, Requests
<1>40. ASSUME NEW r \in Talkers, TalkEnds(r) PROVE AttemptInv'
  BY <1>40 DEF TalkEnds, LeaveTalk, TakeOver, Owned, AttemptInv
<1>41. ASSUME NEW r \in Talkers, Left(r) PROVE AttemptInv'
  BY <1>41 DEF Left, AttemptInv
<1>42. CASE UNCHANGED vars
  BY <1>42 DEF vars, AttemptInv
<1> QED
  BY <1>1, <1>2, <1>3, <1>4, <1>5, <1>6, <1>7, <1>8, <1>9, <1>10, <1>11, <1>12, <1>13, <1>14,
     <1>15, <1>16, <1>17, <1>18, <1>19, <1>20, <1>21, <1>22, <1>23, <1>24, <1>25, <1>26, <1>27,
     <1>28, <1>29, <1>30, <1>31, <1>32, <1>33, <1>34, <1>35, <1>36, <1>37, <1>38, <1>39, <1>40,
     <1>41, <1>42
     DEF Next, Lease, Retained, Transcribe, Synthesize, Talk

(* A startup and its handler keep step, whoever ends first.                *)
LEMMA TalkStep ==
    TypeOK /\ PhaseInv /\ RestInv /\ TalkInv /\ [Next]_vars => TalkInv'
<1> SUFFICES ASSUME TypeOK, PhaseInv, RestInv, TalkInv, [Next]_vars PROVE TalkInv'
  OBVIOUS
<1> USE DEF GoTo, laneVars, leaseVars, offerVars, noticeVars, resourceVars, requestVars,
            ownVars, attemptVars, talkVars
<1>1. ASSUME NEW r \in Talkers, NEW who \in Starters, Scrub(r, who)
      PROVE  TalkInv'
  <2>1. UNCHANGED <<pc, startup, abandoned, front, ask, exec>>
    BY <1>1 DEF Scrub
  <2>2. QED
    BY <2>1 DEF TalkInv
<1>2. ASSUME NEW t \in Threads, (CloseRetained(t) \/ Expire(t) \/ DogFinds(t) \/ DogBites(t) \/
                DogStops(t) \/ DogStopsLate(t) \/ Stir(t)) /\ UNCHANGED requestVars
      PROVE  TalkInv'
  <2>1. UNCHANGED <<pc, startup, abandoned, front, ask, exec>>
    BY <1>2 DEF CloseRetained, Expire, DogFinds, DogBites, DogStops, DogStopsLate, Stir
  <2>2. QED
    BY <2>1 DEF TalkInv
<1>3. ASSUME (ReleaseOffer /\ UNCHANGED requestVars) \/ CloseBridge \/ CloseOn
      PROVE  TalkInv'
  <2>1. UNCHANGED <<pc, startup, abandoned, front, ask, exec>>
    BY <1>3 DEF ReleaseOffer, CloseBridge, CloseOn
  <2>2. QED
    BY <2>1 DEF TalkInv
<1>4. ASSUME NEW r \in Requests, LaneBusy(r), UNCHANGED requestVars PROVE TalkInv'
  BY <1>4 DEF LaneBusy, TalkInv
<1>5. ASSUME NEW r \in Requests, LaneQueue(r), UNCHANGED requestVars PROVE TalkInv'
  BY <1>5 DEF LaneQueue, TalkInv
<1>6. ASSUME NEW r \in Requests, LaneRetry(r), UNCHANGED requestVars PROVE TalkInv'
  BY <1>6 DEF LaneRetry, TalkInv
<1>7. ASSUME NEW r \in Requests, LaneTimesOut(r), UNCHANGED requestVars PROVE TalkInv'
  BY <1>7 DEF LaneTimesOut, TalkInv
<1>8. ASSUME NEW r \in Requests, NEW match \in BOOLEAN, Claim(r, match), UNCHANGED requestVars
      PROVE  TalkInv'
  BY <1>8 DEF Claim, TalkInv, TypeOK, Requests
<1>9. ASSUME NEW r \in Requests, Recheck(r), UNCHANGED requestVars PROVE TalkInv'
  BY <1>9 DEF Recheck, TalkInv, TypeOK, Requests
<1>10. ASSUME NEW r \in Requests, Sanitize(r), UNCHANGED requestVars PROVE TalkInv'
  BY <1>10, RequestsAssumption DEF Sanitize, TalkInv, TypeOK, Requests, PhaseInv
<1>11. ASSUME NEW r \in Requests, Drained(r), UNCHANGED requestVars PROVE TalkInv'
  BY <1>11 DEF Drained, TalkInv
<1>12. ASSUME NEW r \in Requests, HandBack(r), UNCHANGED requestVars PROVE TalkInv'
  BY <1>12 DEF HandBack, TrackCleanup, TalkInv
<1>13. ASSUME NEW r \in Requests, Release(r), UNCHANGED requestVars PROVE TalkInv'
  BY <1>13 DEF Release, TalkInv
<1>14. ASSUME NEW r \in Requests, Call(r) PROVE TalkInv'
  BY <1>14 DEF Call, TalkInv
<1>15. ASSUME NEW r \in Requests, Look(r) PROVE TalkInv'
  BY <1>15 DEF Look, TalkInv
<1>16. ASSUME NEW r \in Requests, BodyRead(r) PROVE TalkInv'
  BY <1>16 DEF BodyRead, TalkInv, TypeOK, Requests
<1>17. ASSUME NEW r \in Requests, StartRead(r) PROVE TalkInv'
  BY <1>17 DEF StartRead, TalkInv, TypeOK, Requests
<1>18. ASSUME NEW r \in Requests, RefuseAudio(r) PROVE TalkInv'
  BY <1>18 DEF RefuseAudio, TalkInv
<1>19. ASSUME NEW r \in Requests, RefuseText(r) PROVE TalkInv'
  BY <1>19 DEF RefuseText, TalkInv
<1>20. ASSUME NEW r \in Requests, Begin(r) PROVE TalkInv'
  BY <1>20 DEF Begin, AskThread, IsNext, TalkInv
<1>21. ASSUME NEW r \in Requests, Started(r) PROVE TalkInv'
  BY <1>21 DEF Started, TalkInv, PhaseInv
<1>22. ASSUME NEW r \in Requests, StartFails(r) \/ NoSession(r) PROVE TalkInv'
  <2>1. CASE StartFails(r)
    BY <2>1 DEF StartFails, TalkInv, PhaseInv
  <2>2. CASE NoSession(r)
    BY <2>2 DEF NoSession, TalkInv, PhaseInv
  <2>3. QED
    BY <1>22, <2>1, <2>2
<1>23. ASSUME NEW r \in Requests, StartRejected(r) PROVE TalkInv'
  BY <1>23 DEF StartRejected, TalkInv, PhaseInv
<1>24. ASSUME NEW r \in Requests, Linked(r) PROVE TalkInv'
  BY <1>24 DEF Linked, TalkInv
<1>25. ASSUME NEW r \in Requests, UseEnds(r) PROVE TalkInv'
  BY <1>25 DEF UseEnds, Wind, TalkInv, TypeOK, Requests
<1>26. ASSUME NEW r \in Requests, Retain(r) PROVE TalkInv'
  BY <1>26 DEF Retain, TalkInv
<1>27. ASSUME NEW r \in Requests, Stopped(r) PROVE TalkInv'
  BY <1>27 DEF Stopped, Delete, TalkInv
<1>28. ASSUME NEW r \in Requests, Disposed(r) PROVE TalkInv'
  BY <1>28 DEF Disposed, TalkInv, PhaseInv
<1>29. ASSUME NEW r \in Requests, GiveUp(r) PROVE TalkInv'
  BY <1>29, RequestsAssumption DEF GiveUp, TalkInv, TypeOK, Requests
<1>30. ASSUME NEW r \in Requests, Dropped(r) PROVE TalkInv'
  BY <1>30 DEF Dropped, TalkInv
<1>31. ASSUME NEW r \in Requests, Publish(r) PROVE TalkInv'
  BY <1>31 DEF Publish, TalkInv
<1>32. ASSUME NEW r \in Requests, Speak(r) PROVE TalkInv'
  BY <1>32 DEF Speak, CloseHeld, TalkInv, TypeOK, Requests
<1>33. ASSUME NEW r \in Requests, Spoken(r) PROVE TalkInv'
  BY <1>33 DEF Spoken, CloseHeld, TrackCleanup, TalkInv
<1>34. ASSUME NEW r \in Requests, HeldClosed(r) PROVE TalkInv'
  BY <1>34, RequestsAssumption DEF HeldClosed, TalkInv, PhaseInv
<1>35. ASSUME NEW r \in Talkers, StartTalk(r) PROVE TalkInv'
  <2>1. front[r] = None /\ exec[r] = None
    <3>1. pc[r] = "granted" /\ startup[r] = "off"
      BY <1>35 DEF StartTalk, TalkInv
    <3>2. QED
      BY <3>1 DEF RestInv
  <2>2. PICK t \in Threads : ask' = [ask EXCEPT ![r] = t]
    BY <1>35 DEF StartTalk, AskThread
  <2>3. QED
    BY <1>35, <2>1, <2>2, NoThread DEF StartTalk, TalkInv, TypeOK, Requests
<1>36. ASSUME NEW r \in Talkers, ExecStarted(r) PROVE TalkInv'
  BY <1>36, NoThread DEF ExecStarted, TalkInv, TypeOK
<1>37. ASSUME NEW r \in Talkers, FrontStarted(r) PROVE TalkInv'
  BY <1>37 DEF FrontStarted, EndStartup, TakeOver, TalkInv, TypeOK, Requests
<1>38. ASSUME NEW r \in Talkers, TalkLinked(r) PROVE TalkInv'
  BY <1>38 DEF TalkLinked, TalkInv
<1>39. ASSUME NEW r \in Talkers, Settled(r) PROVE TalkInv'
  BY <1>39 DEF Settled, TalkInv
<1>40. ASSUME NEW r \in Talkers, StartupFails(r) PROVE TalkInv'
  <2>1. EndStartup(r, "failed", Owned(r)) /\ UNCHANGED <<pc, abandoned>>
    BY <1>40, StartupFailsEffect
  <2>2. \A q \in Talkers \ {r} : UNCHANGED <<startup[q], ask[q], front[q], exec[q]>>
    BY <1>40, <2>1, StartupFailsEffect, EndStartupEffect DEF Requests
  <2>3. /\ startup'[r] \in {"failed", "winding"} /\ (startup'[r] = "winding" => r \in abandoned)
        /\ startup[r] \in {"exec", "front", "link", "settle"}
    BY <1>40, <2>1, StartupFailsEffect, EndStartupEffect
  <2>4. QED
    BY <2>1, <2>2, <2>3 DEF TalkInv
<1>41. ASSUME NEW r \in Talkers, WindingEnds(r) PROVE TalkInv'
  BY <1>41 DEF WindingEnds, TalkInv
<1>42. ASSUME NEW r \in Talkers, Interrupt(r) PROVE TalkInv'
  BY <1>42 DEF Interrupt, LeaveTalk, TakeOver, Starting, TalkInv, TypeOK, Requests
<1>43. ASSUME NEW r \in Talkers, HaltStartup(r) PROVE TalkInv'
  BY <1>43, EndStartupEffect, NoThread, Shapes DEF HaltStartup, Owned, TalkInv, Requests
<1>44. ASSUME NEW r \in Talkers, Halted(r) PROVE TalkInv'
  BY <1>44 DEF Halted, LeaveTalk, TakeOver, Owned, Starting, TalkInv
<1>45. ASSUME NEW r \in Talkers, StartupEnds(r) PROVE TalkInv'
  BY <1>45 DEF StartupEnds, LeaveTalk, TakeOver, TalkInv, TypeOK, Requests
<1>46. ASSUME NEW r \in Talkers, TalkEnds(r) PROVE TalkInv'
  BY <1>46 DEF TalkEnds, LeaveTalk, TakeOver, Owned, TalkInv
<1>47. ASSUME NEW r \in Talkers, Left(r) PROVE TalkInv'
  BY <1>47 DEF Left, TalkInv
<1>48. CASE UNCHANGED vars
  BY <1>48 DEF vars, TalkInv
<1> QED
  BY <1>1, <1>2, <1>3, <1>4, <1>5, <1>6, <1>7, <1>8, <1>9, <1>10, <1>11, <1>12, <1>13, <1>14,
     <1>15, <1>16, <1>17, <1>18, <1>19, <1>20, <1>21, <1>22, <1>23, <1>24, <1>25, <1>26, <1>27,
     <1>28, <1>29, <1>30, <1>31, <1>32, <1>33, <1>34, <1>35, <1>36, <1>37, <1>38, <1>39, <1>40,
     <1>41, <1>42, <1>43, <1>44, <1>45, <1>46, <1>47, <1>48
     DEF Next, Lease, Retained, Transcribe, Synthesize, Talk

(* The lane is claimed only when nothing is being closed, and then closes  *)
(* only what it took over.                                                 *)
LEMMA CleanStep ==
    TypeOK /\ PhaseInv /\ CleanInv /\ [Next]_vars => CleanInv'
<1> SUFFICES ASSUME TypeOK, PhaseInv, CleanInv, [Next]_vars PROVE CleanInv'
  OBVIOUS
<1> USE DEF GoTo, laneVars, leaseVars, offerVars, noticeVars, resourceVars, requestVars,
            ownVars, attemptVars, talkVars
<1>1. ASSUME NEW r \in Talkers, ExecStarted(r) \/ TalkLinked(r) \/ Settled(r) \/ WindingEnds(r)
      PROVE  CleanInv'
  <2>1. UNCHANGED <<pc, offer, cleaning, parting, held, front>>
    BY <1>1 DEF ExecStarted, TalkLinked, Settled, WindingEnds
  <2>2. QED
    BY <2>1 DEF CleanInv
<1>2. ASSUME NEW r \in Talkers, NEW who \in Starters, Scrub(r, who)
      PROVE  CleanInv'
  <2>1. UNCHANGED <<pc, offer, cleaning, parting, held, front>>
    BY <1>2 DEF Scrub
  <2>2. QED
    BY <2>1 DEF CleanInv
<1>3. ASSUME NEW t \in Threads, (Expire(t) \/ DogFinds(t) \/ DogStops(t) \/ DogStopsLate(t) \/
                Stir(t)) /\ UNCHANGED requestVars
      PROVE  CleanInv'
  <2>1. UNCHANGED <<pc, offer, cleaning, parting, held, front>>
    BY <1>3 DEF Expire, DogFinds, DogStops, DogStopsLate, Stir
  <2>2. QED
    BY <2>1 DEF CleanInv
<1>4. ASSUME CloseOn
      PROVE  CleanInv'
  <2>1. UNCHANGED <<pc, offer, cleaning, parting, held, front>>
    BY <1>4 DEF CloseOn
  <2>2. QED
    BY <2>1 DEF CleanInv
<1>5. ASSUME NEW r \in Requests, LaneBusy(r), UNCHANGED requestVars PROVE CleanInv'
  BY <1>5 DEF LaneBusy, CleanInv, OwnerPhases
<1>6. ASSUME NEW r \in Requests, LaneQueue(r), UNCHANGED requestVars PROVE CleanInv'
  BY <1>6 DEF LaneQueue, CleanInv, OwnerPhases
<1>7. ASSUME NEW r \in Requests, LaneRetry(r), UNCHANGED requestVars PROVE CleanInv'
  BY <1>7 DEF LaneRetry, CleanInv, OwnerPhases
<1>8. ASSUME NEW r \in Requests, LaneTimesOut(r), UNCHANGED requestVars PROVE CleanInv'
  BY <1>8 DEF LaneTimesOut, CleanInv, OwnerPhases
<1>9. ASSUME NEW r \in Requests, NEW match \in BOOLEAN, Claim(r, match), UNCHANGED requestVars
      PROVE  CleanInv'
  BY <1>9, RequestsAssumption
     DEF Claim, TrackCleanup, CleanInv, TypeOK, LaneTypeOK, Requests, PhaseInv, OwnerPhases
<1>10. ASSUME NEW r \in Requests, Recheck(r), UNCHANGED requestVars PROVE CleanInv'
  BY <1>10 DEF Recheck, TrackCleanup, CleanInv, TypeOK, PhaseInv, OwnerPhases
<1>11. ASSUME NEW r \in Requests, Sanitize(r), UNCHANGED requestVars PROVE CleanInv'
  BY <1>11 DEF Sanitize, TrackCleanup, CleanInv, TypeOK, Requests, PhaseInv, OwnerPhases
<1>12. ASSUME NEW r \in Requests, Drained(r), UNCHANGED requestVars PROVE CleanInv'
  BY <1>12 DEF Drained, CleanInv, OwnerPhases
<1>13. ASSUME NEW r \in Requests, HandBack(r), UNCHANGED requestVars PROVE CleanInv'
  BY <1>13 DEF HandBack, CleanInv, PhaseInv, OwnerPhases
<1>14. ASSUME NEW r \in Requests, Release(r), UNCHANGED requestVars PROVE CleanInv'
  BY <1>14 DEF Release, CleanInv, OwnerPhases
<1>15. ASSUME NEW r \in Requests, Call(r) PROVE CleanInv'
  BY <1>15 DEF Call, CleanInv, OwnerPhases
<1>16. ASSUME NEW r \in Requests, Look(r) PROVE CleanInv'
  BY <1>16 DEF Look, CleanInv, OwnerPhases
<1>17. ASSUME NEW r \in Requests, BodyRead(r) PROVE CleanInv'
  BY <1>17, RequestsAssumption DEF BodyRead, CleanInv, TypeOK, Requests, OwnerPhases
<1>18. ASSUME NEW r \in Requests, StartRead(r) PROVE CleanInv'
  BY <1>18 DEF StartRead, CleanInv, TypeOK, Requests, Starters, OwnerPhases
<1>19. ASSUME NEW r \in Requests, RefuseAudio(r) PROVE CleanInv'
  BY <1>19 DEF RefuseAudio, CleanInv
<1>20. ASSUME NEW r \in Requests, RefuseText(r) PROVE CleanInv'
  BY <1>20 DEF RefuseText, CleanInv
<1>21. ASSUME NEW r \in Requests, Begin(r) PROVE CleanInv'
  BY <1>21 DEF Begin, CleanInv, OwnerPhases
<1>22. ASSUME NEW r \in Requests, Started(r) PROVE CleanInv'
  BY <1>22 DEF Started, CleanInv, OwnerPhases
<1>23. ASSUME NEW r \in Requests, StartFails(r) \/ NoSession(r) PROVE CleanInv'
  <2>1. CASE StartFails(r)
    BY <2>1 DEF StartFails, CleanInv
  <2>2. CASE NoSession(r)
    BY <2>2 DEF NoSession, CleanInv
  <2>3. QED
    BY <1>23, <2>1, <2>2
<1>24. ASSUME NEW r \in Requests, StartRejected(r) PROVE CleanInv'
  BY <1>24 DEF StartRejected, CleanInv, OwnerPhases
<1>25. ASSUME NEW r \in Requests, Linked(r) PROVE CleanInv'
  BY <1>25 DEF Linked, CleanInv, OwnerPhases
<1>26. ASSUME NEW r \in Requests, UseEnds(r) PROVE CleanInv'
  BY <1>26 DEF UseEnds, Wind, CleanInv, OwnerPhases
<1>27. ASSUME NEW r \in Requests, Retain(r) PROVE CleanInv'
  BY <1>27 DEF Retain, CleanInv, OwnerPhases
<1>28. ASSUME NEW r \in Requests, Stopped(r) PROVE CleanInv'
  BY <1>28 DEF Stopped, CleanInv, OwnerPhases
<1>29. ASSUME NEW r \in Requests, Disposed(r) PROVE CleanInv'
  BY <1>29 DEF Disposed, CleanInv, OwnerPhases
<1>30. ASSUME NEW r \in Requests, GiveUp(r) PROVE CleanInv'
  BY <1>30 DEF GiveUp, TrackCleanup, CleanInv, TypeOK, PhaseInv, OwnerPhases
<1>31. ASSUME NEW r \in Requests, Dropped(r) PROVE CleanInv'
  BY <1>31 DEF Dropped, CleanInv
<1>32. ASSUME NEW r \in Requests, Publish(r) PROVE CleanInv'
  BY <1>32 DEF Publish, CleanInv, TypeOK, PhaseInv, OwnerPhases
<1>33. ASSUME NEW r \in Requests, Speak(r) PROVE CleanInv'
  BY <1>33 DEF Speak, CloseHeld, TrackCleanup, CleanInv, TypeOK, PhaseInv, OwnerPhases
<1>34. ASSUME NEW r \in Requests, Spoken(r) PROVE CleanInv'
  BY <1>34 DEF Spoken, CloseHeld, TrackCleanup, CleanInv, TypeOK, PhaseInv, OwnerPhases
<1>35. ASSUME NEW r \in Requests, HeldClosed(r) PROVE CleanInv'
  BY <1>35 DEF HeldClosed, CleanInv, OwnerPhases
<1>36. ASSUME NEW r \in Talkers, StartTalk(r) PROVE CleanInv'
  BY <1>36 DEF StartTalk, CleanInv, OwnerPhases
<1>37. ASSUME NEW r \in Talkers, FrontStarted(r) PROVE CleanInv'
  BY <1>37, RequestsAssumption
     DEF FrontStarted, EndStartup, TakeOver, CleanInv, TypeOK, Requests, PhaseInv
<1>38. ASSUME NEW r \in Talkers, StartupFails(r) PROVE CleanInv'
  <2>1. EndStartup(r, "failed", Owned(r)) /\ UNCHANGED <<pc, offer, cleaning, parting, held>>
    BY <1>38, StartupFailsEffect
  <2>2. \A q \in Requests \ {r} : front'[q] = front[q]
    BY <2>1, EndStartupEffect
  <2>3. QED
    BY <2>1, <2>2, RequestsAssumption DEF CleanInv, PhaseInv, Requests
<1>39. ASSUME NEW r \in Talkers, Interrupt(r) PROVE CleanInv'
  BY <1>39 DEF Interrupt, LeaveTalk, TakeOver, CleanInv, TypeOK, OwnerPhases
<1>40. ASSUME NEW r \in Talkers, HaltStartup(r) PROVE CleanInv'
  BY <1>40, EndStartupEffect, NoThread, RequestsAssumption
     DEF HaltStartup, Owned, CleanInv, TypeOK, LaneTypeOK, Slot, Requests, Starters, PhaseInv,
         OwnerPhases
<1>41. ASSUME NEW r \in Talkers, Halted(r) PROVE CleanInv'
  BY <1>41 DEF Halted, LeaveTalk, TakeOver, CleanInv, OwnerPhases
<1>42. ASSUME NEW r \in Talkers, StartupEnds(r) PROVE CleanInv'
  BY <1>42 DEF StartupEnds, LeaveTalk, TakeOver, CleanInv, TypeOK, OwnerPhases
<1>43. ASSUME NEW r \in Talkers, TalkEnds(r) PROVE CleanInv'
  BY <1>43 DEF TalkEnds, LeaveTalk, TakeOver, CleanInv, OwnerPhases
<1>44. ASSUME NEW r \in Talkers, Left(r) PROVE CleanInv'
  BY <1>44 DEF Left, CleanInv
<1>45. ASSUME NEW t \in Threads, CloseRetained(t), UNCHANGED requestVars PROVE CleanInv'
  BY <1>45 DEF CloseRetained, Delete, CleanInv
<1>46. ASSUME NEW t \in Threads, DogBites(t), UNCHANGED requestVars PROVE CleanInv'
  BY <1>46, NoThread DEF DogBites, CleanInv, OwnerPhases
<1>47. ASSUME ReleaseOffer, UNCHANGED requestVars PROVE CleanInv'
  BY <1>47 DEF ReleaseOffer, CleanInv, OwnerPhases
<1>48. ASSUME CloseBridge PROVE CleanInv'
  BY <1>48 DEF CloseBridge, TrackCleanup, CancelDog, CleanInv
<1>49. CASE UNCHANGED vars
  BY <1>49 DEF vars, CleanInv
<1> QED
  BY <1>1, <1>2, <1>3, <1>4, <1>5, <1>6, <1>7, <1>8, <1>9, <1>10, <1>11, <1>12, <1>13, <1>14,
     <1>15, <1>16, <1>17, <1>18, <1>19, <1>20, <1>21, <1>22, <1>23, <1>24, <1>25, <1>26, <1>27,
     <1>28, <1>29, <1>30, <1>31, <1>32, <1>33, <1>34, <1>35, <1>36, <1>37, <1>38, <1>39, <1>40,
     <1>41, <1>42, <1>43, <1>44, <1>45, <1>46, <1>47, <1>48, <1>49
     DEF Next, Lease, Retained, Transcribe, Synthesize, Talk

(* A transport is set up and stopped only by the request that has it.      *)
LEMMA StillStep ==
    TypeOK /\ PhaseInv /\ TalkInv /\ CleanInv /\ UpInv /\ StillInv /\ [Next]_vars => StillInv'
<1> SUFFICES ASSUME TypeOK, PhaseInv, TalkInv, CleanInv, UpInv, StillInv, [Next]_vars
             PROVE  StillInv'
  OBVIOUS
<1> USE DEF GoTo, laneVars, leaseVars, offerVars, noticeVars, resourceVars, requestVars,
            ownVars, attemptVars, talkVars
<1>1. ASSUME NEW r \in Talkers, ExecStarted(r) \/ Settled(r) \/ WindingEnds(r)
      PROVE  StillInv'
  <2>1. UNCHANGED <<cleaning, link, offer, held, pc, front>>
    BY <1>1 DEF ExecStarted, Settled, WindingEnds
  <2>2. QED
    BY <2>1 DEF StillInv, Still
<1>2. ASSUME NEW t \in Threads, (Expire(t) \/ DogFinds(t) \/ DogStops(t) \/ DogStopsLate(t) \/
                Stir(t)) /\ UNCHANGED requestVars
      PROVE  StillInv'
  <2>1. UNCHANGED <<cleaning, link, offer, held, pc, front>>
    BY <1>2 DEF Expire, DogFinds, DogStops, DogStopsLate, Stir
  <2>2. QED
    BY <2>1 DEF StillInv, Still
<1>3. ASSUME CloseOn
      PROVE  StillInv'
  <2>1. UNCHANGED <<cleaning, link, offer, held, pc, front>>
    BY <1>3 DEF CloseOn
  <2>2. QED
    BY <2>1 DEF StillInv, Still
<1>4. ASSUME NEW r \in Requests, LaneBusy(r), UNCHANGED requestVars PROVE StillInv'
  BY <1>4 DEF LaneBusy, StillInv, Still
<1>5. ASSUME NEW r \in Requests, LaneQueue(r), UNCHANGED requestVars PROVE StillInv'
  BY <1>5 DEF LaneQueue, StillInv, Still
<1>6. ASSUME NEW r \in Requests, LaneRetry(r), UNCHANGED requestVars PROVE StillInv'
  BY <1>6 DEF LaneRetry, StillInv, Still
<1>7. ASSUME NEW r \in Requests, LaneTimesOut(r), UNCHANGED requestVars PROVE StillInv'
  BY <1>7 DEF LaneTimesOut, StillInv, Still
<1>8. ASSUME NEW r \in Requests, NEW match \in BOOLEAN, Claim(r, match), UNCHANGED requestVars
      PROVE  StillInv'
  BY <1>8 DEF Claim, TrackCleanup, StillInv, Still, TypeOK, LaneTypeOK
<1>9. ASSUME NEW r \in Requests, Recheck(r), UNCHANGED requestVars PROVE StillInv'
  BY <1>9
     DEF Recheck, TrackCleanup, StillInv, Still, TypeOK, LaneTypeOK, Slot, PhaseInv, UpInv, Up
<1>10. ASSUME NEW r \in Requests, Sanitize(r), UNCHANGED requestVars PROVE StillInv'
  BY <1>10, NoThread DEF Sanitize, TrackCleanup, StillInv, Still, TypeOK, LaneTypeOK
<1>11. ASSUME NEW r \in Requests, Drained(r), UNCHANGED requestVars PROVE StillInv'
  BY <1>11 DEF Drained, StillInv, Still
<1>12. ASSUME NEW r \in Requests, HandBack(r), UNCHANGED requestVars PROVE StillInv'
  BY <1>12 DEF HandBack, TrackCleanup, StillInv, Still
<1>13. ASSUME NEW r \in Requests, Release(r), UNCHANGED requestVars PROVE StillInv'
  BY <1>13 DEF Release, StillInv, Still
<1>14. ASSUME NEW r \in Requests, Call(r) PROVE StillInv'
  BY <1>14 DEF Call, StillInv, Still
<1>15. ASSUME NEW r \in Requests, Look(r) PROVE StillInv'
  BY <1>15 DEF Look, StillInv, Still
<1>16. ASSUME NEW r \in Requests, BodyRead(r) PROVE StillInv'
  BY <1>16 DEF BodyRead, StillInv, Still, TypeOK
<1>17. ASSUME NEW r \in Requests, StartRead(r) PROVE StillInv'
  BY <1>17 DEF StartRead, StillInv, Still, TypeOK
<1>18. ASSUME NEW r \in Requests, RefuseAudio(r) PROVE StillInv'
  BY <1>18 DEF RefuseAudio, StillInv, Still
<1>19. ASSUME NEW r \in Requests, RefuseText(r) PROVE StillInv'
  BY <1>19 DEF RefuseText, StillInv, Still
<1>20. ASSUME NEW r \in Requests, Begin(r) PROVE StillInv'
  BY <1>20 DEF Begin, AskThread, IsNext, StillInv, Still
<1>21. ASSUME NEW r \in Requests, Started(r) PROVE StillInv'
  BY <1>21 DEF Started, StillInv, Slot, PhaseInv, CleanInv, OwnerPhases, Up
<1>22. ASSUME NEW r \in Requests, StartFails(r) \/ NoSession(r) PROVE StillInv'
  <2>1. CASE StartFails(r)
    BY <2>1 DEF StartFails, StillInv, Still
  <2>2. CASE NoSession(r)
    BY <2>2 DEF NoSession, StillInv, Still
  <2>3. QED
    BY <1>22, <2>1, <2>2
<1>23. ASSUME NEW r \in Requests, StartRejected(r) PROVE StillInv'
  BY <1>23 DEF StartRejected, Delete, StillInv, Still
<1>24. ASSUME NEW r \in Requests, Linked(r) PROVE StillInv'
  BY <1>24 DEF Linked, StillInv, Still, TypeOK, LaneTypeOK, Slot, PhaseInv
<1>25. ASSUME NEW r \in Requests, UseEnds(r) PROVE StillInv'
  BY <1>25, NoThread, Shapes DEF UseEnds, Wind, StillInv, Still, PhaseInv, CleanInv, OwnerPhases
<1>26. ASSUME NEW r \in Requests, Retain(r) PROVE StillInv'
  BY <1>26 DEF Retain, StillInv, Still
<1>27. ASSUME NEW r \in Requests, Stopped(r) PROVE StillInv'
  BY <1>27 DEF Stopped, StillInv, Still, TypeOK, LaneTypeOK, UpInv, Up
<1>28. ASSUME NEW r \in Requests, Disposed(r) PROVE StillInv'
  BY <1>28 DEF Disposed, StillInv, Still
<1>29. ASSUME NEW r \in Requests, GiveUp(r) PROVE StillInv'
  BY <1>29
     DEF GiveUp, TrackCleanup, StillInv, Still, TypeOK, LaneTypeOK, Requests, PhaseInv,
         CleanInv, UpInv, OwnerPhases, Up
<1>30. ASSUME NEW r \in Requests, Dropped(r) PROVE StillInv'
  BY <1>30 DEF Dropped, StillInv, Still
<1>31. ASSUME NEW r \in Requests, Publish(r) PROVE StillInv'
  BY <1>31 DEF Publish, StillInv, Still, TypeOK
<1>32. ASSUME NEW r \in Requests, Speak(r) PROVE StillInv'
  BY <1>32 DEF Speak, CloseHeld, TrackCleanup, StillInv, Still, TypeOK
<1>33. ASSUME NEW r \in Requests, Spoken(r) PROVE StillInv'
  BY <1>33 DEF Spoken, CloseHeld, TrackCleanup, StillInv, Still, PhaseInv
<1>34. ASSUME NEW r \in Requests, HeldClosed(r) PROVE StillInv'
  BY <1>34 DEF HeldClosed, StillInv, Still
<1>35. ASSUME NEW r \in Talkers, StartTalk(r) PROVE StillInv'
  BY <1>35 DEF StartTalk, AskThread, IsNext, StillInv, Still
<1>36. ASSUME NEW r \in Talkers, FrontStarted(r) PROVE StillInv'
  <2>1. CASE r \in abandoned
    <3>1. UNCHANGED <<link, pc, held, offer, cleaning>>
      BY <1>36, <2>1 DEF FrontStarted
    <3>2. \A q \in Requests : pc[q] \in {"using", "kept"} => front'[q] = front[q]
      BY <1>36, <2>1, RequestsAssumption
         DEF FrontStarted, EndStartup, TakeOver, TypeOK, PhaseInv, Requests
    <3>3. QED
      BY <3>1, <3>2 DEF StillInv, Still
  <2>2. CASE r \notin abandoned
    <3>1. /\ ask[r] \in Threads /\ pc[r] = "startup" /\ cleaning = {} /\ offer = None
      BY <1>36, <2>2 DEF FrontStarted, TalkInv, CleanInv, OwnerPhases, TypeOK, Slot, Requests
    <3>2. \A q \in Requests : held[q] = None /\ pc[q] \notin {"using", "kept", "stopping"}
      BY <3>1, RequestsAssumption DEF PhaseInv, OwnerPhases, Requests
    <3>3. /\ link' = [link EXCEPT ![ask[r]] = "opening"]
          /\ UNCHANGED <<pc, held, offer, cleaning>>
      BY <1>36, <2>2 DEF FrontStarted
    <3>4. QED
      BY <3>1, <3>2, <3>3 DEF StillInv, Still, TypeOK, LaneTypeOK
  <2>3. QED
    BY <2>1, <2>2
<1>37. ASSUME NEW r \in Talkers, TalkLinked(r) PROVE StillInv'
  BY <1>37 DEF TalkLinked, StillInv, Still
<1>38. ASSUME NEW r \in Talkers, StartupFails(r) PROVE StillInv'
  <2>1. EndStartup(r, "failed", Owned(r)) /\ UNCHANGED <<pc, offer, cleaning, link, held>>
    BY <1>38, StartupFailsEffect
  <2>2. \A q \in Requests \ {r} : front'[q] = front[q]
    BY <2>1, EndStartupEffect
  <2>3. QED
    BY <2>1, <2>2, RequestsAssumption DEF StillInv, Still, PhaseInv, Requests
<1>39. ASSUME NEW r \in Talkers, Interrupt(r) PROVE StillInv'
  BY <1>39 DEF Interrupt, LeaveTalk, TakeOver, StillInv, Still, TypeOK
<1>40. ASSUME NEW r \in Talkers, HaltStartup(r) PROVE StillInv'
  BY <1>40, EndStartupEffect, NoThread, RequestsAssumption
     DEF HaltStartup, Owned, StillInv, Still, TypeOK, LaneTypeOK, Slot, Requests, Starters,
         PhaseInv, TalkInv, CleanInv, UpInv, OwnerPhases, Up
<1>41. ASSUME NEW r \in Talkers, Halted(r) PROVE StillInv'
  BY <1>41 DEF Halted, LeaveTalk, TakeOver, Owned, Starting, StillInv, Still
<1>42. ASSUME NEW r \in Talkers, StartupEnds(r) PROVE StillInv'
  BY <1>42 DEF StartupEnds, LeaveTalk, TakeOver, StillInv, Still, TypeOK
<1>43. ASSUME NEW r \in Talkers, TalkEnds(r) PROVE StillInv'
  BY <1>43 DEF TalkEnds, LeaveTalk, TakeOver, Owned, StillInv, Still
<1>44. ASSUME NEW r \in Talkers, Left(r) PROVE StillInv'
  BY <1>44 DEF Left, StillInv, Still
<1>45. ASSUME NEW r \in Talkers, NEW who \in Starters, Scrub(r, who) PROVE StillInv'
  BY <1>45 DEF Scrub, StillInv, Still, TypeOK, LaneTypeOK, Slot, PhaseInv
<1>46. ASSUME NEW t \in Threads, CloseRetained(t), UNCHANGED requestVars PROVE StillInv'
  BY <1>46 DEF CloseRetained, StillInv, Still, TypeOK, LaneTypeOK, Slot, PhaseInv
<1>47. ASSUME NEW t \in Threads, DogBites(t), UNCHANGED requestVars PROVE StillInv'
  BY <1>47, NoThread DEF DogBites, TrackCleanup, StillInv, Still
<1>48. ASSUME ReleaseOffer, UNCHANGED requestVars PROVE StillInv'
  BY <1>48 DEF ReleaseOffer, TrackCleanup, CancelDog, StillInv, Still
<1>49. ASSUME CloseBridge PROVE StillInv'
  BY <1>49 DEF CloseBridge, TrackCleanup, CancelDog, StillInv, Still
<1>50. CASE UNCHANGED vars
  BY <1>50 DEF vars, StillInv, Still
<1> QED
  BY <1>1, <1>2, <1>3, <1>4, <1>5, <1>6, <1>7, <1>8, <1>9, <1>10, <1>11, <1>12, <1>13, <1>14,
     <1>15, <1>16, <1>17, <1>18, <1>19, <1>20, <1>21, <1>22, <1>23, <1>24, <1>25, <1>26, <1>27,
     <1>28, <1>29, <1>30, <1>31, <1>32, <1>33, <1>34, <1>35, <1>36, <1>37, <1>38, <1>39, <1>40,
     <1>41, <1>42, <1>43, <1>44, <1>45, <1>46, <1>47, <1>48, <1>49, <1>50
     DEF Next, Lease, Retained, Transcribe, Synthesize, Talk

(* A transport is set up only while no other one is up.                    *)
LEMMA ExclusiveStep ==
    TypeOK /\ PhaseInv /\ TalkInv /\ UpInv /\ LaneIsExclusive /\ [Next]_vars => LaneIsExclusive'
<1> SUFFICES ASSUME TypeOK, PhaseInv, TalkInv, UpInv, LaneIsExclusive, [Next]_vars
             PROVE  LaneIsExclusive'
  OBVIOUS
<1> USE DEF GoTo, laneVars, leaseVars, offerVars, noticeVars, resourceVars, requestVars,
            ownVars, attemptVars, talkVars
<1>1. ASSUME NEW r \in Requests, ((LaneBusy(r) \/ LaneQueue(r) \/ LaneRetry(r) \/ LaneTimesOut(r)
                \/ (\E match \in BOOLEAN : Claim(r, match)) \/ Recheck(r) \/ Sanitize(r) \/
                Drained(r) \/ HandBack(r) \/ Release(r)) /\ UNCHANGED requestVars) \/ Call(r) \/
                Look(r) \/ BodyRead(r) \/ StartRead(r) \/ RefuseAudio(r) \/ RefuseText(r) \/
                Begin(r) \/ StartFails(r) \/ NoSession(r) \/ StartRejected(r) \/ Retain(r) \/
                Disposed(r) \/ Dropped(r) \/ Publish(r) \/ Speak(r) \/ Spoken(r) \/ HeldClosed(r)
      PROVE  LaneIsExclusive'
  <2>1. UNCHANGED link
    BY <1>1
       DEF LaneBusy, LaneQueue, LaneRetry, LaneTimesOut, Claim, Recheck, Sanitize, Drained,
           HandBack, Release, Call, Look, BodyRead, StartRead, RefuseAudio, RefuseText, Begin,
           StartFails, NoSession, StartRejected, Retain, Disposed, Dropped, Publish, Speak,
           Spoken, HeldClosed
  <2>2. QED
    BY <2>1 DEF LaneIsExclusive, Up
<1>2. ASSUME NEW r \in Talkers, StartTalk(r) \/ ExecStarted(r) \/ Settled(r) \/ StartupFails(r)
                \/ WindingEnds(r) \/ Interrupt(r) \/ HaltStartup(r) \/ Halted(r) \/
                StartupEnds(r) \/ TalkEnds(r) \/ Left(r)
      PROVE  LaneIsExclusive'
  <2>1. UNCHANGED link
    BY <1>2
       DEF StartTalk, ExecStarted, Settled, StartupFails, WindingEnds, Interrupt, HaltStartup,
           Halted, StartupEnds, TalkEnds, Left
  <2>2. QED
    BY <2>1 DEF LaneIsExclusive, Up
<1>3. ASSUME NEW t \in Threads, (Expire(t) \/ DogFinds(t) \/ DogBites(t) \/ DogStops(t) \/
                DogStopsLate(t) \/ Stir(t)) /\ UNCHANGED requestVars
      PROVE  LaneIsExclusive'
  <2>1. UNCHANGED link
    BY <1>3 DEF Expire, DogFinds, DogBites, DogStops, DogStopsLate, Stir
  <2>2. QED
    BY <2>1 DEF LaneIsExclusive, Up
<1>4. ASSUME (ReleaseOffer /\ UNCHANGED requestVars) \/ CloseBridge \/ CloseOn
      PROVE  LaneIsExclusive'
  <2>1. UNCHANGED link
    BY <1>4 DEF ReleaseOffer, CloseBridge, CloseOn
  <2>2. QED
    BY <2>1 DEF LaneIsExclusive, Up
<1>5. ASSUME NEW r \in Requests, Started(r) PROVE LaneIsExclusive'
  BY <1>5 DEF Started, LaneIsExclusive, Up, UpInv
<1>6. ASSUME NEW r \in Requests, Linked(r) PROVE LaneIsExclusive'
  BY <1>6 DEF Linked, LaneIsExclusive, Up, UpInv
<1>7. ASSUME NEW r \in Requests, UseEnds(r) PROVE LaneIsExclusive'
  BY <1>7 DEF UseEnds, Wind, LaneIsExclusive, Up, TypeOK, LaneTypeOK, UpInv
<1>8. ASSUME NEW r \in Requests, Stopped(r) PROVE LaneIsExclusive'
  BY <1>8 DEF Stopped, Delete, LaneIsExclusive, Up
<1>9. ASSUME NEW r \in Requests, GiveUp(r) PROVE LaneIsExclusive'
  BY <1>9 DEF GiveUp, LaneIsExclusive, Up, TypeOK, LaneTypeOK, UpInv
<1>10. ASSUME NEW r \in Talkers, FrontStarted(r) PROVE LaneIsExclusive'
  BY <1>10 DEF FrontStarted, LaneIsExclusive, Up, TypeOK, LaneTypeOK, TalkInv, UpInv
<1>11. ASSUME NEW r \in Talkers, TalkLinked(r) PROVE LaneIsExclusive'
  BY <1>11 DEF TalkLinked, LaneIsExclusive, Up, TalkInv, UpInv
<1>12. ASSUME NEW r \in Talkers, NEW who \in Starters, Scrub(r, who) PROVE LaneIsExclusive'
  BY <1>12 DEF Scrub, Delete, LaneIsExclusive, Up
<1>13. ASSUME NEW t \in Threads, CloseRetained(t), UNCHANGED requestVars PROVE LaneIsExclusive'
  BY <1>13 DEF CloseRetained, LaneIsExclusive, Up, TypeOK, LaneTypeOK
<1>14. CASE UNCHANGED vars
  BY <1>14 DEF vars, LaneIsExclusive, Up
<1> QED
  BY <1>1, <1>2, <1>3, <1>4, <1>5, <1>6, <1>7, <1>8, <1>9, <1>10, <1>11, <1>12, <1>13, <1>14
     DEF Next, Lease, Retained, Transcribe, Synthesize, Talk

(* The transport that is up goes from hand to hand.                        *)
LEMMA UpStep ==
    TypeOK /\ PhaseInv /\ TalkInv /\ CleanInv /\ StillInv /\ LaneIsExclusive /\ RestInv /\ UpInv
       /\ [Next]_vars => UpInv'
<1> SUFFICES ASSUME TypeOK, PhaseInv, TalkInv, CleanInv, StillInv, LaneIsExclusive, RestInv,
                    UpInv, [Next]_vars
             PROVE  UpInv'
  OBVIOUS
<1> USE DEF GoTo, laneVars, leaseVars, offerVars, noticeVars, resourceVars, requestVars,
            ownVars, attemptVars, talkVars
<1>1. ASSUME NEW t \in Threads, (Expire(t) \/ DogFinds(t) \/ DogStops(t) \/ DogStopsLate(t) \/
                Stir(t)) /\ UNCHANGED requestVars
      PROVE  UpInv'
  <2>1. UNCHANGED <<link, owner, offer, cleaning, pc, front, parting, held, startup, scrub>>
    BY <1>1 DEF Expire, DogFinds, DogStops, DogStopsLate, Stir
  <2>2. QED
    BY <2>1 DEF UpInv, Up
<1>2. ASSUME CloseOn
      PROVE  UpInv'
  <2>1. UNCHANGED <<link, owner, offer, cleaning, pc, front, parting, held, startup, scrub>>
    BY <1>2 DEF CloseOn
  <2>2. QED
    BY <2>1 DEF UpInv, Up
<1>3. ASSUME NEW r \in Requests, LaneBusy(r), UNCHANGED requestVars PROVE UpInv'
  BY <1>3 DEF LaneBusy, UpInv, Up
<1>4. ASSUME NEW r \in Requests, LaneQueue(r), UNCHANGED requestVars PROVE UpInv'
  BY <1>4 DEF LaneQueue, UpInv, Up
<1>5. ASSUME NEW r \in Requests, LaneRetry(r), UNCHANGED requestVars PROVE UpInv'
  BY <1>5 DEF LaneRetry, UpInv, Up
<1>6. ASSUME NEW r \in Requests, LaneTimesOut(r), UNCHANGED requestVars PROVE UpInv'
  BY <1>6 DEF LaneTimesOut, UpInv, Up
<1>7. ASSUME NEW r \in Requests, NEW match \in BOOLEAN, Claim(r, match), UNCHANGED requestVars
      PROVE  UpInv'
  BY <1>7, RequestsAssumption
     DEF Claim, TrackCleanup, UpInv, Up, TypeOK, LaneTypeOK, Requests, PhaseInv, OwnerPhases,
         Closed
<1>8. ASSUME NEW r \in Requests, Recheck(r), UNCHANGED requestVars PROVE UpInv'
  BY <1>8 DEF Recheck, TrackCleanup, UpInv, Up, TypeOK, LaneTypeOK, Requests, PhaseInv, Closed
<1>9. ASSUME NEW r \in Requests, Sanitize(r), UNCHANGED requestVars PROVE UpInv'
  BY <1>9 DEF Sanitize, TrackCleanup, UpInv, Up, TypeOK, LaneTypeOK, Requests, PhaseInv, Closed
<1>10. ASSUME NEW r \in Requests, Drained(r), UNCHANGED requestVars PROVE UpInv'
  BY <1>10 DEF Drained, UpInv, Up
<1>11. ASSUME NEW r \in Requests, HandBack(r), UNCHANGED requestVars PROVE UpInv'
  BY <1>11, NoThread DEF HandBack, TrackCleanup, UpInv, Up, Closed
<1>12. ASSUME NEW r \in Requests, Release(r), UNCHANGED requestVars PROVE UpInv'
  BY <1>12 DEF Release, UpInv, Up
<1>13. ASSUME NEW r \in Requests, Call(r) PROVE UpInv'
  BY <1>13 DEF Call, UpInv, Up
<1>14. ASSUME NEW r \in Requests, Look(r) PROVE UpInv'
  BY <1>14 DEF Look, UpInv, Up
<1>15. ASSUME NEW r \in Requests, BodyRead(r) PROVE UpInv'
  BY <1>15 DEF BodyRead, UpInv, Up, TypeOK, Requests
<1>16. ASSUME NEW r \in Requests, StartRead(r) PROVE UpInv'
  BY <1>16 DEF StartRead, UpInv, Up, TypeOK, Requests
<1>17. ASSUME NEW r \in Requests, RefuseAudio(r) PROVE UpInv'
  BY <1>17 DEF RefuseAudio, UpInv, Up
<1>18. ASSUME NEW r \in Requests, RefuseText(r) PROVE UpInv'
  BY <1>18 DEF RefuseText, UpInv, Up
<1>19. ASSUME NEW r \in Requests, Begin(r) PROVE UpInv'
  BY <1>19, NoThread DEF Begin, UpInv, Up
<1>20. ASSUME NEW r \in Requests, Started(r) PROVE UpInv'
  BY <1>20, RequestsAssumption DEF Started, UpInv, Up, TypeOK, Requests, PhaseInv, OwnerPhases
<1>21. ASSUME NEW r \in Requests, StartFails(r) \/ NoSession(r) PROVE UpInv'
  BY <1>21 DEF StartFails, NoSession, UpInv, Up
<1>22. ASSUME NEW r \in Requests, StartRejected(r) PROVE UpInv'
  BY <1>22 DEF StartRejected, Delete, UpInv, Up
<1>23. ASSUME NEW r \in Requests, Linked(r) PROVE UpInv'
  BY <1>23, RequestsAssumption DEF Linked, UpInv, Up, Requests, PhaseInv, OwnerPhases
<1>24. ASSUME NEW r \in Requests, UseEnds(r) PROVE UpInv'
  BY <1>24, RequestsAssumption
     DEF UseEnds, Wind, UpInv, Up, TypeOK, LaneTypeOK, Requests, PhaseInv, OwnerPhases
<1>25. ASSUME NEW r \in Requests, Retain(r) PROVE UpInv'
  BY <1>25 DEF Retain, UpInv, Up
<1>26. ASSUME NEW r \in Requests, Stopped(r) PROVE UpInv'
  BY <1>26 DEF Stopped, UpInv, Up, TypeOK, LaneTypeOK
<1>27. ASSUME NEW r \in Requests, Disposed(r) PROVE UpInv'
  BY <1>27 DEF Disposed, UpInv, Up
<1>28. ASSUME NEW r \in Requests, GiveUp(r) PROVE UpInv'
  BY <1>28, RequestsAssumption
     DEF GiveUp, TrackCleanup, UpInv, Up, TypeOK, LaneTypeOK, Requests, PhaseInv, OwnerPhases,
         Closed
<1>29. ASSUME NEW r \in Requests, Dropped(r) PROVE UpInv'
  BY <1>29 DEF Dropped, UpInv, Up
<1>30. ASSUME NEW r \in Requests, Publish(r) PROVE UpInv'
  BY <1>30 DEF Publish, UpInv, Up, TypeOK
<1>31. ASSUME NEW r \in Requests, Speak(r) PROVE UpInv'
  BY <1>31 DEF Speak, CloseHeld, TrackCleanup, UpInv, Up, TypeOK, Requests, Closed
<1>32. ASSUME NEW r \in Requests, Spoken(r) PROVE UpInv'
  BY <1>32 DEF Spoken, CloseHeld, TrackCleanup, UpInv, Up, Closed
<1>33. ASSUME NEW r \in Requests, HeldClosed(r) PROVE UpInv'
  BY <1>33 DEF HeldClosed, UpInv, Up
<1>34. ASSUME NEW r \in Talkers, StartTalk(r) PROVE UpInv'
  BY <1>34, NoThread, RequestsAssumption DEF StartTalk, UpInv, Up, TypeOK, PhaseInv
<1>35. ASSUME NEW r \in Talkers, ExecStarted(r) PROVE UpInv'
  BY <1>35 DEF ExecStarted, IsNext, UpInv, Up
<1>36. ASSUME NEW r \in Talkers, FrontStarted(r) PROVE UpInv'
  <2>1. CASE r \in abandoned
    BY SMTT(30), <1>36, <2>1, NoThread, RequestsAssumption
       DEF FrontStarted, EndStartup, TakeOver, Owned, UpInv, Up, TypeOK, PhaseInv, TalkInv,
           RestInv, Requests, Starters
  <2>2. CASE r \notin abandoned
    BY <1>36, <2>2, NoThread, RequestsAssumption
       DEF FrontStarted, UpInv, Up, TypeOK, LaneTypeOK, Slot, PhaseInv, OwnerPhases, TalkInv,
           RestInv, Requests
  <2>3. QED
    BY <2>1, <2>2
<1>37. ASSUME NEW r \in Talkers, TalkLinked(r) PROVE UpInv'
  BY <1>37, RequestsAssumption
     DEF TalkLinked, UpInv, Up, Requests, PhaseInv, OwnerPhases, TalkInv
<1>38. ASSUME NEW r \in Talkers, Settled(r) PROVE UpInv'
  BY <1>38 DEF Settled, UpInv, Up
<1>39. ASSUME NEW r \in Talkers, StartupFails(r) PROVE UpInv'
  <2>1. EndStartup(r, "failed", Owned(r))
        /\ UNCHANGED <<pc, owner, offer, cleaning, parting, held, link>>
    BY <1>39, StartupFailsEffect
  <2>2. /\ \A q \in Requests \ {r} : front'[q] = front[q]
        /\ \A q \in Talkers \ {r} : startup'[q] = startup[q]
    BY <2>1, EndStartupEffect
  <2>3. \A q \in Talkers, who \in Starters : scrub[q][who] \subseteq scrub'[q][who]
    BY <2>1, EndStartupEffect
  <2>4. startup'[r] \in {"failed", "winding"}
    BY <2>1, EndStartupEffect
  <2>5. CASE pc[r] = "halting"
    <3>1. r \in abandoned /\ front[r] # None /\ front[r] \in Owned(r)
      BY <1>39, <2>5 DEF StartupFails, TalkInv, Owned
    <3>2. startup'[r] = "winding" /\ front[r] \in scrub'[r]["startup"]
      BY <2>1, <3>1, EndStartupEffect DEF Starters
    <3>3. QED
      BY <2>1, <2>2, <2>3, <2>5, <3>1, <3>2 DEF UpInv, Up, Requests, Starters
  <2>6. CASE pc[r] # "halting"
    <3>1. front'[r] = front[r]
      <4>1. r \in abandoned => front[r] = None
        BY <1>39, <2>6 DEF StartupFails, TalkInv
      <4>2. r \notin abandoned => front'[r] = front[r]
        BY <2>1 DEF EndStartup
      <4>3. front'[r] \in {front[r], None}
        BY <2>1, EndStartupEffect
      <4>4. QED
        BY <4>1, <4>2, <4>3
    <3>2. QED
      BY <2>1, <2>2, <2>3, <2>4, <2>6, <3>1 DEF UpInv, Up, Requests, Starters
  <2>7. QED
    BY <2>5, <2>6
<1>40. ASSUME NEW r \in Talkers, WindingEnds(r) PROVE UpInv'
  BY <1>40 DEF WindingEnds, UpInv, Up
<1>41. ASSUME NEW r \in Talkers, Interrupt(r) PROVE UpInv'
  BY <1>41, NoThread DEF Interrupt, UpInv, Up, TypeOK, Requests, TalkInv
<1>42. ASSUME NEW r \in Talkers, HaltStartup(r) PROVE UpInv'
  <2>1. /\ pc[r] = "halting" /\ r \in abandoned
        /\ front[r] # None /\ front[r] \in Owned(r)
    BY <1>42 DEF HaltStartup, TalkInv, Owned
  <2>2. EndStartup(r, "failed", Owned(r))
        /\ UNCHANGED <<pc, owner, offer, cleaning, parting, held, link>>
    BY <1>42 DEF HaltStartup
  <2>3. startup'[r] = "winding" /\ front[r] \in scrub'[r]["startup"]
    BY <2>1, <2>2, EndStartupEffect DEF Starters
  <2>4. /\ \A q \in Requests \ {r} : front'[q] = front[q]
        /\ \A q \in Talkers \ {r} : startup'[q] = startup[q]
    BY <2>2, EndStartupEffect
  <2>5. \A q \in Talkers, who \in Starters : scrub[q][who] \subseteq scrub'[q][who]
    BY <2>2, EndStartupEffect
  <2>6. QED
    BY <2>1, <2>2, <2>3, <2>4, <2>5 DEF UpInv, Up, Requests, Starters
<1>43. ASSUME NEW r \in Talkers, Halted(r) PROVE UpInv'
  BY <1>43, NoThread
     DEF Halted, LeaveTalk, TakeOver, Owned, Starting, UpInv, Up, TypeOK, Starters
<1>44. ASSUME NEW r \in Talkers, StartupEnds(r) PROVE UpInv'
  <2>1. CASE startup[r] = "ready"
    BY <1>44, <2>1, NoThread DEF StartupEnds, UpInv, Up, TypeOK, PhaseInv, Requests
  <2>2. CASE startup[r] # "ready"
    <3>1. ASSUME NEW t \in Threads, Up(t) PROVE t = front[r] /\ t \in Owned(r)
      BY <1>44, <3>1, NoThread DEF StartupEnds, UpInv, Owned
    <3>2. /\ LeaveTalk(r, Owned(r))
          /\ UNCHANGED <<owner, offer, cleaning, parting, held, startup, link>>
      BY <1>44, <2>2 DEF StartupEnds
    <3>3. ASSUME NEW t \in Threads, Up(t) PROVE t \in scrub'[r]["handler"]
      BY <3>1, <3>2, <3>3, LeaveTalkEffect DEF Starters
    <3>4. /\ \A q \in Requests \ {r} : pc'[q] = pc[q] /\ front'[q] = front[q]
          /\ \A q \in Talkers \ {r}, who \in Starters : scrub'[q][who] = scrub[q][who]
          /\ pc'[r] = "leaving"
      <4>1. /\ pc' = [pc EXCEPT ![r] = "leaving"] /\ front' = [front EXCEPT ![r] = None]
            /\ \A q \in Talkers, who \in Starters :
                  scrub'[q][who] = IF q = r /\ who = "handler"
                                   THEN scrub[q][who] \cup Owned(r) ELSE scrub[q][who]
        BY <3>2, LeaveTalkEffect
      <4>2. DOMAIN pc = Requests /\ DOMAIN front = Requests /\ r \in Requests
        BY DEF TypeOK, Requests
      <4>3. QED
        BY <4>1, <4>2
    <3>5. owner # NoOne
      BY <1>44, RequestsAssumption DEF StartupEnds, PhaseInv, OwnerPhases, Requests
    <3>6. QED
      BY <3>2, <3>3, <3>4, <3>5 DEF UpInv, Up, Requests, Starters
  <2>3. QED
    BY <2>1, <2>2
<1>45. ASSUME NEW r \in Talkers, TalkEnds(r) PROVE UpInv'
  BY <1>45, NoThread DEF TalkEnds, LeaveTalk, TakeOver, Owned, UpInv, Up, TypeOK, Starters
<1>46. ASSUME NEW r \in Talkers, Left(r) PROVE UpInv'
  BY <1>46 DEF Left, UpInv, Up
<1>47. ASSUME NEW r \in Talkers, NEW who \in Starters, Scrub(r, who) PROVE UpInv'
  <2>1. CASE {t \in scrub[r][who] : link[t] \in {"opening", "open"}} = {}
    <3>1. UNCHANGED <<pc, owner, offer, cleaning, held, parting, front, startup, link>>
      BY <1>47, <2>1 DEF Scrub
    <3>2. \A q \in Talkers, w \in Starters :
             scrub'[q][w] = IF q = r /\ w = who THEN {} ELSE scrub[q][w]
      BY <1>47, <2>1, ScrubEffect
    <3>3. \A t \in scrub[r][who] : t \in Threads /\ (Up(t) => link[t] = "closing")
      BY <2>1 DEF Up, TypeOK
    <3>4. \A t \in Threads : link[t] = "closing" => owner \notin Talkers /\ owner # NoOne
      BY RequestsAssumption DEF StillInv, PhaseInv, OwnerPhases
    <3>5. QED
      BY <3>1, <3>2, <3>3, <3>4, RequestsAssumption
         DEF UpInv, Up, PhaseInv, OwnerPhases, Requests, Starters
  <2>2. CASE {t \in scrub[r][who] : link[t] \in {"opening", "open"}} # {}
    <3>1. /\ \A t \in Threads : Up(t)' => Up(t)
          /\ UNCHANGED <<pc, owner, offer, cleaning, held, parting, front, startup, scrub>>
      BY <1>47, <2>2 DEF Scrub, Up, TypeOK, LaneTypeOK
    <3>2. QED
      BY <3>1 DEF UpInv
  <2>3. QED
    BY <2>1, <2>2
<1>48. ASSUME NEW t \in Threads, CloseRetained(t), UNCHANGED requestVars PROVE UpInv'
  BY <1>48 DEF CloseRetained, UpInv, Up, TypeOK, LaneTypeOK, StillInv, Still
<1>49. ASSUME NEW t \in Threads, DogBites(t), UNCHANGED requestVars PROVE UpInv'
  BY <1>49 DEF DogBites, TrackCleanup, UpInv, Up, Closed
<1>50. ASSUME ReleaseOffer, UNCHANGED requestVars PROVE UpInv'
  BY <1>50 DEF ReleaseOffer, TrackCleanup, UpInv, Up, Closed
<1>51. ASSUME CloseBridge PROVE UpInv'
  BY <1>51 DEF CloseBridge, TrackCleanup, UpInv, Up, Closed
<1>52. CASE UNCHANGED vars
  BY <1>52 DEF vars, UpInv, Up
<1> QED
  BY <1>1, <1>2, <1>3, <1>4, <1>5, <1>6, <1>7, <1>8, <1>9, <1>10, <1>11, <1>12, <1>13, <1>14,
     <1>15, <1>16, <1>17, <1>18, <1>19, <1>20, <1>21, <1>22, <1>23, <1>24, <1>25, <1>26, <1>27,
     <1>28, <1>29, <1>30, <1>31, <1>32, <1>33, <1>34, <1>35, <1>36, <1>37, <1>38, <1>39, <1>40,
     <1>41, <1>42, <1>43, <1>44, <1>45, <1>46, <1>47, <1>48, <1>49, <1>50, <1>51, <1>52
     DEF Next, Lease, Retained, Transcribe, Synthesize, Talk

(* What stirs a retained session is found before anybody speaks on it.     *)
LEMMA QuietStep ==
    TypeOK /\ PhaseInv /\ TalkInv /\ CleanInv /\ RestInv /\ AskInv /\ QuietInv /\ [Next]_vars =>
       QuietInv'
<1> SUFFICES ASSUME TypeOK, PhaseInv, TalkInv, CleanInv, RestInv, AskInv, QuietInv, [Next]_vars
             PROVE  QuietInv'
  OBVIOUS
<1> USE DEF GoTo, laneVars, leaseVars, offerVars, noticeVars, resourceVars, requestVars,
            ownVars, attemptVars, talkVars
<1>1. ASSUME NEW r \in Talkers, TalkLinked(r) \/ Settled(r) \/ WindingEnds(r)
      PROVE  QuietInv'
  <2>1. UNCHANGED <<thread, dog, stirred, unread, invalid, offer, held, pc, ask, front>>
    BY <1>1 DEF TalkLinked, Settled, WindingEnds
  <2>2. QED
    BY <2>1 DEF QuietInv, Shows
<1>2. ASSUME NEW t \in Threads, Expire(t) /\ UNCHANGED requestVars
      PROVE  QuietInv'
  <2>1. UNCHANGED <<thread, dog, stirred, unread, invalid, offer, held, pc, ask, front>>
    BY <1>2 DEF Expire
  <2>2. QED
    BY <2>1 DEF QuietInv, Shows
<1>3. ASSUME CloseOn
      PROVE  QuietInv'
  <2>1. UNCHANGED <<thread, dog, stirred, unread, invalid, offer, held, pc, ask, front>>
    BY <1>3 DEF CloseOn
  <2>2. QED
    BY <2>1 DEF QuietInv, Shows
<1>4. ASSUME NEW r \in Requests, LaneBusy(r), UNCHANGED requestVars PROVE QuietInv'
  BY <1>4 DEF LaneBusy, QuietInv, Shows
<1>5. ASSUME NEW r \in Requests, LaneQueue(r), UNCHANGED requestVars PROVE QuietInv'
  BY <1>5 DEF LaneQueue, QuietInv, Shows
<1>6. ASSUME NEW r \in Requests, LaneRetry(r), UNCHANGED requestVars PROVE QuietInv'
  BY <1>6 DEF LaneRetry, QuietInv, Shows
<1>7. ASSUME NEW r \in Requests, LaneTimesOut(r), UNCHANGED requestVars PROVE QuietInv'
  BY <1>7 DEF LaneTimesOut, QuietInv, Shows
<1>8. ASSUME NEW r \in Requests, NEW match \in BOOLEAN, Claim(r, match), UNCHANGED requestVars
      PROVE  QuietInv'
  BY <1>8 DEF Claim, CancelDog, QuietInv, Shows, TypeOK, LaneTypeOK, Slot, PhaseInv
<1>9. ASSUME NEW r \in Requests, Recheck(r), UNCHANGED requestVars PROVE QuietInv'
  BY <1>9 DEF Recheck, QuietInv, Shows, TypeOK, LaneTypeOK, PhaseInv
<1>10. ASSUME NEW r \in Requests, Sanitize(r), UNCHANGED requestVars PROVE QuietInv'
  BY <1>10 DEF Sanitize, QuietInv, Shows, TypeOK, LaneTypeOK, Slot, PhaseInv, OwnerPhases
<1>11. ASSUME NEW r \in Requests, Drained(r), UNCHANGED requestVars PROVE QuietInv'
  BY <1>11 DEF Drained, QuietInv, Shows, PhaseInv
<1>12. ASSUME NEW r \in Requests, HandBack(r), UNCHANGED requestVars PROVE QuietInv'
  BY <1>12 DEF HandBack, TrackCleanup, QuietInv, Shows
<1>13. ASSUME NEW r \in Requests, Release(r), UNCHANGED requestVars PROVE QuietInv'
  BY <1>13 DEF Release, QuietInv, Shows
<1>14. ASSUME NEW r \in Requests, Call(r) PROVE QuietInv'
  BY <1>14 DEF Call, QuietInv, Shows
<1>15. ASSUME NEW r \in Requests, Look(r) PROVE QuietInv'
  BY <1>15 DEF Look, QuietInv, Shows
<1>16. ASSUME NEW r \in Requests, BodyRead(r) PROVE QuietInv'
  BY <1>16 DEF BodyRead, QuietInv, Shows, TypeOK
<1>17. ASSUME NEW r \in Requests, StartRead(r) PROVE QuietInv'
  BY <1>17 DEF StartRead, QuietInv, Shows, TypeOK
<1>18. ASSUME NEW r \in Requests, RefuseAudio(r) PROVE QuietInv'
  BY <1>18 DEF RefuseAudio, QuietInv, Shows
<1>19. ASSUME NEW r \in Requests, RefuseText(r) PROVE QuietInv'
  BY <1>19 DEF RefuseText, QuietInv, Shows
<1>20. ASSUME NEW r \in Requests, Begin(r) PROVE QuietInv'
  BY <1>20 DEF Begin, AskThread, IsNext, QuietInv, Shows, TypeOK, LaneTypeOK
<1>21. ASSUME NEW r \in Requests, Started(r) PROVE QuietInv'
  BY <1>21 DEF Started, QuietInv, Shows, TypeOK
<1>22. ASSUME NEW r \in Requests, StartFails(r) \/ NoSession(r) PROVE QuietInv'
  <2>1. CASE StartFails(r)
    BY <2>1 DEF StartFails, QuietInv, Shows, TypeOK
  <2>2. CASE NoSession(r)
    BY <2>2 DEF NoSession, QuietInv, Shows, TypeOK
  <2>3. QED
    BY <1>22, <2>1, <2>2
<1>23. ASSUME NEW r \in Requests, StartRejected(r) PROVE QuietInv'
  BY <1>23 DEF StartRejected, Delete, QuietInv, Shows, TypeOK, PhaseInv, OwnerPhases
<1>24. ASSUME NEW r \in Requests, Linked(r) PROVE QuietInv'
  BY <1>24 DEF Linked, QuietInv, Shows
<1>25. ASSUME NEW r \in Requests, UseEnds(r) PROVE QuietInv'
  BY <1>25 DEF UseEnds, Wind, QuietInv, Shows, TypeOK
<1>26. ASSUME NEW r \in Requests, Retain(r) PROVE QuietInv'
  BY <1>26 DEF Retain, QuietInv, Shows
<1>27. ASSUME NEW r \in Requests, Stopped(r) PROVE QuietInv'
  BY <1>27 DEF Stopped, Delete, QuietInv, Shows, PhaseInv, OwnerPhases
<1>28. ASSUME NEW r \in Requests, Disposed(r) PROVE QuietInv'
  BY <1>28 DEF Disposed, QuietInv, Shows, PhaseInv
<1>29. ASSUME NEW r \in Requests, GiveUp(r) PROVE QuietInv'
  BY SMTT(30), <1>29
     DEF GiveUp, Delete, TrackCleanup, QuietInv, Shows, TypeOK, LaneTypeOK, Slot, PhaseInv
<1>30. ASSUME NEW r \in Requests, Dropped(r) PROVE QuietInv'
  BY <1>30 DEF Dropped, QuietInv, Shows
<1>31. ASSUME NEW r \in Requests, Publish(r) PROVE QuietInv'
  BY <1>31 DEF Publish, QuietInv, TypeOK, LaneTypeOK, Slot, PhaseInv, OwnerPhases
<1>32. ASSUME NEW r \in Requests, Speak(r) PROVE QuietInv'
  BY <1>32 DEF Speak, CloseHeld, QuietInv, TypeOK, PhaseInv, CleanInv, OwnerPhases
<1>33. ASSUME NEW r \in Requests, Spoken(r) PROVE QuietInv'
  BY <1>33 DEF Spoken, CloseHeld, TrackCleanup, QuietInv, Shows
<1>34. ASSUME NEW r \in Requests, HeldClosed(r) PROVE QuietInv'
  BY <1>34 DEF HeldClosed, QuietInv, Shows, TypeOK, LaneTypeOK
<1>35. ASSUME NEW r \in Talkers, StartTalk(r) PROVE QuietInv'
  BY <1>35 DEF StartTalk, AskThread, IsNext, QuietInv, Shows
<1>36. ASSUME NEW r \in Talkers, ExecStarted(r) PROVE QuietInv'
  BY <1>36 DEF ExecStarted, QuietInv, Shows, TypeOK, LaneTypeOK, Slot, PhaseInv
<1>37. ASSUME NEW r \in Talkers, FrontStarted(r) PROVE QuietInv'
  BY <1>37, RequestsAssumption
     DEF FrontStarted, EndStartup, TakeOver, Owned, QuietInv, Shows, TypeOK, Requests, PhaseInv
<1>38. ASSUME NEW r \in Talkers, StartupFails(r) PROVE QuietInv'
  <2>1. ask[r] # None => ask[r] \in Threads /\ thread[ask[r]] = "asked"
    BY DEF AskInv, TypeOK, Slot, Requests
  <2>2. EndStartup(r, "failed", Owned(r))
        /\ UNCHANGED <<pc, offer, held, dog, invalid, unread, stirred>>
    BY <1>38, StartupFailsEffect
  <2>3. \A q \in Requests \ {r} : ask'[q] = ask[q]
    BY <1>38, StartupFailsEffect
  <2>4. \A q \in Requests \ {r} : front'[q] = front[q]
    BY <2>2, EndStartupEffect
  <2>5. \A t \in Threads : thread'[t] = "none" <=> thread[t] = "none"
    BY <1>38, <2>1, NoThread, StartupFailsEffect
  <2>6. pc[r] \notin {"starting", "linking", "using", "kept"}
    BY RequestsAssumption DEF PhaseInv, Requests
  <2>7. ASSUME NEW q \in Requests
        PROVE  /\ pc[q] = "starting" => ask[q] \in Threads
               /\ pc[q] \in {"linking", "using", "kept"} => front[q] \in Threads
    BY DEF PhaseInv, TypeOK, Slot
  <2>8. QED
    BY <2>2, <2>3, <2>4, <2>5, <2>6, <2>7 DEF QuietInv, Shows
<1>39. ASSUME NEW r \in Talkers, Interrupt(r) PROVE QuietInv'
  BY <1>39 DEF Interrupt, LeaveTalk, TakeOver, QuietInv, Shows, TypeOK
<1>40. ASSUME NEW r \in Talkers, HaltStartup(r) PROVE QuietInv'
  BY <1>40, EndStartupEffect, NoThread, RequestsAssumption
     DEF HaltStartup, Owned, QuietInv, Shows, TypeOK, LaneTypeOK, Slot, Requests, Starters,
         PhaseInv, TalkInv, CleanInv, RestInv, AskInv, OwnerPhases
<1>41. ASSUME NEW r \in Talkers, Halted(r) PROVE QuietInv'
  BY <1>41 DEF Halted, LeaveTalk, TakeOver, Owned, Starting, QuietInv, Shows
<1>42. ASSUME NEW r \in Talkers, StartupEnds(r) PROVE QuietInv'
  BY <1>42 DEF StartupEnds, LeaveTalk, TakeOver, QuietInv, Shows, TypeOK
<1>43. ASSUME NEW r \in Talkers, TalkEnds(r) PROVE QuietInv'
  BY <1>43 DEF TalkEnds, LeaveTalk, TakeOver, Owned, QuietInv, Shows
<1>44. ASSUME NEW r \in Talkers, Left(r) PROVE QuietInv'
  BY <1>44 DEF Left, QuietInv, Shows
<1>45. ASSUME NEW r \in Talkers, NEW who \in Starters, Scrub(r, who) PROVE QuietInv'
  BY <1>45 DEF Scrub, Delete, QuietInv, Shows, TypeOK, LaneTypeOK, Slot, PhaseInv
<1>46. ASSUME NEW t \in Threads, CloseRetained(t), UNCHANGED requestVars PROVE QuietInv'
  BY <1>46 DEF CloseRetained, Delete, QuietInv, Shows, TypeOK, Slot, PhaseInv
<1>47. ASSUME NEW t \in Threads, DogFinds(t), UNCHANGED requestVars PROVE QuietInv'
  BY <1>47 DEF DogFinds, QuietInv, Shows, TypeOK, LaneTypeOK
<1>48. ASSUME NEW t \in Threads, DogBites(t), UNCHANGED requestVars PROVE QuietInv'
  BY <1>48 DEF DogBites, TrackCleanup, QuietInv, Shows
<1>49. ASSUME NEW t \in Threads, DogStops(t), UNCHANGED requestVars PROVE QuietInv'
  BY <1>49 DEF DogStops, QuietInv, Shows
<1>50. ASSUME NEW t \in Threads, DogStopsLate(t), UNCHANGED requestVars PROVE QuietInv'
  BY <1>50 DEF DogStopsLate, QuietInv, Shows
<1>51. ASSUME NEW t \in Threads, Stir(t), UNCHANGED requestVars PROVE QuietInv'
  BY <1>51, NoThread DEF Stir, QuietInv, Shows, PhaseInv, CleanInv, OwnerPhases
<1>52. ASSUME ReleaseOffer, UNCHANGED requestVars PROVE QuietInv'
  BY <1>52 DEF ReleaseOffer, TrackCleanup, CancelDog, QuietInv, Shows
<1>53. ASSUME CloseBridge PROVE QuietInv'
  BY <1>53, NoThread, Shapes DEF CloseBridge, CancelDog, QuietInv, Shows
<1>54. CASE UNCHANGED vars
  BY <1>54 DEF vars, QuietInv, Shows
<1> QED
  BY <1>1, <1>2, <1>3, <1>4, <1>5, <1>6, <1>7, <1>8, <1>9, <1>10, <1>11, <1>12, <1>13, <1>14,
     <1>15, <1>16, <1>17, <1>18, <1>19, <1>20, <1>21, <1>22, <1>23, <1>24, <1>25, <1>26, <1>27,
     <1>28, <1>29, <1>30, <1>31, <1>32, <1>33, <1>34, <1>35, <1>36, <1>37, <1>38, <1>39, <1>40,
     <1>41, <1>42, <1>43, <1>44, <1>45, <1>46, <1>47, <1>48, <1>49, <1>50, <1>51, <1>52, <1>53,
     <1>54
     DEF Next, Lease, Retained, Transcribe, Synthesize, Talk

(* A thread asked for arrives, or is given up, once.                       *)
LEMMA AskStep ==
    TypeOK /\ PhaseInv /\ TalkInv /\ RestInv /\ KeptInv /\ AskInv /\ [Next]_vars => AskInv'
<1> SUFFICES ASSUME TypeOK, PhaseInv, TalkInv, RestInv, KeptInv, AskInv, [Next]_vars
             PROVE  AskInv'
  OBVIOUS
<1> USE DEF GoTo, laneVars, leaseVars, offerVars, noticeVars, resourceVars, requestVars,
            ownVars, attemptVars, talkVars
<1>1. ASSUME NEW r \in Requests, ((LaneBusy(r) \/ LaneQueue(r) \/ LaneRetry(r) \/ LaneTimesOut(r)
                \/ (\E match \in BOOLEAN : Claim(r, match)) \/ Recheck(r) \/ Sanitize(r) \/
                Drained(r) \/ HandBack(r) \/ Release(r)) /\ UNCHANGED requestVars) \/ Call(r) \/
                Look(r) \/ BodyRead(r) \/ StartRead(r) \/ RefuseAudio(r) \/ RefuseText(r) \/
                Linked(r) \/ UseEnds(r) \/ Retain(r) \/ Disposed(r) \/ Dropped(r) \/ Publish(r)
                \/ Speak(r) \/ Spoken(r) \/ HeldClosed(r)
      PROVE  AskInv'
  <2>1. UNCHANGED <<ask, thread>>
    BY <1>1
       DEF LaneBusy, LaneQueue, LaneRetry, LaneTimesOut, Claim, Recheck, Sanitize, Drained,
           HandBack, Release, Call, Look, BodyRead, StartRead, RefuseAudio, RefuseText, Linked,
           UseEnds, Retain, Disposed, Dropped, Publish, Speak, Spoken, HeldClosed, Wind
  <2>2. QED
    BY <2>1 DEF AskInv
<1>2. ASSUME NEW r \in Talkers, TalkLinked(r) \/ Settled(r) \/ WindingEnds(r) \/ Interrupt(r) \/
                HaltStartup(r) \/ Halted(r) \/ StartupEnds(r) \/ TalkEnds(r) \/ Left(r)
      PROVE  AskInv'
  <2>1. UNCHANGED <<ask, thread>>
    BY <1>2
       DEF TalkLinked, Settled, WindingEnds, Interrupt, HaltStartup, Halted, StartupEnds,
           TalkEnds, Left
  <2>2. QED
    BY <2>1 DEF AskInv
<1>3. ASSUME NEW t \in Threads, (Expire(t) \/ DogFinds(t) \/ DogBites(t) \/ DogStops(t) \/
                DogStopsLate(t) \/ Stir(t)) /\ UNCHANGED requestVars
      PROVE  AskInv'
  <2>1. UNCHANGED <<ask, thread>>
    BY <1>3 DEF Expire, DogFinds, DogBites, DogStops, DogStopsLate, Stir
  <2>2. QED
    BY <2>1 DEF AskInv
<1>4. ASSUME (ReleaseOffer /\ UNCHANGED requestVars) \/ CloseBridge \/ CloseOn
      PROVE  AskInv'
  <2>1. UNCHANGED <<ask, thread>>
    BY <1>4 DEF ReleaseOffer, CloseBridge, CloseOn
  <2>2. QED
    BY <2>1 DEF AskInv
<1>5. ASSUME NEW r \in Requests, Begin(r) PROVE AskInv'
  BY <1>5, NoThread, RequestsAssumption
     DEF Begin, AskThread, IsNext, AskInv, TypeOK, LaneTypeOK, RestInv
<1>6. ASSUME NEW r \in Requests, Started(r) PROVE AskInv'
  BY <1>6 DEF Started, AskInv, TypeOK, LaneTypeOK
<1>7. ASSUME NEW r \in Requests, StartFails(r) \/ NoSession(r) PROVE AskInv'
  <2>1. CASE StartFails(r)
    BY <2>1 DEF StartFails, AskInv, TypeOK, LaneTypeOK
  <2>2. CASE NoSession(r)
    BY <2>2 DEF NoSession, AskInv, TypeOK, LaneTypeOK
  <2>3. QED
    BY <1>7, <2>1, <2>2
<1>8. ASSUME NEW r \in Requests, StartRejected(r) PROVE AskInv'
  BY <1>8 DEF StartRejected, Delete, AskInv, TypeOK, Slot
<1>9. ASSUME NEW r \in Requests, Stopped(r) PROVE AskInv'
  <2>1. front[r] \in Threads /\ thread[front[r]] # "asked"
    BY <1>9 DEF Stopped, PhaseInv, TypeOK, Slot, KeptInv, Kept
  <2>2. \A x \in Threads : thread'[x] = "asked" <=> thread[x] = "asked"
    BY <1>9, <2>1 DEF Stopped, Delete, TypeOK, LaneTypeOK
  <2>3. QED
    BY <1>9, <2>2, AskStays DEF Stopped
<1>10. ASSUME NEW r \in Requests, GiveUp(r) PROVE AskInv'
  <2>1. CASE pc[r] = "starting"
    <3>1. ask[r] \in Threads
      BY <2>1 DEF PhaseInv, TypeOK, Slot
    <3>2. thread' = [thread EXCEPT ![ask[r]] = "orphan"] /\ ask' = [ask EXCEPT ![r] = None]
      BY <1>10, <2>1 DEF GiveUp
    <3>3. QED
      BY <3>1, <3>2, AskEnds, Shapes
  <2>2. CASE pc[r] = "stopping"
    <3>1. front[r] \in Threads /\ thread[front[r]] # "asked"
      BY <2>2 DEF PhaseInv, TypeOK, Slot, KeptInv, Kept
    <3>2. Delete({front[r]}) /\ UNCHANGED ask
      BY <1>10, <2>2 DEF GiveUp
    <3>3. QED
      BY <3>1, <3>2, AskStays DEF Delete
  <2>3. CASE pc[r] \notin {"starting", "stopping"}
    BY <1>10, <2>3, AskStays DEF GiveUp
  <2>4. QED
    BY <2>1, <2>2, <2>3
<1>11. ASSUME NEW r \in Talkers, StartTalk(r) PROVE AskInv'
  <2>1. PICK u \in Threads : /\ thread[u] = "none" /\ thread' = [thread EXCEPT ![u] = "asked"]
                            /\ ask' = [ask EXCEPT ![r] = u]
    BY <1>11 DEF StartTalk, AskThread, IsNext
  <2>2. ask[r] = None
    BY <1>11 DEF StartTalk, TalkInv, RestInv
  <2>3. \A q \in Requests : ask[q] # u
    BY <2>1, NoThread DEF AskInv
  <2>4. QED
    BY <2>1, <2>2, <2>3, NoThread DEF AskInv, TypeOK, LaneTypeOK, Slot, Requests
<1>12. ASSUME NEW r \in Talkers, ExecStarted(r) PROVE AskInv'
  <2>1. PICK u \in Threads : /\ thread[u] = "none"
                            /\ thread' = [thread EXCEPT ![ask[r]] = "live", ![u] = "asked"]
                            /\ ask' = [ask EXCEPT ![r] = u]
    BY <1>12 DEF ExecStarted, IsNext
  <2>2. ask[r] \in Threads /\ thread[ask[r]] = "asked"
    BY <1>12 DEF ExecStarted, TalkInv, AskInv, TypeOK, Slot, Requests
  <2>3. \A t \in Threads :
           thread'[t] = CASE t = u -> "asked" [] t = ask[r] -> "live" [] OTHER -> thread[t]
    BY <2>1, <2>2 DEF TypeOK, LaneTypeOK
  <2>4. \A q \in Requests : ask'[q] = IF q = r THEN u ELSE ask[q]
    BY <2>1 DEF TypeOK
  <2>5. ask'[r] = u /\ thread'[u] = "asked" /\ \A q \in Requests : ask[q] # u
    BY ZenonT(40), <2>1, <2>3, <2>4, NoThread DEF AskInv, Requests
  <2>6. ASSUME NEW q \in Requests, q # r, ask'[q] # None
        PROVE  ask'[q] = ask[q] /\ ask[q] \in Threads /\ ask[q] # ask[r] /\ ask[q] # u
    BY <2>2, <2>4, <2>5, <2>6, NoThread DEF AskInv, TypeOK, Slot, Requests
  <2>7. \A q \in Requests : ask'[q] # None => thread'[ask'[q]] = "asked"
    BY <2>3, <2>5, <2>6 DEF AskInv
  <2>8. \A q, p \in Requests : ask'[q] # None /\ ask'[q] = ask'[p] => q = p
    BY <2>5, <2>6 DEF AskInv
  <2>9. \A t \in Threads : thread'[t] = "asked" => \E q \in Requests : t = ask'[q]
    BY <2>3, <2>4, <2>5 DEF AskInv, Requests
  <2>10. QED
    BY <2>7, <2>8, <2>9 DEF AskInv
<1>13. ASSUME NEW r \in Talkers, FrontStarted(r) PROVE AskInv'
  BY <1>13 DEF FrontStarted, AskInv, TypeOK, LaneTypeOK, Requests
<1>14. ASSUME NEW r \in Talkers, StartupFails(r) PROVE AskInv'
  <2>1. \A t \in Threads : thread'[t] = "asked" <=> thread[t] = "asked" /\ t # ask[r]
    BY <1>14, StartupFailsEffect
  <2>2. ask'[r] = None /\ \A q \in Requests \ {r} : ask'[q] = ask[q]
    BY <1>14, StartupFailsEffect
  <2>3. QED
    BY <2>1, <2>2, AskEnds DEF Requests
<1>15. ASSUME NEW r \in Talkers, NEW who \in Starters, Scrub(r, who) PROVE AskInv'
  <2>1. \A t \in scrub[r][who] : t \in Threads /\ thread[t] # "asked"
    BY DEF TypeOK, KeptInv, Kept
  <2>2. CASE {t \in scrub[r][who] : link[t] \in {"opening", "open"}} = {}
    BY <1>15, <2>1, <2>2, ScrubEffect, AskStays
  <2>3. CASE {t \in scrub[r][who] : link[t] \in {"opening", "open"}} # {}
    BY <1>15, <2>3, AskStays DEF Scrub
  <2>4. QED
    BY <2>2, <2>3
<1>16. ASSUME NEW t \in Threads, CloseRetained(t), UNCHANGED requestVars PROVE AskInv'
  <2>1. thread[t] # "asked"
    BY <1>16 DEF CloseRetained, KeptInv, Kept
  <2>2. \A x \in Threads : thread'[x] = "asked" <=> thread[x] = "asked"
    BY <1>16, <2>1 DEF CloseRetained, Delete, TypeOK, LaneTypeOK
  <2>3. QED
    BY <1>16, <2>2, AskStays
<1>17. CASE UNCHANGED vars
  BY <1>17 DEF vars, AskInv
<1> QED
  BY <1>1, <1>2, <1>3, <1>4, <1>5, <1>6, <1>7, <1>8, <1>9, <1>10, <1>11, <1>12, <1>13, <1>14,
     <1>15, <1>16, <1>17
     DEF Next, Lease, Retained, Transcribe, Synthesize, Talk

(* What a request lets go is deleted, or is being deleted.                 *)
LEMMA GoneStep ==
    TypeOK /\ PhaseInv /\ TalkInv /\ AskInv /\ RestInv /\ GoneInv /\ [Next]_vars => GoneInv'
<1> SUFFICES ASSUME TypeOK, PhaseInv, TalkInv, AskInv, RestInv, GoneInv, [Next]_vars
             PROVE  GoneInv'
  OBVIOUS
<1> USE DEF GoTo, laneVars, leaseVars, offerVars, noticeVars, resourceVars, requestVars,
            ownVars, attemptVars, talkVars
<1>1. ASSUME NEW r \in Talkers, TalkLinked(r) \/ Settled(r) \/ WindingEnds(r)
      PROVE  GoneInv'
  <2>1. UNCHANGED <<pc, held, parting, cleaning, thread, front>>
    BY <1>1 DEF TalkLinked, Settled, WindingEnds
  <2>2. QED
    BY <2>1 DEF GoneInv, Gone, Closed
<1>2. ASSUME NEW t \in Threads, (Expire(t) \/ DogFinds(t) \/ DogStops(t) \/ DogStopsLate(t) \/
                Stir(t)) /\ UNCHANGED requestVars
      PROVE  GoneInv'
  <2>1. UNCHANGED <<pc, held, parting, cleaning, thread, front>>
    BY <1>2 DEF Expire, DogFinds, DogStops, DogStopsLate, Stir
  <2>2. QED
    BY <2>1 DEF GoneInv, Gone, Closed
<1>3. ASSUME CloseOn
      PROVE  GoneInv'
  <2>1. UNCHANGED <<pc, held, parting, cleaning, thread, front>>
    BY <1>3 DEF CloseOn
  <2>2. QED
    BY <2>1 DEF GoneInv, Gone, Closed
<1>4. ASSUME NEW r \in Requests, LaneBusy(r), UNCHANGED requestVars PROVE GoneInv'
  BY <1>4 DEF LaneBusy, GoneInv, Gone, Closed
<1>5. ASSUME NEW r \in Requests, LaneQueue(r), UNCHANGED requestVars PROVE GoneInv'
  BY <1>5 DEF LaneQueue, GoneInv, Gone, Closed
<1>6. ASSUME NEW r \in Requests, LaneRetry(r), UNCHANGED requestVars PROVE GoneInv'
  BY <1>6 DEF LaneRetry, GoneInv, Gone, Closed
<1>7. ASSUME NEW r \in Requests, LaneTimesOut(r), UNCHANGED requestVars PROVE GoneInv'
  BY <1>7 DEF LaneTimesOut, GoneInv, Gone, Closed
<1>8. ASSUME NEW r \in Requests, NEW match \in BOOLEAN, Claim(r, match), UNCHANGED requestVars
      PROVE  GoneInv'
  BY <1>8 DEF Claim, TrackCleanup, GoneInv, Gone, Closed, TypeOK, LaneTypeOK
<1>9. ASSUME NEW r \in Requests, Recheck(r), UNCHANGED requestVars PROVE GoneInv'
  BY <1>9 DEF Recheck, TrackCleanup, GoneInv, Gone, TypeOK, LaneTypeOK
<1>10. ASSUME NEW r \in Requests, Sanitize(r), UNCHANGED requestVars PROVE GoneInv'
  BY <1>10 DEF Sanitize, TrackCleanup, GoneInv, Gone, TypeOK, LaneTypeOK
<1>11. ASSUME NEW r \in Requests, Drained(r), UNCHANGED requestVars PROVE GoneInv'
  BY <1>11 DEF Drained, GoneInv, Gone, Closed
<1>12. ASSUME NEW r \in Requests, HandBack(r), UNCHANGED requestVars PROVE GoneInv'
  BY <1>12 DEF HandBack, TrackCleanup, GoneInv, Gone, Closed
<1>13. ASSUME NEW r \in Requests, Release(r), UNCHANGED requestVars PROVE GoneInv'
  BY <1>13 DEF Release, GoneInv, Gone, Closed
<1>14. ASSUME NEW r \in Requests, Call(r) PROVE GoneInv'
  BY <1>14 DEF Call, GoneInv, Gone, Closed
<1>15. ASSUME NEW r \in Requests, Look(r) PROVE GoneInv'
  BY <1>15 DEF Look, GoneInv, Gone, Closed
<1>16. ASSUME NEW r \in Requests, BodyRead(r) PROVE GoneInv'
  BY <1>16 DEF BodyRead, GoneInv, Gone, TypeOK
<1>17. ASSUME NEW r \in Requests, StartRead(r) PROVE GoneInv'
  BY <1>17 DEF StartRead, GoneInv, Gone, TypeOK
<1>18. ASSUME NEW r \in Requests, RefuseAudio(r) PROVE GoneInv'
  BY <1>18 DEF RefuseAudio, GoneInv, Gone, Closed
<1>19. ASSUME NEW r \in Requests, RefuseText(r) PROVE GoneInv'
  BY <1>19 DEF RefuseText, GoneInv, Gone, Closed
<1>20. ASSUME NEW r \in Requests, Begin(r) PROVE GoneInv'
  BY <1>20 DEF Begin, AskThread, IsNext, GoneInv, Gone, Closed
<1>21. ASSUME NEW r \in Requests, Started(r) PROVE GoneInv'
  BY <1>21 DEF Started, GoneInv, PhaseInv, OwnerPhases
<1>22. ASSUME NEW r \in Requests, StartFails(r) \/ NoSession(r) PROVE GoneInv'
  <2>1. CASE StartFails(r)
    BY <2>1 DEF StartFails, GoneInv, PhaseInv, OwnerPhases
  <2>2. CASE NoSession(r)
    BY <2>2 DEF NoSession, GoneInv, PhaseInv, OwnerPhases
  <2>3. QED
    BY <1>22, <2>1, <2>2
<1>23. ASSUME NEW r \in Requests, StartRejected(r) PROVE GoneInv'
  BY <1>23 DEF StartRejected, Delete, GoneInv, Gone, TypeOK, LaneTypeOK, Slot, PhaseInv
<1>24. ASSUME NEW r \in Requests, Linked(r) PROVE GoneInv'
  BY <1>24 DEF Linked, GoneInv, Gone, Closed
<1>25. ASSUME NEW r \in Requests, UseEnds(r) PROVE GoneInv'
  BY <1>25 DEF UseEnds, Wind, GoneInv, Gone, TypeOK
<1>26. ASSUME NEW r \in Requests, Retain(r) PROVE GoneInv'
  BY <1>26 DEF Retain, GoneInv, Gone, Closed
<1>27. ASSUME NEW r \in Requests, Stopped(r) PROVE GoneInv'
  BY <1>27 DEF Stopped, Delete, GoneInv, Gone, TypeOK, LaneTypeOK, Slot, PhaseInv
<1>28. ASSUME NEW r \in Requests, Disposed(r) PROVE GoneInv'
  BY <1>28 DEF Disposed, GoneInv, Gone, TypeOK
<1>29. ASSUME NEW r \in Requests, GiveUp(r) PROVE GoneInv'
  BY <1>29
     DEF GiveUp, Delete, TrackCleanup, GoneInv, Gone, Closed, TypeOK, Slot, PhaseInv,
         OwnerPhases
<1>30. ASSUME NEW r \in Requests, Dropped(r) PROVE GoneInv'
  BY <1>30 DEF Dropped, GoneInv, Gone, TypeOK
<1>31. ASSUME NEW r \in Requests, Publish(r) PROVE GoneInv'
  BY <1>31 DEF Publish, GoneInv, Gone, Closed
<1>32. ASSUME NEW r \in Requests, Speak(r) PROVE GoneInv'
  BY <1>32 DEF Speak, CloseHeld, TrackCleanup, GoneInv, Gone, Closed, TypeOK
<1>33. ASSUME NEW r \in Requests, Spoken(r) PROVE GoneInv'
  BY <1>33 DEF Spoken, CloseHeld, TrackCleanup, GoneInv, Gone, Closed
<1>34. ASSUME NEW r \in Requests, HeldClosed(r) PROVE GoneInv'
  BY <1>34 DEF HeldClosed, GoneInv, Gone, Closed
<1>35. ASSUME NEW r \in Talkers, StartTalk(r) PROVE GoneInv'
  BY <1>35 DEF StartTalk, AskThread, IsNext, GoneInv, Gone, Closed
<1>36. ASSUME NEW r \in Talkers, ExecStarted(r) PROVE GoneInv'
  BY <1>36
     DEF ExecStarted, IsNext, GoneInv, Gone, TypeOK, LaneTypeOK, Slot, Requests, PhaseInv,
         AskInv
<1>37. ASSUME NEW r \in Talkers, FrontStarted(r) PROVE GoneInv'
  BY <1>37, RequestsAssumption
     DEF FrontStarted, EndStartup, TakeOver, GoneInv, Gone, TypeOK, Requests, PhaseInv, AskInv
<1>38. ASSUME NEW r \in Talkers, StartupFails(r) PROVE GoneInv'
  <2>1. EndStartup(r, "failed", Owned(r)) /\ UNCHANGED <<pc, cleaning, parting, held>>
    BY <1>38, StartupFailsEffect
  <2>2. \A q \in Requests \ {r} : front'[q] = front[q]
    BY <2>1, EndStartupEffect
  <2>3. \A t \in Threads : thread[t] = "deleted" => thread'[t] = "deleted"
    BY <1>38, StartupFailsEffect, NoThread DEF AskInv, Requests
  <2>4. ASSUME NEW q \in Requests
        PROVE  /\ held[q] \in Slot /\ front[q] \in Slot /\ parting[q] \in Slot
               /\ pc[q] = "calming" => parting[q] # None
               /\ pc[q] = "dropping" => front[q] # None
    BY DEF TypeOK, LaneTypeOK, PhaseInv
  <2>5. r \in Requests /\ pc[r] \notin {"dropping", "deleting"}
    BY RequestsAssumption DEF PhaseInv, Requests
  <2>6. QED
    BY <2>1, <2>2, <2>3, <2>4, <2>5 DEF GoneInv, Gone, Slot
<1>39. ASSUME NEW r \in Talkers, Interrupt(r) PROVE GoneInv'
  BY <1>39 DEF Interrupt, LeaveTalk, TakeOver, GoneInv, Gone, TypeOK
<1>40. ASSUME NEW r \in Talkers, HaltStartup(r) PROVE GoneInv'
  <2>1. /\ EndStartup(r, "failed", Owned(r))
        /\ UNCHANGED <<pc, cleaning, parting, held, thread>>
    BY <1>40 DEF HaltStartup
  <2>2. \A q \in Requests \ {r} : front'[q] = front[q]
    BY <2>1, EndStartupEffect
  <2>3. QED
    BY <2>1, <2>2, RequestsAssumption DEF GoneInv, Gone, PhaseInv, Requests
<1>41. ASSUME NEW r \in Talkers, Halted(r) PROVE GoneInv'
  BY <1>41 DEF Halted, LeaveTalk, TakeOver, Owned, Starting, GoneInv, Gone, Closed
<1>42. ASSUME NEW r \in Talkers, StartupEnds(r) PROVE GoneInv'
  BY <1>42 DEF StartupEnds, LeaveTalk, TakeOver, GoneInv, Gone, TypeOK
<1>43. ASSUME NEW r \in Talkers, TalkEnds(r) PROVE GoneInv'
  BY <1>43 DEF TalkEnds, LeaveTalk, TakeOver, Owned, GoneInv, Gone, Closed
<1>44. ASSUME NEW r \in Talkers, Left(r) PROVE GoneInv'
  BY <1>44 DEF Left, GoneInv, Gone, Closed
<1>45. ASSUME NEW r \in Talkers, NEW who \in Starters, Scrub(r, who) PROVE GoneInv'
  BY <1>45 DEF Scrub, Delete, GoneInv, Gone, TypeOK, LaneTypeOK, Slot, PhaseInv
<1>46. ASSUME NEW t \in Threads, CloseRetained(t), UNCHANGED requestVars PROVE GoneInv'
  BY <1>46 DEF CloseRetained, Delete, GoneInv, Gone, TypeOK, LaneTypeOK, Slot, PhaseInv
<1>47. ASSUME NEW t \in Threads, DogBites(t), UNCHANGED requestVars PROVE GoneInv'
  BY <1>47 DEF DogBites, TrackCleanup, GoneInv, Gone, Closed
<1>48. ASSUME ReleaseOffer, UNCHANGED requestVars PROVE GoneInv'
  BY <1>48 DEF ReleaseOffer, TrackCleanup, CancelDog, GoneInv, Gone, Closed
<1>49. ASSUME CloseBridge PROVE GoneInv'
  BY <1>49 DEF CloseBridge, TrackCleanup, CancelDog, GoneInv, Gone, Closed
<1>50. CASE UNCHANGED vars
  BY <1>50 DEF vars, GoneInv, Gone, Closed
<1> QED
  BY <1>1, <1>2, <1>3, <1>4, <1>5, <1>6, <1>7, <1>8, <1>9, <1>10, <1>11, <1>12, <1>13, <1>14,
     <1>15, <1>16, <1>17, <1>18, <1>19, <1>20, <1>21, <1>22, <1>23, <1>24, <1>25, <1>26, <1>27,
     <1>28, <1>29, <1>30, <1>31, <1>32, <1>33, <1>34, <1>35, <1>36, <1>37, <1>38, <1>39, <1>40,
     <1>41, <1>42, <1>43, <1>44, <1>45, <1>46, <1>47, <1>48, <1>49, <1>50
     DEF Next, Lease, Retained, Transcribe, Synthesize, Talk

(* A thread passes from one owner to the next and is never dropped.        *)
LEMMA KeptStep ==
    TypeOK /\ PhaseInv /\ TalkInv /\ AskInv /\ GoneInv /\ CleanInv /\ RestInv /\ KeptInv /\
       [Next]_vars => KeptInv'
<1> SUFFICES ASSUME TypeOK, PhaseInv, TalkInv, AskInv, GoneInv, CleanInv, RestInv, KeptInv,
                    [Next]_vars
             PROVE  KeptInv'
  OBVIOUS
<1> USE DEF GoTo, laneVars, leaseVars, offerVars, noticeVars, resourceVars, requestVars,
            ownVars, attemptVars, talkVars
<1>1. ASSUME NEW r \in Requests, ((LaneBusy(r) \/ LaneQueue(r) \/ LaneRetry(r) \/ LaneTimesOut(r)
                \/ Drained(r)) /\ UNCHANGED requestVars) \/ Call(r) \/ Look(r) \/ BodyRead(r) \/
                StartRead(r) \/ RefuseAudio(r) \/ RefuseText(r) \/ Linked(r) \/ UseEnds(r) \/
                Retain(r)
      PROVE  KeptInv'
  <2>1. UNCHANGED <<offer, cleaning, front, exec, held, scrub, thread>>
    BY <1>1
       DEF LaneBusy, LaneQueue, LaneRetry, LaneTimesOut, Drained, Call, Look, BodyRead,
           StartRead, RefuseAudio, RefuseText, Linked, UseEnds, Retain, Wind
  <2>2. QED
    BY <2>1 DEF KeptInv, Kept
<1>2. ASSUME NEW r \in Talkers, TalkLinked(r) \/ Settled(r) \/ WindingEnds(r) \/ Left(r)
      PROVE  KeptInv'
  <2>1. UNCHANGED <<offer, cleaning, front, exec, held, scrub, thread>>
    BY <1>2 DEF TalkLinked, Settled, WindingEnds, Left
  <2>2. QED
    BY <2>1 DEF KeptInv, Kept
<1>3. ASSUME NEW t \in Threads, (Expire(t) \/ DogFinds(t) \/ DogStops(t) \/ DogStopsLate(t) \/
                Stir(t)) /\ UNCHANGED requestVars
      PROVE  KeptInv'
  <2>1. UNCHANGED <<offer, cleaning, front, exec, held, scrub, thread>>
    BY <1>3 DEF Expire, DogFinds, DogStops, DogStopsLate, Stir
  <2>2. QED
    BY <2>1 DEF KeptInv, Kept
<1>4. ASSUME CloseOn
      PROVE  KeptInv'
  <2>1. UNCHANGED <<offer, cleaning, front, exec, held, scrub, thread>>
    BY <1>4 DEF CloseOn
  <2>2. QED
    BY <2>1 DEF KeptInv, Kept
<1>5. ASSUME NEW r \in Requests, NEW match \in BOOLEAN, Claim(r, match), UNCHANGED requestVars
      PROVE  KeptInv'
  BY <1>5 DEF Claim, TrackCleanup, KeptInv, Kept, TypeOK, LaneTypeOK, PhaseInv, Closed
<1>6. ASSUME NEW r \in Requests, Recheck(r), UNCHANGED requestVars PROVE KeptInv'
  <2>1. CASE UNCHANGED <<held, cleaning>>
    BY <1>6, <2>1 DEF Recheck, KeptInv, Kept
  <2>2. CASE ~(UNCHANGED <<held, cleaning>>)
    <3>1. /\ held' = [held EXCEPT ![r] = None] /\ TrackCleanup(parting[r])
          /\ UNCHANGED <<offer, front, exec, scrub, thread>>
      BY <1>6, <2>2 DEF Recheck
    <3>2. parting[r] \in Threads /\ thread[parting[r]] \in {"live", "deleted"}
      <4>1. parting[r] \in Threads
        BY <1>6 DEF Recheck, PhaseInv, TypeOK, LaneTypeOK, Slot
      <4>2. CASE held[r] = None
        BY <1>6, <4>1, <4>2 DEF Recheck, GoneInv, Gone, KeptInv, Kept
      <4>3. CASE held[r] # None
        BY <1>6, <4>1, <4>3 DEF Recheck, PhaseInv, KeptInv, Kept
      <4>4. QED
        BY <4>2, <4>3
    <3>3. ASSUME NEW t \in Threads, Kept(t)' PROVE thread[t] \in {"live", "deleted"}
      BY <3>1, <3>2, <3>3, NoThread DEF TrackCleanup, KeptInv, Kept, TypeOK, LaneTypeOK
    <3>4. ASSUME NEW t \in Threads, thread[t] = "live" PROVE Kept(t)'
      <4>1. CASE t = parting[r]
        BY <3>1, <3>4, <4>1 DEF TrackCleanup, Closed, Kept
      <4>2. CASE t # parting[r]
        <5>1. t # held[r]
          BY <1>6, <4>2, NoThread DEF Recheck, PhaseInv
        <5>2. QED
          BY <3>1, <3>4, <5>1 DEF TrackCleanup, KeptInv, Kept, TypeOK, LaneTypeOK
      <4>3. QED
        BY <4>1, <4>2
    <3>5. QED
      BY <3>1, <3>3, <3>4 DEF KeptInv
  <2>3. QED
    BY <2>1, <2>2
<1>7. ASSUME NEW r \in Requests, Sanitize(r), UNCHANGED requestVars PROVE KeptInv'
  BY <1>7, NoThread DEF Sanitize, TrackCleanup, KeptInv, Kept, TypeOK, LaneTypeOK, Closed
<1>8. ASSUME NEW r \in Requests, HandBack(r), UNCHANGED requestVars PROVE KeptInv'
  BY <1>8 DEF HandBack, TrackCleanup, KeptInv, Kept
<1>9. ASSUME NEW r \in Requests, Release(r), UNCHANGED requestVars PROVE KeptInv'
  BY <1>9, NoThread DEF Release, KeptInv, Kept, GoneInv, Gone
<1>10. ASSUME NEW r \in Requests, Begin(r) PROVE KeptInv'
  <2>1. PICK u \in Threads : /\ thread[u] = "none"
                            /\ thread' = [thread EXCEPT ![u] = "asked"]
    BY <1>10 DEF Begin, AskThread, IsNext
  <2>2. UNCHANGED <<offer, cleaning, held, front, exec, scrub>>
    BY <1>10 DEF Begin
  <2>3. \A t \in Threads : thread'[t] = IF t = u THEN "asked" ELSE thread[t]
    BY <2>1 DEF TypeOK, LaneTypeOK
  <2>4. ~Kept(u)
    BY <2>1 DEF KeptInv
  <2>5. QED
    BY <2>2, <2>3, <2>4 DEF KeptInv, Kept
<1>11. ASSUME NEW r \in Requests, Started(r) PROVE KeptInv'
  <2>1. /\ ask[r] \in Threads /\ front[r] = None
        /\ thread' = [thread EXCEPT ![ask[r]] = "live"]
        /\ front' = [front EXCEPT ![r] = ask[r]]
    <3>1. pc[r] = "starting" /\ r \notin Talkers
      BY <1>11 DEF Started, PhaseInv
    <3>2. ask[r] \in Threads
      BY <3>1 DEF PhaseInv, TypeOK, Slot
    <3>3. front[r] = None
      BY <3>1 DEF RestInv
    <3>4. QED
      BY <1>11, <3>2, <3>3 DEF Started
  <2>2. UNCHANGED <<offer, cleaning, held, exec, scrub>>
    BY <1>11 DEF Started, leaseVars, offerVars, attemptVars, talkVars
  <2>3. \A t \in Threads : thread'[t] = IF t = ask[r] THEN "live" ELSE thread[t]
    BY <2>1 DEF TypeOK, LaneTypeOK
  <2>4. \A q \in Requests : front'[q] = IF q = r THEN ask[r] ELSE front[q]
    BY <2>1 DEF TypeOK
  <2>5. \A t \in Threads : Kept(t)' <=> Kept(t) \/ t = ask[r]
    BY <2>1, <2>2, <2>4, NoThread DEF Kept
  <2>6. QED
    BY <2>3, <2>5 DEF KeptInv
<1>12. ASSUME NEW r \in Requests, StartFails(r) \/ NoSession(r) PROVE KeptInv'
  <2>1. CASE StartFails(r)
    BY <2>1, NoThread DEF StartFails, KeptInv, Kept, AskInv
  <2>2. CASE NoSession(r)
    BY <2>2, NoThread DEF NoSession, KeptInv, Kept, AskInv
  <2>3. QED
    BY <1>12, <2>1, <2>2
<1>13. ASSUME NEW r \in Requests, StartRejected(r) PROVE KeptInv'
  BY <1>13
     DEF StartRejected, Delete, KeptInv, Kept, PhaseInv, GoneInv, CleanInv, RestInv,
         OwnerPhases, Gone, Closed, Owned
<1>14. ASSUME NEW r \in Requests, Stopped(r) PROVE KeptInv'
  BY <1>14 DEF Stopped, Delete, KeptInv, Kept
<1>15. ASSUME NEW r \in Requests, Disposed(r) PROVE KeptInv'
  BY <1>15, NoThread DEF Disposed, KeptInv, Kept, GoneInv
<1>16. ASSUME NEW r \in Requests, GiveUp(r) PROVE KeptInv'
  BY <1>16
     DEF GiveUp, Delete, TrackCleanup, KeptInv, Kept, TypeOK, LaneTypeOK, PhaseInv, AskInv,
         GoneInv, Gone, Owned
<1>17. ASSUME NEW r \in Requests, Dropped(r) PROVE KeptInv'
  BY <1>17, NoThread DEF Dropped, KeptInv, Kept, GoneInv, Gone
<1>18. ASSUME NEW r \in Requests, Publish(r) PROVE KeptInv'
  BY <1>18 DEF Publish, KeptInv, Kept, CleanInv, RestInv, OwnerPhases, Gone, Closed, Owned
<1>19. ASSUME NEW r \in Requests, Speak(r) PROVE KeptInv'
  BY <1>19 DEF Speak, CloseHeld, TrackCleanup, KeptInv, Kept
<1>20. ASSUME NEW r \in Requests, Spoken(r) PROVE KeptInv'
  BY <1>20 DEF Spoken, CloseHeld, TrackCleanup, KeptInv, Kept
<1>21. ASSUME NEW r \in Requests, HeldClosed(r) PROVE KeptInv'
  BY <1>21, NoThread DEF HeldClosed, KeptInv, Kept, GoneInv, Gone
<1>22. ASSUME NEW r \in Talkers, StartTalk(r) PROVE KeptInv'
  <2>1. PICK u \in Threads : /\ thread[u] = "none"
                            /\ thread' = [thread EXCEPT ![u] = "asked"]
    BY <1>22 DEF StartTalk, AskThread, IsNext
  <2>2. UNCHANGED <<offer, cleaning, held, front, exec, scrub>>
    BY <1>22 DEF StartTalk
  <2>3. \A t \in Threads : thread'[t] = IF t = u THEN "asked" ELSE thread[t]
    BY <2>1 DEF TypeOK, LaneTypeOK
  <2>4. ~Kept(u)
    BY <2>1 DEF KeptInv
  <2>5. QED
    BY <2>2, <2>3, <2>4 DEF KeptInv, Kept
<1>23. ASSUME NEW r \in Talkers, ExecStarted(r) PROVE KeptInv'
  <2>1. PICK u \in Threads : /\ thread[u] = "none"
                            /\ thread' = [thread EXCEPT ![ask[r]] = "live", ![u] = "asked"]
    BY <1>23 DEF ExecStarted, IsNext
  <2>2. /\ ask[r] \in Threads /\ exec[r] = None /\ thread[ask[r]] = "asked"
        /\ exec' = [exec EXCEPT ![r] = ask[r]]
        /\ UNCHANGED <<offer, cleaning, held, front, scrub>>
    BY <1>23 DEF ExecStarted, TalkInv, AskInv, KeptInv, TypeOK, Slot, Requests
  <2>3. ASSUME NEW t \in Threads
        PROVE  Kept(t)' <=> Kept(t) \/ t = ask[r]
    <3>1. (\E q \in Requests : t = exec'[q])
          <=> t = ask[r] \/ \E q \in Requests : t = exec[q]
      BY <2>2, NoThread DEF TypeOK, Requests
    <3>2. QED
      BY <2>2, <3>1 DEF Kept
  <2>4. \A t \in Threads :
           thread'[t] = CASE t = u -> "asked" [] t = ask[r] -> "live" [] OTHER -> thread[t]
    BY <2>1, <2>2 DEF TypeOK, LaneTypeOK
  <2>5. ~Kept(u)
    BY <2>1 DEF KeptInv
  <2>6. QED
    BY <2>1, <2>2, <2>3, <2>4, <2>5 DEF KeptInv
<1>24. ASSUME NEW r \in Talkers, FrontStarted(r) PROVE KeptInv'
  <2>1. /\ ask[r] \in Threads /\ front[r] = None
        /\ thread' = [thread EXCEPT ![ask[r]] = "live"]
        /\ UNCHANGED <<offer, cleaning, held>>
    BY <1>24 DEF FrontStarted, TalkInv, TypeOK, Slot, Requests
  <2>2. ASSUME NEW t \in Threads
        PROVE  Kept(t)' <=> Kept(t) \/ t = ask[r]
    <3>1. CASE r \notin abandoned
      <4>1. front' = [front EXCEPT ![r] = ask[r]] /\ UNCHANGED <<exec, scrub>>
        BY <1>24, <3>1 DEF FrontStarted
      <4>2. (\E q \in Requests : t = front'[q])
            <=> t = ask[r] \/ \E q \in Requests : t = front[q]
        BY <2>1, <4>1, NoThread DEF TypeOK, Requests
      <4>3. QED
        BY <2>1, <4>1, <4>2 DEF Kept
    <3>2. CASE r \in abandoned
      <4>1. /\ scrub' = [scrub EXCEPT ![r]["startup"] =
                            scrub[r]["startup"] \cup (Owned(r) \cup {ask[r]})]
            /\ front' = [front EXCEPT ![r] = None] /\ exec' = [exec EXCEPT ![r] = None]
        BY <1>24, <3>2 DEF FrontStarted, EndStartup, TakeOver
      <4>2. ASSUME NEW q \in Talkers, NEW who \in Starters
            PROVE  scrub'[q][who] = IF q = r /\ who = "startup"
                                    THEN scrub[q][who] \cup (Owned(r) \cup {ask[r]})
                                    ELSE scrub[q][who]
        BY <4>1 DEF TypeOK, Starters
      <4>3. (\E q \in Requests : t = front'[q] \/ t = exec'[q]) \/ t \in Owned(r)
            <=> \E q \in Requests : t = front[q] \/ t = exec[q]
        BY <4>1, NoThread DEF Owned, TypeOK, Requests
      <4>4. (\E q \in Talkers, who \in Starters : t \in scrub'[q][who])
            <=> t \in Owned(r) \/ t = ask[r]
                \/ \E q \in Talkers, who \in Starters : t \in scrub[q][who]
        BY <4>2 DEF Starters
      <4>5. QED
        BY <2>1, <4>3, <4>4 DEF Kept
    <3>3. QED
      BY <3>1, <3>2
  <2>3. QED
    BY <2>1, <2>2 DEF KeptInv, TypeOK, LaneTypeOK
<1>25. ASSUME NEW r \in Talkers, StartupFails(r) PROVE KeptInv'
  <2>1. /\ EndStartup(r, "failed", Owned(r)) /\ UNCHANGED <<offer, cleaning, held>>
        /\ \A t \in Threads : thread'[t] = thread[t] \/
              (t = ask[r] /\ thread'[t] \in {"deleted", "orphan"})
    BY <1>25, StartupFailsEffect
  <2>2. ask[r] \in Threads => thread[ask[r]] = "asked"
    BY NoThread DEF AskInv, Requests
  <2>3. QED
    BY <2>1, <2>2, EndStartupKept DEF KeptInv
<1>26. ASSUME NEW r \in Talkers, Interrupt(r) PROVE KeptInv'
  <2>1. CASE LeaveTalk(r, Owned(r))
    BY <1>26, <2>1, LeaveTalkKept DEF Interrupt
  <2>2. CASE ~LeaveTalk(r, Owned(r))
    BY <1>26, <2>2 DEF Interrupt, KeptInv, Kept
  <2>3. QED
    BY <2>1, <2>2
<1>27. ASSUME NEW r \in Talkers, HaltStartup(r) PROVE KeptInv'
  BY <1>27, EndStartupKept DEF HaltStartup
<1>28. ASSUME NEW r \in Talkers, Halted(r) PROVE KeptInv'
  BY <1>28, LeaveTalkKept DEF Halted
<1>29. ASSUME NEW r \in Talkers, StartupEnds(r) PROVE KeptInv'
  <2>1. CASE LeaveTalk(r, Owned(r))
    BY <1>29, <2>1, LeaveTalkKept DEF StartupEnds
  <2>2. CASE ~LeaveTalk(r, Owned(r))
    BY <1>29, <2>2 DEF StartupEnds, KeptInv, Kept
  <2>3. QED
    BY <2>1, <2>2
<1>30. ASSUME NEW r \in Talkers, TalkEnds(r) PROVE KeptInv'
  BY <1>30, LeaveTalkKept DEF TalkEnds
<1>31. ASSUME NEW r \in Talkers, NEW who \in Starters, Scrub(r, who) PROVE KeptInv'
  <2>1. CASE {t \in scrub[r][who] : link[t] \in {"opening", "open"}} = {}
    <3>1. /\ \A t \in Threads :
                thread'[t] = IF t \in scrub[r][who] THEN "deleted" ELSE thread[t]
          /\ \A q \in Talkers, w \in Starters :
                scrub'[q][w] = IF q = r /\ w = who THEN {} ELSE scrub[q][w]
          /\ UNCHANGED <<offer, cleaning, held, front, exec>>
      BY <1>31, <2>1, ScrubEffect
    <3>2. ASSUME NEW t \in Threads, Kept(t)' PROVE Kept(t)
      BY <3>1, <3>2 DEF Kept
    <3>3. ASSUME NEW t \in Threads, Kept(t), t \notin scrub[r][who] PROVE Kept(t)'
      BY <3>1, <3>3 DEF Kept
    <3>4. QED
      BY <3>1, <3>2, <3>3 DEF KeptInv
  <2>2. CASE {t \in scrub[r][who] : link[t] \in {"opening", "open"}} # {}
    BY <1>31, <2>2 DEF Scrub, KeptInv, Kept
  <2>3. QED
    BY <2>1, <2>2
<1>32. ASSUME NEW t \in Threads, CloseRetained(t), UNCHANGED requestVars PROVE KeptInv'
  BY <1>32 DEF CloseRetained, Delete, KeptInv, Kept
<1>33. ASSUME NEW t \in Threads, DogBites(t), UNCHANGED requestVars PROVE KeptInv'
  BY <1>33, NoThread DEF DogBites, TrackCleanup, KeptInv, Kept, GoneInv, Closed
<1>34. ASSUME ReleaseOffer, UNCHANGED requestVars PROVE KeptInv'
  BY <1>34, NoThread DEF ReleaseOffer, TrackCleanup, KeptInv, Kept, Closed
<1>35. ASSUME CloseBridge PROVE KeptInv'
  BY <1>35, NoThread DEF CloseBridge, TrackCleanup, KeptInv, Kept, Closed
<1>36. CASE UNCHANGED vars
  BY <1>36 DEF vars, KeptInv, Kept
<1> QED
  BY <1>1, <1>2, <1>3, <1>4, <1>5, <1>6, <1>7, <1>8, <1>9, <1>10, <1>11, <1>12, <1>13, <1>14,
     <1>15, <1>16, <1>17, <1>18, <1>19, <1>20, <1>21, <1>22, <1>23, <1>24, <1>25, <1>26, <1>27,
     <1>28, <1>29, <1>30, <1>31, <1>32, <1>33, <1>34, <1>35, <1>36
     DEF Next, Lease, Retained, Transcribe, Synthesize, Talk

(* A request that is over owns nothing.                                    *)
LEMMA RestStep ==
    TypeOK /\ PhaseInv /\ TalkInv /\ RestInv /\ [Next]_vars => RestInv'
<1> SUFFICES ASSUME TypeOK, PhaseInv, TalkInv, RestInv, [Next]_vars PROVE RestInv'
  OBVIOUS
<1> USE DEF GoTo, laneVars, leaseVars, offerVars, noticeVars, resourceVars, requestVars,
            ownVars, attemptVars, talkVars
<1>1. ASSUME NEW r \in Talkers, NEW who \in Starters, Scrub(r, who)
      PROVE  RestInv'
  <2>1. UNCHANGED <<exec, ask, front, pc, startup>>
    BY <1>1 DEF Scrub
  <2>2. QED
    BY <2>1 DEF RestInv
<1>2. ASSUME NEW t \in Threads, (CloseRetained(t) \/ Expire(t) \/ DogFinds(t) \/ DogBites(t) \/
                DogStops(t) \/ DogStopsLate(t) \/ Stir(t)) /\ UNCHANGED requestVars
      PROVE  RestInv'
  <2>1. UNCHANGED <<exec, ask, front, pc, startup>>
    BY <1>2 DEF CloseRetained, Expire, DogFinds, DogBites, DogStops, DogStopsLate, Stir
  <2>2. QED
    BY <2>1 DEF RestInv
<1>3. ASSUME (ReleaseOffer /\ UNCHANGED requestVars) \/ CloseBridge \/ CloseOn
      PROVE  RestInv'
  <2>1. UNCHANGED <<exec, ask, front, pc, startup>>
    BY <1>3 DEF ReleaseOffer, CloseBridge, CloseOn
  <2>2. QED
    BY <2>1 DEF RestInv
<1>4. ASSUME NEW r \in Requests, LaneBusy(r), UNCHANGED requestVars PROVE RestInv'
  BY <1>4 DEF LaneBusy, RestInv
<1>5. ASSUME NEW r \in Requests, LaneQueue(r), UNCHANGED requestVars PROVE RestInv'
  BY <1>5 DEF LaneQueue, RestInv
<1>6. ASSUME NEW r \in Requests, LaneRetry(r), UNCHANGED requestVars PROVE RestInv'
  BY <1>6 DEF LaneRetry, RestInv
<1>7. ASSUME NEW r \in Requests, LaneTimesOut(r), UNCHANGED requestVars PROVE RestInv'
  BY <1>7 DEF LaneTimesOut, RestInv
<1>8. ASSUME NEW r \in Requests, NEW match \in BOOLEAN, Claim(r, match), UNCHANGED requestVars
      PROVE  RestInv'
  BY <1>8 DEF Claim, RestInv, TypeOK, Requests
<1>9. ASSUME NEW r \in Requests, Recheck(r), UNCHANGED requestVars PROVE RestInv'
  BY <1>9 DEF Recheck, RestInv, TypeOK, Requests
<1>10. ASSUME NEW r \in Requests, Sanitize(r), UNCHANGED requestVars PROVE RestInv'
  BY <1>10 DEF Sanitize, RestInv, TypeOK, Requests
<1>11. ASSUME NEW r \in Requests, Drained(r), UNCHANGED requestVars PROVE RestInv'
  BY <1>11 DEF Drained, RestInv
<1>12. ASSUME NEW r \in Requests, HandBack(r), UNCHANGED requestVars PROVE RestInv'
  BY <1>12 DEF HandBack, TrackCleanup, RestInv
<1>13. ASSUME NEW r \in Requests, Release(r), UNCHANGED requestVars PROVE RestInv'
  BY <1>13 DEF Release, RestInv
<1>14. ASSUME NEW r \in Requests, Call(r) PROVE RestInv'
  BY <1>14 DEF Call, RestInv
<1>15. ASSUME NEW r \in Requests, Look(r) PROVE RestInv'
  BY <1>15 DEF Look, RestInv
<1>16. ASSUME NEW r \in Requests, BodyRead(r) PROVE RestInv'
  BY <1>16 DEF BodyRead, RestInv, TypeOK, Requests
<1>17. ASSUME NEW r \in Requests, StartRead(r) PROVE RestInv'
  BY <1>17 DEF StartRead, RestInv, TypeOK, Requests
<1>18. ASSUME NEW r \in Requests, RefuseAudio(r) PROVE RestInv'
  BY <1>18 DEF RefuseAudio, RestInv
<1>19. ASSUME NEW r \in Requests, RefuseText(r) PROVE RestInv'
  BY <1>19 DEF RefuseText, RestInv
<1>20. ASSUME NEW r \in Requests, Begin(r) PROVE RestInv'
  BY <1>20, RequestsAssumption DEF Begin, AskThread, RestInv, TypeOK
<1>21. ASSUME NEW r \in Requests, Started(r) PROVE RestInv'
  BY <1>21 DEF Started, RestInv, TypeOK, PhaseInv
<1>22. ASSUME NEW r \in Requests, StartFails(r) \/ NoSession(r) PROVE RestInv'
  <2>1. CASE StartFails(r)
    BY <2>1 DEF StartFails, RestInv, TypeOK
  <2>2. CASE NoSession(r)
    BY <2>2 DEF NoSession, RestInv, TypeOK
  <2>3. QED
    BY <1>22, <2>1, <2>2
<1>23. ASSUME NEW r \in Requests, StartRejected(r) PROVE RestInv'
  BY <1>23 DEF StartRejected, RestInv, TypeOK, PhaseInv
<1>24. ASSUME NEW r \in Requests, Linked(r) PROVE RestInv'
  BY <1>24 DEF Linked, RestInv
<1>25. ASSUME NEW r \in Requests, UseEnds(r) PROVE RestInv'
  BY <1>25 DEF UseEnds, Wind, RestInv, TypeOK, Requests
<1>26. ASSUME NEW r \in Requests, Retain(r) PROVE RestInv'
  BY <1>26 DEF Retain, RestInv
<1>27. ASSUME NEW r \in Requests, Stopped(r) PROVE RestInv'
  BY <1>27 DEF Stopped, Delete, RestInv
<1>28. ASSUME NEW r \in Requests, Disposed(r) PROVE RestInv'
  BY <1>28 DEF Disposed, RestInv, TypeOK
<1>29. ASSUME NEW r \in Requests, GiveUp(r) PROVE RestInv'
  BY <1>29 DEF GiveUp, RestInv, TypeOK, Requests
<1>30. ASSUME NEW r \in Requests, Dropped(r) PROVE RestInv'
  BY <1>30 DEF Dropped, RestInv, TypeOK
<1>31. ASSUME NEW r \in Requests, Publish(r) PROVE RestInv'
  BY <1>31 DEF Publish, RestInv, TypeOK
<1>32. ASSUME NEW r \in Requests, Speak(r) PROVE RestInv'
  BY <1>32, RequestsAssumption DEF Speak, CloseHeld, RestInv, PhaseInv, TypeOK, Requests
<1>33. ASSUME NEW r \in Requests, Spoken(r) PROVE RestInv'
  BY <1>33 DEF Spoken, CloseHeld, TrackCleanup, RestInv
<1>34. ASSUME NEW r \in Requests, HeldClosed(r) PROVE RestInv'
  BY <1>34 DEF HeldClosed, RestInv
<1>35. ASSUME NEW r \in Talkers, StartTalk(r) PROVE RestInv'
  BY <1>35 DEF StartTalk, AskThread, RestInv, TypeOK
<1>36. ASSUME NEW r \in Talkers, ExecStarted(r) PROVE RestInv'
  BY <1>36 DEF ExecStarted, IsNext, RestInv
<1>37. ASSUME NEW r \in Talkers, FrontStarted(r) PROVE RestInv'
  BY <1>37 DEF FrontStarted, EndStartup, TakeOver, RestInv, TypeOK, Requests, TalkInv
<1>38. ASSUME NEW r \in Talkers, TalkLinked(r) PROVE RestInv'
  BY <1>38 DEF TalkLinked, RestInv
<1>39. ASSUME NEW r \in Talkers, Settled(r) PROVE RestInv'
  BY <1>39 DEF Settled, RestInv
<1>40. ASSUME NEW r \in Talkers, StartupFails(r) PROVE RestInv'
  <2>1. EndStartup(r, "failed", Owned(r)) /\ UNCHANGED pc /\ ask'[r] = None
    BY <1>40, StartupFailsEffect
  <2>2. \A q \in Requests \ {r} : UNCHANGED <<ask[q], front[q], exec[q]>>
    BY <1>40, <2>1, StartupFailsEffect, EndStartupEffect
  <2>3. \A q \in Talkers \ {r} : startup'[q] = startup[q]
    BY <2>1, EndStartupEffect
  <2>4. CASE r \in abandoned
    <3>1. exec'[r] = None /\ front'[r] = None
      <4>1. CASE Owned(r) = {}
        <5>1. front[r] = None /\ exec[r] = None
          BY <4>1 DEF Owned
        <5>2. QED
          BY <2>1, <5>1, EndStartupEffect
      <4>2. CASE Owned(r) # {}
        BY <2>1, <2>4, <4>2, EndStartupEffect
      <4>3. QED
        BY <4>1, <4>2
    <3>2. QED
      BY <2>1, <2>2, <2>3, <3>1, RequestsAssumption DEF RestInv, Requests
  <2>5. CASE r \notin abandoned
    <3>1. pc[r] = "startup"
      BY <1>40, <2>5 DEF StartupFails, TalkInv
    <3>2. QED
      BY <2>1, <2>2, <2>3, <3>1, RequestsAssumption DEF RestInv, Requests
  <2>6. QED
    BY <2>4, <2>5
<1>41. ASSUME NEW r \in Talkers, WindingEnds(r) PROVE RestInv'
  BY <1>41 DEF WindingEnds, RestInv
<1>42. ASSUME NEW r \in Talkers, Interrupt(r) PROVE RestInv'
  <2>1. CASE LeaveTalk(r, Owned(r))
    <3>1. /\ pc' = [pc EXCEPT ![r] = "leaving"]
          /\ front' = [front EXCEPT ![r] = None] /\ exec' = [exec EXCEPT ![r] = None]
      BY <2>1, LeaveTalkEffect
    <3>2. UNCHANGED <<ask, startup>>
      BY <1>42 DEF Interrupt
    <3>3. QED
      BY <3>1, <3>2, RequestsAssumption DEF RestInv, TypeOK, Requests
  <2>2. CASE ~LeaveTalk(r, Owned(r))
    BY <1>42, <2>2, RequestsAssumption DEF Interrupt, RestInv, TypeOK, Requests
  <2>3. QED
    BY <2>1, <2>2
<1>43. ASSUME NEW r \in Talkers, HaltStartup(r) PROVE RestInv'
  BY <1>43, EndStartupEffect, NoThread, Shapes DEF HaltStartup, RestInv, TalkInv, Requests
<1>44. ASSUME NEW r \in Talkers, Halted(r) PROVE RestInv'
  BY <1>44 DEF Halted, LeaveTalk, TakeOver, RestInv, TypeOK
<1>45. ASSUME NEW r \in Talkers, StartupEnds(r) PROVE RestInv'
  BY <1>45 DEF StartupEnds, LeaveTalk, TakeOver, RestInv, TypeOK, Requests
<1>46. ASSUME NEW r \in Talkers, TalkEnds(r) PROVE RestInv'
  BY <1>46 DEF TalkEnds, LeaveTalk, TakeOver, RestInv, TypeOK
<1>47. ASSUME NEW r \in Talkers, Left(r) PROVE RestInv'
  BY <1>47 DEF Left, RestInv
<1>48. CASE UNCHANGED vars
  BY <1>48 DEF vars, RestInv
<1> QED
  BY <1>1, <1>2, <1>3, <1>4, <1>5, <1>6, <1>7, <1>8, <1>9, <1>10, <1>11, <1>12, <1>13, <1>14,
     <1>15, <1>16, <1>17, <1>18, <1>19, <1>20, <1>21, <1>22, <1>23, <1>24, <1>25, <1>26, <1>27,
     <1>28, <1>29, <1>30, <1>31, <1>32, <1>33, <1>34, <1>35, <1>36, <1>37, <1>38, <1>39, <1>40,
     <1>41, <1>42, <1>43, <1>44, <1>45, <1>46, <1>47, <1>48
     DEF Next, Lease, Retained, Transcribe, Synthesize, Talk

(* The end of the bridge takes its stages in order.                        *)
LEMMA BridgeStep ==
    TypeOK /\ PhaseInv /\ TalkInv /\ RestInv /\ BridgeInv /\ [Next]_vars => BridgeInv'
<1> SUFFICES ASSUME TypeOK, PhaseInv, TalkInv, RestInv, BridgeInv, [Next]_vars PROVE BridgeInv'
  OBVIOUS
<1> USE DEF GoTo, laneVars, leaseVars, offerVars, noticeVars, resourceVars, requestVars,
            ownVars, attemptVars, talkVars
<1>1. ASSUME NEW t \in Threads, (Expire(t) \/ DogFinds(t) \/ DogStops(t) \/ DogStopsLate(t) \/
                Stir(t)) /\ UNCHANGED requestVars
      PROVE  BridgeInv'
  <2>1. UNCHANGED <<bridge, offer, pc, cleaning, startup, scrub>>
    BY <1>1 DEF Expire, DogFinds, DogStops, DogStopsLate, Stir
  <2>2. QED
    BY <2>1 DEF BridgeInv, Scrubbed, Starting
<1>2. ASSUME NEW r \in Requests, LaneBusy(r), UNCHANGED requestVars PROVE BridgeInv'
  BY <1>2 DEF LaneBusy, BridgeInv, Scrubbed, Starting
<1>3. ASSUME NEW r \in Requests, LaneQueue(r), UNCHANGED requestVars PROVE BridgeInv'
  BY <1>3 DEF LaneQueue, BridgeInv, Scrubbed, Starting
<1>4. ASSUME NEW r \in Requests, LaneRetry(r), UNCHANGED requestVars PROVE BridgeInv'
  BY <1>4 DEF LaneRetry, BridgeInv, Scrubbed, Starting
<1>5. ASSUME NEW r \in Requests, LaneTimesOut(r), UNCHANGED requestVars PROVE BridgeInv'
  BY <1>5 DEF LaneTimesOut, BridgeInv, Scrubbed, Starting
<1>6. ASSUME NEW r \in Requests, NEW match \in BOOLEAN, Claim(r, match), UNCHANGED requestVars
      PROVE  BridgeInv'
  BY <1>6 DEF Claim, CancelDog, TrackCleanup, BridgeInv, Scrubbed, Starting
<1>7. ASSUME NEW r \in Requests, Recheck(r), UNCHANGED requestVars PROVE BridgeInv'
  BY <1>7 DEF Recheck, TrackCleanup, BridgeInv, Scrubbed, Starting
<1>8. ASSUME NEW r \in Requests, Sanitize(r), UNCHANGED requestVars PROVE BridgeInv'
  BY <1>8 DEF Sanitize, TrackCleanup, BridgeInv, Scrubbed, Starting
<1>9. ASSUME NEW r \in Requests, Drained(r), UNCHANGED requestVars PROVE BridgeInv'
  BY <1>9 DEF Drained, BridgeInv, Scrubbed, Starting
<1>10. ASSUME NEW r \in Requests, HandBack(r), UNCHANGED requestVars PROVE BridgeInv'
  BY <1>10 DEF HandBack, TrackCleanup, BridgeInv, Scrubbed, Starting
<1>11. ASSUME NEW r \in Requests, Release(r), UNCHANGED requestVars PROVE BridgeInv'
  BY <1>11 DEF Release, BridgeInv, Scrubbed, Starting
<1>12. ASSUME NEW r \in Requests, Call(r) PROVE BridgeInv'
  BY <1>12 DEF Call, BridgeInv, Scrubbed, Starting
<1>13. ASSUME NEW r \in Requests, Look(r) PROVE BridgeInv'
  BY <1>13 DEF Look, BridgeInv, Scrubbed, Starting
<1>14. ASSUME NEW r \in Requests, BodyRead(r) PROVE BridgeInv'
  BY <1>14 DEF BodyRead, BridgeInv, Scrubbed, Starting
<1>15. ASSUME NEW r \in Requests, StartRead(r) PROVE BridgeInv'
  BY <1>15 DEF StartRead, BridgeInv, Scrubbed, Starting
<1>16. ASSUME NEW r \in Requests, RefuseAudio(r) PROVE BridgeInv'
  BY <1>16 DEF RefuseAudio, BridgeInv, Scrubbed, Starting
<1>17. ASSUME NEW r \in Requests, RefuseText(r) PROVE BridgeInv'
  BY <1>17 DEF RefuseText, BridgeInv, Scrubbed, Starting
<1>18. ASSUME NEW r \in Requests, Begin(r) PROVE BridgeInv'
  BY <1>18 DEF Begin, AskThread, IsNext, BridgeInv, Scrubbed, Starting
<1>19. ASSUME NEW r \in Requests, Started(r) PROVE BridgeInv'
  BY <1>19 DEF Started, BridgeInv, Scrubbed, Starting
<1>20. ASSUME NEW r \in Requests, StartFails(r) \/ NoSession(r) PROVE BridgeInv'
  BY <1>20 DEF StartFails, NoSession, BridgeInv, Scrubbed, Starting
<1>21. ASSUME NEW r \in Requests, StartRejected(r) PROVE BridgeInv'
  BY <1>21 DEF StartRejected, Delete, BridgeInv, Scrubbed, Starting
<1>22. ASSUME NEW r \in Requests, Linked(r) PROVE BridgeInv'
  BY <1>22 DEF Linked, BridgeInv, Scrubbed, Starting
<1>23. ASSUME NEW r \in Requests, UseEnds(r) PROVE BridgeInv'
  BY <1>23 DEF UseEnds, Wind, BridgeInv, Scrubbed, Starting
<1>24. ASSUME NEW r \in Requests, Retain(r) PROVE BridgeInv'
  BY <1>24 DEF Retain, BridgeInv, Scrubbed, Starting
<1>25. ASSUME NEW r \in Requests, Stopped(r) PROVE BridgeInv'
  BY <1>25 DEF Stopped, Delete, BridgeInv, Scrubbed, Starting
<1>26. ASSUME NEW r \in Requests, Disposed(r) PROVE BridgeInv'
  BY <1>26 DEF Disposed, BridgeInv, Scrubbed, Starting
<1>27. ASSUME NEW r \in Requests, GiveUp(r) PROVE BridgeInv'
  BY <1>27 DEF GiveUp, Delete, TrackCleanup, BridgeInv, Scrubbed, Starting
<1>28. ASSUME NEW r \in Requests, Dropped(r) PROVE BridgeInv'
  BY <1>28 DEF Dropped, BridgeInv, Scrubbed, Starting
<1>29. ASSUME NEW r \in Requests, Publish(r) PROVE BridgeInv'
  BY <1>29 DEF Publish, BridgeInv, Scrubbed, Starting
<1>30. ASSUME NEW r \in Requests, Speak(r) PROVE BridgeInv'
  BY <1>30 DEF Speak, CloseHeld, TrackCleanup, BridgeInv, Scrubbed, Starting
<1>31. ASSUME NEW r \in Requests, Spoken(r) PROVE BridgeInv'
  BY <1>31 DEF Spoken, CloseHeld, TrackCleanup, BridgeInv, Scrubbed, Starting
<1>32. ASSUME NEW r \in Requests, HeldClosed(r) PROVE BridgeInv'
  BY <1>32 DEF HeldClosed, BridgeInv, Scrubbed, Starting
<1>33. ASSUME NEW r \in Talkers, StartTalk(r) PROVE BridgeInv'
  BY <1>33 DEF StartTalk, BridgeInv, Requests
<1>34. ASSUME NEW r \in Talkers, ExecStarted(r) PROVE BridgeInv'
  BY <1>34 DEF ExecStarted, IsNext, BridgeInv, Scrubbed, Starting
<1>35. ASSUME NEW r \in Talkers, FrontStarted(r) PROVE BridgeInv'
  BY <1>35 DEF FrontStarted, EndStartup, TakeOver, Owned, BridgeInv, Scrubbed, Starting
<1>36. ASSUME NEW r \in Talkers, TalkLinked(r) PROVE BridgeInv'
  BY <1>36 DEF TalkLinked, BridgeInv, Scrubbed, Starting
<1>37. ASSUME NEW r \in Talkers, Settled(r) PROVE BridgeInv'
  BY <1>37 DEF Settled, BridgeInv, Scrubbed, Starting
<1>38. ASSUME NEW r \in Talkers, StartupFails(r) PROVE BridgeInv'
  BY <1>38, StartupFailsEffect, EndStartupEffect, NoThread, RequestsAssumption
     DEF Owned, BridgeInv, Scrubbed, Starting, TypeOK, LaneTypeOK, Slot, Requests, Starters,
         PhaseInv, TalkInv, RestInv, OwnerPhases
<1>39. ASSUME NEW r \in Talkers, WindingEnds(r) PROVE BridgeInv'
  BY <1>39 DEF WindingEnds, BridgeInv, Scrubbed, Starting
<1>40. ASSUME NEW r \in Talkers, Interrupt(r) PROVE BridgeInv'
  BY <1>40 DEF Interrupt, LeaveTalk, Starting, BridgeInv, Scrubbed, TypeOK
<1>41. ASSUME NEW r \in Talkers, HaltStartup(r) PROVE BridgeInv'
  BY <1>41, EndStartupEffect, NoThread, RequestsAssumption
     DEF HaltStartup, Owned, BridgeInv, Scrubbed, Starting, TypeOK, LaneTypeOK, Slot, Requests,
         Starters, PhaseInv, TalkInv, RestInv, OwnerPhases
<1>42. ASSUME NEW r \in Talkers, Halted(r) PROVE BridgeInv'
  BY <1>42 DEF Halted, BridgeInv, Requests
<1>43. ASSUME NEW r \in Talkers, StartupEnds(r) PROVE BridgeInv'
  BY <1>43 DEF StartupEnds, BridgeInv, Requests
<1>44. ASSUME NEW r \in Talkers, TalkEnds(r) PROVE BridgeInv'
  BY <1>44 DEF TalkEnds, BridgeInv, Requests
<1>45. ASSUME NEW r \in Talkers, Left(r) PROVE BridgeInv'
  BY <1>45 DEF Left, BridgeInv, Scrubbed, Starting
<1>46. ASSUME NEW r \in Talkers, NEW who \in Starters, Scrub(r, who) PROVE BridgeInv'
  BY <1>46 DEF Scrub, Delete, BridgeInv, Scrubbed, Starting
<1>47. ASSUME NEW t \in Threads, CloseRetained(t), UNCHANGED requestVars PROVE BridgeInv'
  BY <1>47 DEF CloseRetained, Delete, BridgeInv, Scrubbed, Starting
<1>48. ASSUME NEW t \in Threads, DogBites(t), UNCHANGED requestVars PROVE BridgeInv'
  BY <1>48, NoThread DEF DogBites, BridgeInv, Scrubbed, Starting
<1>49. ASSUME ReleaseOffer, UNCHANGED requestVars PROVE BridgeInv'
  BY <1>49 DEF ReleaseOffer, TrackCleanup, CancelDog, BridgeInv, Scrubbed, Starting
<1>50. ASSUME CloseBridge PROVE BridgeInv'
  BY <1>50 DEF CloseBridge, TrackCleanup, CancelDog, BridgeInv, Scrubbed, Starting
<1>51. ASSUME CloseOn PROVE BridgeInv'
  BY <1>51 DEF CloseOn, Starting, Scrubbed, BridgeInv
<1>52. CASE UNCHANGED vars
  BY <1>52 DEF vars, BridgeInv, Scrubbed, Starting
<1> QED
  BY <1>1, <1>2, <1>3, <1>4, <1>5, <1>6, <1>7, <1>8, <1>9, <1>10, <1>11, <1>12, <1>13, <1>14,
     <1>15, <1>16, <1>17, <1>18, <1>19, <1>20, <1>21, <1>22, <1>23, <1>24, <1>25, <1>26, <1>27,
     <1>28, <1>29, <1>30, <1>31, <1>32, <1>33, <1>34, <1>35, <1>36, <1>37, <1>38, <1>39, <1>40,
     <1>41, <1>42, <1>43, <1>44, <1>45, <1>46, <1>47, <1>48, <1>49, <1>50, <1>51, <1>52
     DEF Next, Lease, Retained, Transcribe, Synthesize, Talk

(* What an owner has is live until the owner lets it go.                   *)
LEMMA LiveStep ==
    TypeOK /\ PhaseInv /\ TalkInv /\ CleanInv /\ StillInv /\ RestInv /\ AskInv /\ KeptInv /\
       ApartInv /\ UpInv /\ GoneInv /\ LinkInv /\ LiveInv /\ [Next]_vars => LiveInv'
<1> SUFFICES ASSUME TypeOK, PhaseInv, TalkInv, CleanInv, StillInv, RestInv, AskInv, KeptInv,
                    ApartInv, UpInv, GoneInv, LinkInv, LiveInv, [Next]_vars
             PROVE  LiveInv'
  OBVIOUS
<1> USE DEF GoTo, laneVars, leaseVars, offerVars, noticeVars, resourceVars, requestVars,
            ownVars, attemptVars, talkVars
<1>1. ASSUME NEW r \in Talkers, Settled(r) \/ WindingEnds(r)
      PROVE  LiveInv'
  <2>1. UNCHANGED <<offer, cleaning, exec, front, held, pc, scrub, thread, link, again>>
    BY <1>1 DEF Settled, WindingEnds
  <2>2. QED
    BY <2>1 DEF LiveInv, Up
<1>2. ASSUME NEW t \in Threads, (Expire(t) \/ DogFinds(t) \/ DogStops(t) \/ DogStopsLate(t) \/
                Stir(t)) /\ UNCHANGED requestVars
      PROVE  LiveInv'
  <2>1. UNCHANGED <<offer, cleaning, exec, front, held, pc, scrub, thread, link, again>>
    BY <1>2 DEF Expire, DogFinds, DogStops, DogStopsLate, Stir
  <2>2. QED
    BY <2>1 DEF LiveInv, Up
<1>3. ASSUME CloseOn
      PROVE  LiveInv'
  <2>1. UNCHANGED <<offer, cleaning, exec, front, held, pc, scrub, thread, link, again>>
    BY <1>3 DEF CloseOn
  <2>2. QED
    BY <2>1 DEF LiveInv, Up
<1>4. ASSUME NEW r \in Requests, LaneBusy(r), UNCHANGED requestVars PROVE LiveInv'
  BY <1>4 DEF LaneBusy, LiveInv, Up
<1>5. ASSUME NEW r \in Requests, LaneQueue(r), UNCHANGED requestVars PROVE LiveInv'
  BY <1>5 DEF LaneQueue, LiveInv, Up
<1>6. ASSUME NEW r \in Requests, LaneRetry(r), UNCHANGED requestVars PROVE LiveInv'
  BY <1>6 DEF LaneRetry, LiveInv, Up
<1>7. ASSUME NEW r \in Requests, LaneTimesOut(r), UNCHANGED requestVars PROVE LiveInv'
  BY <1>7 DEF LaneTimesOut, LiveInv, Up
<1>8. ASSUME NEW r \in Requests, NEW match \in BOOLEAN, Claim(r, match), UNCHANGED requestVars
      PROVE  LiveInv'
  BY <1>8, NoThread, RequestsAssumption
     DEF Claim, CancelDog, TrackCleanup, LiveInv, Up, TypeOK, LaneTypeOK, Slot, Requests,
         Starters, PhaseInv, OwnerPhases, TalkInv
<1>9. ASSUME NEW r \in Requests, Recheck(r), UNCHANGED requestVars PROVE LiveInv'
  <2>1. /\ pc[r] = "calming" /\ pc'[r] \in {"sanitizing", "draining"}
        /\ \A q \in Requests \ {r} : pc'[q] = pc[q]
        /\ UNCHANGED <<offer, front, exec, scrub, thread, link, again>>
    BY <1>9 DEF Recheck, TypeOK
  <2>2. \A q \in Requests : held'[q] = held[q] \/ held'[q] = None
    BY <1>9, RecheckEffect
  <2>3. \A t \in cleaning' : thread[t] = "live"
    <3>1. held[r] # None => thread[held[r]] = "live"
      BY <2>1 DEF LiveInv
    <3>2. QED
      BY <1>9, <3>1, NoThread, RecheckEffect DEF LiveInv
  <2>4. QED
    BY <2>1, <2>2, <2>3 DEF LiveInv, Up
<1>10. ASSUME NEW r \in Requests, Sanitize(r), UNCHANGED requestVars PROVE LiveInv'
  BY <1>10, NoThread, RequestsAssumption
     DEF Sanitize, TrackCleanup, LiveInv, Up, TypeOK, LaneTypeOK, Slot, Requests, Starters,
         PhaseInv, OwnerPhases, TalkInv
<1>11. ASSUME NEW r \in Requests, Drained(r), UNCHANGED requestVars PROVE LiveInv'
  BY <1>11 DEF Drained, LiveInv, Up
<1>12. ASSUME NEW r \in Requests, HandBack(r), UNCHANGED requestVars PROVE LiveInv'
  BY <1>12 DEF HandBack, TrackCleanup, LiveInv, Up
<1>13. ASSUME NEW r \in Requests, Release(r), UNCHANGED requestVars PROVE LiveInv'
  BY <1>13 DEF Release, LiveInv, Up, TypeOK, LaneTypeOK, Slot
<1>14. ASSUME NEW r \in Requests, Call(r) PROVE LiveInv'
  BY <1>14 DEF Call, LiveInv, Up
<1>15. ASSUME NEW r \in Requests, Look(r) PROVE LiveInv'
  BY <1>15 DEF Look, LiveInv, Up
<1>16. ASSUME NEW r \in Requests, BodyRead(r) PROVE LiveInv'
  BY <1>16, NoThread DEF BodyRead, LiveInv, Up, TypeOK, Requests
<1>17. ASSUME NEW r \in Requests, StartRead(r) PROVE LiveInv'
  BY <1>17, NoThread DEF StartRead, LiveInv, Up, TypeOK, Requests
<1>18. ASSUME NEW r \in Requests, RefuseAudio(r) PROVE LiveInv'
  BY <1>18 DEF RefuseAudio, LiveInv, Up
<1>19. ASSUME NEW r \in Requests, RefuseText(r) PROVE LiveInv'
  BY <1>19 DEF RefuseText, LiveInv, Up
<1>20. ASSUME NEW r \in Requests, Begin(r) PROVE LiveInv'
  BY <1>20 DEF Begin, AskThread, IsNext, LiveInv, Up
<1>21. ASSUME NEW r \in Requests, Started(r) PROVE LiveInv'
  BY <1>21 DEF Started, LiveInv, Up, TypeOK, LaneTypeOK, Slot
<1>22. ASSUME NEW r \in Requests, StartFails(r) \/ NoSession(r) PROVE LiveInv'
  <2>1. ask[r] \in Threads /\ thread[ask[r]] = "asked"
    BY <1>22, Shapes DEF StartFails, NoSession, PhaseInv, AskInv
  <2>2. \A x \in Threads : thread[x] = "live" => thread'[x] = "live"
    BY <2>1, <1>22, Shapes DEF StartFails, NoSession
  <2>3. /\ pc' = [pc EXCEPT ![r] = "returning"] /\ pc[r] = "starting"
        /\ UNCHANGED <<offer, cleaning, exec, front, held, scrub, link, again>>
    BY <1>22 DEF StartFails, NoSession
  <2>4. QED
    BY <2>2, <2>3, NoThread, Shapes DEF LiveInv, Up
<1>23. ASSUME NEW r \in Requests, StartRejected(r) PROVE LiveInv'
  BY <1>23, NoThread, RequestsAssumption
     DEF StartRejected, Delete, LiveInv, Up, TypeOK, LaneTypeOK, Slot, Requests, Starters,
         PhaseInv, TalkInv, CleanInv, StillInv, RestInv, AskInv, KeptInv, ApartInv, OwnerPhases,
         Still, Kept, Closed
<1>24. ASSUME NEW r \in Requests, Linked(r) PROVE LiveInv'
  BY <1>24, NoThread DEF Linked, LiveInv, Up, TypeOK, Requests
<1>25. ASSUME NEW r \in Requests, UseEnds(r) PROVE LiveInv'
  <2>1. /\ pc[r] \in {"linking", "using"} /\ pc' = [pc EXCEPT ![r] = "stopping"]
        /\ link' = [link EXCEPT ![front[r]] = "closing"]
        /\ UNCHANGED <<offer, cleaning, exec, front, held, scrub, thread, again>>
    BY <1>25 DEF UseEnds, Wind
  <2>2. ASSUME NEW t \in Threads, Up(t)' PROVE thread[t] = "live"
    <3>1. CASE t = front[r]
      BY <2>1, <3>1, NoThread DEF LiveInv
    <3>2. CASE t # front[r]
      BY <2>1, <2>2, <3>2 DEF Up, LiveInv, TypeOK, LaneTypeOK
    <3>3. QED
      BY <3>1, <3>2
  <2>3. ASSUME NEW q \in Requests PROVE pc'[q] = pc[q] \/ pc[q] \in {"linking", "using"}
    BY <2>1 DEF TypeOK
  <2>4. /\ \A t \in Threads : Up(t)' => thread'[t] = "live"
        /\ \A q \in Requests : front'[q] # None /\ pc'[q] \notin {"deleting", "dropping"} =>
              thread'[front'[q]] = "live"
        /\ \A q \in Requests : held'[q] # None /\ pc'[q] \notin {"closing", "handingBack"} =>
              thread'[held'[q]] = "live"
    BY <2>1, <2>2, <2>3 DEF LiveInv
  <2>5. QED
    BY <2>1, <2>4 DEF LiveInv
<1>26. ASSUME NEW r \in Requests, Retain(r) PROVE LiveInv'
  BY <1>26 DEF Retain, LiveInv, Up
<1>27. ASSUME NEW r \in Requests, Stopped(r) PROVE LiveInv'
  BY <1>27, NoThread, RequestsAssumption
     DEF Stopped, Delete, LiveInv, Up, TypeOK, LaneTypeOK, Slot, Requests, Starters, PhaseInv,
         TalkInv, CleanInv, StillInv, RestInv, AskInv, KeptInv, ApartInv, OwnerPhases, Still,
         Kept, Closed
<1>28. ASSUME NEW r \in Requests, Disposed(r) PROVE LiveInv'
  BY <1>28 DEF Disposed, LiveInv, Up, TypeOK
<1>29. ASSUME NEW r \in Requests, GiveUp(r) PROVE LiveInv'
  <2>1. CASE pc[r] \in {"granted", "linking", "using", "deleting"}
    BY <2>1, <1>29, NoThread, Shapes DEF GiveUp, LiveInv, Up, PhaseInv, GoneInv
  <2>2. CASE pc[r] = "starting"
    <3>1. ask[r] \in Threads /\ thread[ask[r]] = "asked"
      BY <2>2, <1>29, Shapes DEF PhaseInv, AskInv
    <3>2. \A x \in Threads : thread[x] = "live" => thread'[x] = "live"
      BY <2>2, <3>1, <1>29, Shapes DEF GiveUp
    <3>3. /\ pc' = [pc EXCEPT ![r] = "returning"]
          /\ UNCHANGED <<offer, cleaning, exec, front, held, scrub, link, again>>
      BY <2>2, <1>29 DEF GiveUp
    <3>4. QED
      BY <2>2, <3>2, <3>3, NoThread, Shapes DEF LiveInv, Up
  <2>3. CASE pc[r] = "stopping"
    <3>1. front[r] \in Threads /\ thread[front[r]] = "live" /\ cleaning = {}
      BY <2>3, <1>29, Shapes DEF PhaseInv, LiveInv, CleanInv
    <3>2. /\ thread' = [t \in Threads |-> IF t = front[r] THEN "deleted" ELSE thread[t]]
          /\ again' = {} /\ link' = [link EXCEPT ![front[r]] = "cut"]
          /\ pc' = [pc EXCEPT ![r] = "deleting"] /\ UNCHANGED <<front, cleaning>>
      BY <2>3, <3>1, <1>29 DEF GiveUp, Delete, LiveInv
    <3>3. r \in Transcribers /\ UNCHANGED <<offer, held, exec, scrub>>
      BY <1>29 DEF GiveUp
    <3>4. offer = None /\ owner = r /\ \A q \in Requests : held[q] = None
      BY <2>3, <3>3, <1>29, RequestsAssumption DEF PhaseInv, CleanInv, OwnerPhases
    <3>5. \A q \in Requests \ {r} : front[q] = None
      BY <3>4, <1>29 DEF PhaseInv, RestInv, OwnerPhases, Requests
    <3>6. \A q \in Requests : exec[q] # None => exec[q] # front[r]
      BY <1>29, Shapes DEF ApartInv
    <3>7. \A q \in Talkers, who \in Starters : front[r] \notin scrub[q][who]
      BY <1>29 DEF ApartInv
    <3>8. QED
      BY <2>3, <3>1, <3>2, <3>3, <3>4, <3>5, <3>6, <3>7, NoThread, Shapes DEF LiveInv, Up
  <2>4. CASE pc[r] = "kept"
    BY <2>4, <1>29, NoThread, Shapes
       DEF GiveUp, TrackCleanup, LiveInv, Up, PhaseInv, StillInv, Still, Closed
  <2>5. QED
    BY <1>29, <2>1, <2>2, <2>3, <2>4 DEF GiveUp
<1>30. ASSUME NEW r \in Requests, Dropped(r) PROVE LiveInv'
  BY <1>30 DEF Dropped, LiveInv, Up, TypeOK
<1>31. ASSUME NEW r \in Requests, Publish(r) PROVE LiveInv'
  BY <1>31 DEF Publish, LiveInv, Up
<1>32. ASSUME NEW r \in Requests, Speak(r) PROVE LiveInv'
  BY <1>32, NoThread DEF Speak, CloseHeld, TrackCleanup, LiveInv, Up, TypeOK, Requests
<1>33. ASSUME NEW r \in Requests, Spoken(r) PROVE LiveInv'
  BY <1>33, NoThread, RequestsAssumption
     DEF Spoken, CloseHeld, TrackCleanup, LiveInv, Up, TypeOK, Requests, Starters, PhaseInv,
         OwnerPhases
<1>34. ASSUME NEW r \in Requests, HeldClosed(r) PROVE LiveInv'
  BY <1>34 DEF HeldClosed, LiveInv, Up, TypeOK, LaneTypeOK, Slot
<1>35. ASSUME NEW r \in Talkers, StartTalk(r) PROVE LiveInv'
  BY <1>35 DEF StartTalk, AskThread, IsNext, LiveInv, Up
<1>36. ASSUME NEW r \in Talkers, ExecStarted(r) PROVE LiveInv'
  BY <1>36 DEF ExecStarted, IsNext, LiveInv, Up, TypeOK, LaneTypeOK, Slot
<1>37. ASSUME NEW r \in Talkers, FrontStarted(r) PROVE LiveInv'
  <2>1. /\ ask[r] \in Threads /\ front[r] = None /\ thread' = [thread EXCEPT ![ask[r]] = "live"]
        /\ UNCHANGED <<pc, offer, cleaning, held, again>>
    BY <1>37 DEF FrontStarted, TalkInv, TypeOK, Slot, Requests
  <2>2. /\ thread'[ask[r]] = "live"
        /\ \A t \in Threads : thread[t] = "live" => thread'[t] = "live"
    BY <2>1 DEF TypeOK, LaneTypeOK
  <2>3. CASE r \in abandoned
    <3>1. TakeOver(r, "startup", Owned(r) \cup {ask[r]}) /\ UNCHANGED link
      BY <1>37, <2>3 DEF FrontStarted, EndStartup
    <3>2. Owned(r) \cup {ask[r]} \in SUBSET Threads
      BY <2>1, OwnedType
    <3>3. QED
      BY <2>1, <2>2, <3>1, <3>2, TakeOverLive DEF Starters
  <2>4. CASE r \notin abandoned
    <3>1. /\ front' = [front EXCEPT ![r] = ask[r]] /\ UNCHANGED <<exec, scrub>>
          /\ link' = [link EXCEPT ![ask[r]] = "opening"]
      BY <1>37, <2>4 DEF FrontStarted
    <3>2. \A q \in Requests : front'[q] = IF q = r THEN ask[r] ELSE front[q]
      BY <3>1 DEF TypeOK, Requests
    <3>3. \A t \in Threads : Up(t)' => Up(t) \/ t = ask[r]
      BY <3>1 DEF Up, TypeOK, LaneTypeOK
    <3>4. QED
      BY <2>1, <2>2, <3>1, <3>2, <3>3 DEF LiveInv, TypeOK, LaneTypeOK, Slot
  <2>5. QED
    BY <2>3, <2>4
<1>38. ASSUME NEW r \in Talkers, TalkLinked(r) PROVE LiveInv'
  BY <1>38, NoThread, RequestsAssumption
     DEF TalkLinked, LiveInv, Up, TypeOK, Requests, Starters, PhaseInv, OwnerPhases
<1>39. ASSUME NEW r \in Talkers, StartupFails(r) PROVE LiveInv'
  <2>1. /\ EndStartup(r, "failed", Owned(r))
        /\ UNCHANGED <<pc, offer, cleaning, held, link, again>>
    BY <1>39, StartupFailsEffect
  <2>2. \A t \in Threads : thread[t] = "live" => thread'[t] = "live"
    BY <1>39, StartupFailsEffect, NoThread DEF AskInv, Requests
  <2>3. QED
    BY <2>1, <2>2, EndStartupLive
<1>40. ASSUME NEW r \in Talkers, Interrupt(r) PROVE LiveInv'
  <2>1. CASE LeaveTalk(r, Owned(r))
    BY <1>40, <2>1, LeaveTalkLive DEF Interrupt
  <2>2. CASE ~LeaveTalk(r, Owned(r))
    <3>1. /\ UNCHANGED <<held, offer, cleaning, exec, front, scrub, thread, link, again>>
          /\ \A q \in Requests \ {r} : pc'[q] = pc[q]
          /\ pc[r] = "startup"
      BY <1>40, <2>2 DEF Interrupt, TypeOK
    <3>2. held[r] = None
      BY <3>1, RequestsAssumption DEF PhaseInv, Requests
    <3>3. QED
      BY <3>1, <3>2 DEF LiveInv, Up
  <2>3. QED
    BY <2>1, <2>2
<1>41. ASSUME NEW r \in Talkers, HaltStartup(r) PROVE LiveInv'
  <2>1. /\ EndStartup(r, "failed", Owned(r))
        /\ UNCHANGED <<pc, offer, cleaning, held, link, again, thread>>
    BY <1>41 DEF HaltStartup
  <2>2. QED
    BY <2>1, EndStartupLive
<1>42. ASSUME NEW r \in Talkers, Halted(r) PROVE LiveInv'
  BY <1>42, LeaveTalkLive DEF Halted
<1>43. ASSUME NEW r \in Talkers, StartupEnds(r) PROVE LiveInv'
  <2>1. CASE LeaveTalk(r, Owned(r))
    BY <1>43, <2>1, LeaveTalkLive DEF StartupEnds
  <2>2. CASE ~LeaveTalk(r, Owned(r))
    <3>1. /\ UNCHANGED <<held, offer, cleaning, exec, front, scrub, thread, link, again>>
          /\ \A q \in Requests \ {r} : pc'[q] = pc[q]
          /\ pc[r] = "startup"
      BY <1>43, <2>2 DEF StartupEnds, TypeOK
    <3>2. held[r] = None
      BY <3>1, RequestsAssumption DEF PhaseInv, Requests
    <3>3. QED
      BY <3>1, <3>2 DEF LiveInv, Up
  <2>3. QED
    BY <2>1, <2>2
<1>44. ASSUME NEW r \in Talkers, TalkEnds(r) PROVE LiveInv'
  BY <1>44, LeaveTalkLive DEF TalkEnds
<1>45. ASSUME NEW r \in Talkers, Left(r) PROVE LiveInv'
  BY <1>45 DEF Left, LiveInv, Up
<1>46. ASSUME NEW r \in Talkers, NEW who \in Starters, Scrub(r, who) PROVE LiveInv'
  <2>1. CASE {t \in scrub[r][who] : link[t] \in {"opening", "open"}} = {}
    <3>1. /\ \A t \in Threads :
                thread'[t] = IF t \in scrub[r][who] THEN "deleted" ELSE thread[t]
          /\ \A q \in Talkers, w \in Starters :
                scrub'[q][w] = IF q = r /\ w = who THEN {} ELSE scrub[q][w]
          /\ UNCHANGED <<pc, offer, cleaning, held, front, exec, ask, link>>
      BY <1>46, <2>1, ScrubEffect
    <3>2. again' = again
      BY <1>46, <2>1 DEF Scrub, Delete, LiveInv
    <3>3. ASSUME NEW t \in Threads, thread[t] = "live", t \notin scrub[r][who]
          PROVE  thread'[t] = "live"
      BY <3>1, <3>3
    <3>4. ASSUME NEW t \in scrub[r][who] PROVE ~Up(t) /\ t # None
      <4>1. t \in Threads /\ link[t] \notin {"opening", "open"}
        BY <2>1 DEF TypeOK
      <4>2. link[t] # "closing"
        BY <4>1 DEF StillInv, UpInv, Up, ApartInv
      <4>3. QED
        BY <4>1, <4>2, NoThread DEF Up
    <3>5. /\ offer # None => thread'[offer] = "live"
          /\ \A t \in cleaning : thread'[t] = "live"
      BY <3>3 DEF LiveInv, ApartInv, TypeOK, LaneTypeOK, Slot
    <3>6. ASSUME NEW q \in Requests
          PROVE  /\ exec[q] # None => thread'[exec[q]] = "live"
                 /\ front[q] # None /\ pc[q] \notin {"deleting", "dropping"} =>
                       thread'[front[q]] = "live"
                 /\ held[q] # None /\ pc[q] \notin {"closing", "handingBack"} =>
                       thread'[held[q]] = "live"
      BY <3>3 DEF LiveInv, ApartInv, TypeOK, LaneTypeOK, Slot
    <3>7. \A q \in Talkers, w \in Starters : \A t \in scrub'[q][w] : thread'[t] = "live"
      BY SMTT(30), <3>1, <3>3 DEF LiveInv, ApartInv, TypeOK
    <3>8. \A t \in Threads : Up(t) => thread'[t] = "live"
      BY <3>3, <3>4 DEF LiveInv
    <3>9. QED
      BY <3>1, <3>2, <3>5, <3>6, <3>7, <3>8 DEF LiveInv, Up
  <2>2. CASE {t \in scrub[r][who] : link[t] \in {"opening", "open"}} # {}
    <3>1. /\ \A t \in Threads : Up(t)' => Up(t)
          /\ UNCHANGED <<pc, offer, cleaning, held, front, exec, scrub, thread, again>>
      BY <1>46, <2>2 DEF Scrub, Up, TypeOK, LaneTypeOK
    <3>2. QED
      BY <3>1 DEF LiveInv
  <2>3. QED
    BY <2>1, <2>2
<1>47. ASSUME NEW t \in Threads, CloseRetained(t), UNCHANGED requestVars PROVE LiveInv'
  BY <1>47, NoThread, RequestsAssumption
     DEF CloseRetained, Delete, LiveInv, Up, TypeOK, LaneTypeOK, Slot, Requests, Starters,
         PhaseInv, TalkInv, CleanInv, StillInv, RestInv, AskInv, KeptInv, ApartInv, OwnerPhases,
         Still, Kept, Closed
<1>48. ASSUME NEW t \in Threads, DogBites(t), UNCHANGED requestVars PROVE LiveInv'
  BY <1>48, NoThread DEF DogBites, TrackCleanup, LiveInv, Up, TypeOK, Requests
<1>49. ASSUME ReleaseOffer, UNCHANGED requestVars PROVE LiveInv'
  BY <1>49 DEF ReleaseOffer, TrackCleanup, CancelDog, LiveInv, Up
<1>50. ASSUME CloseBridge PROVE LiveInv'
  BY <1>50 DEF CloseBridge, TrackCleanup, CancelDog, LiveInv, Up
<1>51. CASE UNCHANGED vars
  BY <1>51 DEF vars, LiveInv, Up
<1> QED
  BY <1>1, <1>2, <1>3, <1>4, <1>5, <1>6, <1>7, <1>8, <1>9, <1>10, <1>11, <1>12, <1>13, <1>14,
     <1>15, <1>16, <1>17, <1>18, <1>19, <1>20, <1>21, <1>22, <1>23, <1>24, <1>25, <1>26, <1>27,
     <1>28, <1>29, <1>30, <1>31, <1>32, <1>33, <1>34, <1>35, <1>36, <1>37, <1>38, <1>39, <1>40,
     <1>41, <1>42, <1>43, <1>44, <1>45, <1>46, <1>47, <1>48, <1>49, <1>50, <1>51
     DEF Next, Lease, Retained, Transcribe, Synthesize, Talk

(* A retained session has been opened, and is closed before its thread is  *)
(* deleted.                                                                *)
LEMMA LinkStep ==
    TypeOK /\ PhaseInv /\ TalkInv /\ CleanInv /\ RestInv /\ QuietInv /\ AskInv /\ LiveInv /\
       ApartInv /\ LinkInv /\ [Next]_vars => LinkInv'
<1> SUFFICES ASSUME TypeOK, PhaseInv, TalkInv, CleanInv, RestInv, QuietInv, AskInv, LiveInv,
                    ApartInv, LinkInv, [Next]_vars
             PROVE  LinkInv'
  OBVIOUS
<1> USE DEF GoTo, laneVars, leaseVars, offerVars, noticeVars, resourceVars, requestVars,
            ownVars, attemptVars, talkVars
<1>1. ASSUME NEW r \in Talkers, Settled(r) \/ WindingEnds(r)
      PROVE  LinkInv'
  <2>1. UNCHANGED <<thread, dog, link, pc, front>>
    BY <1>1 DEF Settled, WindingEnds
  <2>2. QED
    BY <2>1 DEF LinkInv
<1>2. ASSUME NEW t \in Threads, (Expire(t) \/ Stir(t)) /\ UNCHANGED requestVars
      PROVE  LinkInv'
  <2>1. UNCHANGED <<thread, dog, link, pc, front>>
    BY <1>2 DEF Expire, Stir
  <2>2. QED
    BY <2>1 DEF LinkInv
<1>3. ASSUME CloseOn
      PROVE  LinkInv'
  <2>1. UNCHANGED <<thread, dog, link, pc, front>>
    BY <1>3 DEF CloseOn
  <2>2. QED
    BY <2>1 DEF LinkInv
<1>4. ASSUME NEW r \in Requests, LaneBusy(r), UNCHANGED requestVars PROVE LinkInv'
  BY <1>4 DEF LaneBusy, LinkInv
<1>5. ASSUME NEW r \in Requests, LaneQueue(r), UNCHANGED requestVars PROVE LinkInv'
  BY <1>5 DEF LaneQueue, LinkInv
<1>6. ASSUME NEW r \in Requests, LaneRetry(r), UNCHANGED requestVars PROVE LinkInv'
  BY <1>6 DEF LaneRetry, LinkInv
<1>7. ASSUME NEW r \in Requests, LaneTimesOut(r), UNCHANGED requestVars PROVE LinkInv'
  BY <1>7 DEF LaneTimesOut, LinkInv
<1>8. ASSUME NEW r \in Requests, NEW match \in BOOLEAN, Claim(r, match), UNCHANGED requestVars
      PROVE  LinkInv'
  BY <1>8 DEF Claim, CancelDog, LinkInv, TypeOK, LaneTypeOK
<1>9. ASSUME NEW r \in Requests, Recheck(r), UNCHANGED requestVars PROVE LinkInv'
  BY <1>9 DEF Recheck, LinkInv, TypeOK
<1>10. ASSUME NEW r \in Requests, Sanitize(r), UNCHANGED requestVars PROVE LinkInv'
  BY <1>10 DEF Sanitize, LinkInv, TypeOK
<1>11. ASSUME NEW r \in Requests, Drained(r), UNCHANGED requestVars PROVE LinkInv'
  BY <1>11 DEF Drained, LinkInv
<1>12. ASSUME NEW r \in Requests, HandBack(r), UNCHANGED requestVars PROVE LinkInv'
  BY <1>12 DEF HandBack, TrackCleanup, LinkInv
<1>13. ASSUME NEW r \in Requests, Release(r), UNCHANGED requestVars PROVE LinkInv'
  BY <1>13 DEF Release, LinkInv
<1>14. ASSUME NEW r \in Requests, Call(r) PROVE LinkInv'
  BY <1>14 DEF Call, LinkInv
<1>15. ASSUME NEW r \in Requests, Look(r) PROVE LinkInv'
  BY <1>15 DEF Look, LinkInv
<1>16. ASSUME NEW r \in Requests, BodyRead(r) PROVE LinkInv'
  BY <1>16 DEF BodyRead, LinkInv, TypeOK
<1>17. ASSUME NEW r \in Requests, StartRead(r) PROVE LinkInv'
  BY <1>17 DEF StartRead, LinkInv, TypeOK
<1>18. ASSUME NEW r \in Requests, RefuseAudio(r) PROVE LinkInv'
  BY <1>18 DEF RefuseAudio, LinkInv
<1>19. ASSUME NEW r \in Requests, RefuseText(r) PROVE LinkInv'
  BY <1>19 DEF RefuseText, LinkInv
<1>20. ASSUME NEW r \in Requests, Begin(r) PROVE LinkInv'
  BY <1>20 DEF Begin, AskThread, IsNext, LinkInv
<1>21. ASSUME NEW r \in Requests, Started(r) PROVE LinkInv'
  BY SMTT(30), <1>21, NoThread
     DEF Started, LinkInv, TypeOK, LaneTypeOK, Starters, QuietInv, AskInv, LiveInv
<1>22. ASSUME NEW r \in Requests, StartFails(r) \/ NoSession(r) PROVE LinkInv'
  <2>1. CASE StartFails(r)
    BY <2>1 DEF StartFails, LinkInv
  <2>2. CASE NoSession(r)
    BY <2>2 DEF NoSession, LinkInv
  <2>3. QED
    BY <1>22, <2>1, <2>2
<1>23. ASSUME NEW r \in Requests, StartRejected(r) PROVE LinkInv'
  BY <1>23 DEF StartRejected, Delete, LinkInv
<1>24. ASSUME NEW r \in Requests, Linked(r) PROVE LinkInv'
  BY <1>24 DEF Linked, LinkInv, TypeOK, LaneTypeOK, Slot, PhaseInv
<1>25. ASSUME NEW r \in Requests, UseEnds(r) PROVE LinkInv'
  BY <1>25, NoThread, Shapes DEF UseEnds, Wind, LinkInv, PhaseInv, QuietInv, OwnerPhases
<1>26. ASSUME NEW r \in Requests, Retain(r) PROVE LinkInv'
  BY <1>26 DEF Retain, LinkInv
<1>27. ASSUME NEW r \in Requests, Stopped(r) PROVE LinkInv'
  BY <1>27 DEF Stopped, Delete, LinkInv, PhaseInv, OwnerPhases
<1>28. ASSUME NEW r \in Requests, Disposed(r) PROVE LinkInv'
  BY <1>28 DEF Disposed, LinkInv
<1>29. ASSUME NEW r \in Requests, GiveUp(r) PROVE LinkInv'
  <2>1. CASE pc[r] \in {"linking", "using", "stopping"}
    <3>1. /\ link' = [link EXCEPT ![front[r]] = IF pc[r] = "stopping" THEN "cut" ELSE "closing"]
          /\ UNCHANGED <<dog, front>> /\ pc'[r] \notin {"using", "kept"}
          /\ \A q \in Requests \ {r} : pc'[q] = pc[q]
          /\ \A t \in Threads : thread'[t] \in {"none", "asked"} => thread'[t] = thread[t]
      BY <1>29, <2>1 DEF GiveUp, Delete, TypeOK
    <3>2. front[r] \in Threads /\ (pc[r] # "stopping" => dog[front[r]] = "none")
      BY <2>1 DEF PhaseInv, QuietInv, TypeOK, Slot
    <3>3. \A q \in Requests \ {r} : pc[q] \notin {"using", "kept"}
      BY <2>1 DEF PhaseInv, OwnerPhases
    <3>4. QED
      BY <3>1, <3>2, <3>3 DEF LinkInv, TypeOK, LaneTypeOK
  <2>2. CASE pc[r] \notin {"linking", "using", "stopping"}
    <3>1. /\ UNCHANGED <<dog, link>>
          /\ \A q \in Requests : pc'[q] \in {"using", "kept"} =>
                pc'[q] = pc[q] /\ front'[q] = front[q]
      BY <1>29, <2>2 DEF GiveUp, TypeOK
    <3>2. \A t \in Threads : thread'[t] \in {"none", "asked"} => thread'[t] = thread[t]
      BY <1>29, <2>2 DEF GiveUp, TypeOK, LaneTypeOK
    <3>3. QED
      BY <3>1, <3>2 DEF LinkInv
  <2>3. QED
    BY <2>1, <2>2
<1>30. ASSUME NEW r \in Requests, Dropped(r) PROVE LinkInv'
  BY <1>30 DEF Dropped, LinkInv
<1>31. ASSUME NEW r \in Requests, Publish(r) PROVE LinkInv'
  BY <1>31, NoThread DEF Publish, LinkInv, TypeOK, LaneTypeOK, Requests, LiveInv
<1>32. ASSUME NEW r \in Requests, Speak(r) PROVE LinkInv'
  BY <1>32 DEF Speak, CloseHeld, LinkInv, TypeOK
<1>33. ASSUME NEW r \in Requests, Spoken(r) PROVE LinkInv'
  BY <1>33 DEF Spoken, CloseHeld, TrackCleanup, LinkInv
<1>34. ASSUME NEW r \in Requests, HeldClosed(r) PROVE LinkInv'
  BY <1>34 DEF HeldClosed, LinkInv
<1>35. ASSUME NEW r \in Talkers, StartTalk(r) PROVE LinkInv'
  BY <1>35 DEF StartTalk, AskThread, IsNext, LinkInv
<1>36. ASSUME NEW r \in Talkers, ExecStarted(r) PROVE LinkInv'
  BY <1>36 DEF ExecStarted, IsNext, LinkInv, TypeOK, LaneTypeOK
<1>37. ASSUME NEW r \in Talkers, FrontStarted(r) PROVE LinkInv'
  <2>1. /\ ask[r] \in Threads /\ thread[ask[r]] = "asked"
        /\ thread' = [thread EXCEPT ![ask[r]] = "live"] /\ UNCHANGED <<pc, dog>>
    BY <1>37 DEF FrontStarted, TalkInv, AskInv, TypeOK, Slot, Requests
  <2>2. \A q \in Requests \ {r} : front'[q] = front[q]
    BY <1>37 DEF FrontStarted, EndStartup, TakeOver, TypeOK
  <2>3. pc[r] \notin {"using", "kept"}
    BY RequestsAssumption DEF PhaseInv, Requests
  <2>4. link' = link \/ link' = [link EXCEPT ![ask[r]] = "opening"]
    BY <1>37 DEF FrontStarted
  <2>5. ASSUME NEW q \in Requests, pc[q] \in {"using", "kept"}
        PROVE  front[q] # ask[r]
    BY <2>1, <2>5 DEF LiveInv, PhaseInv
  <2>6. /\ \A t \in Threads \ {ask[r]} : link'[t] = link[t] /\ thread'[t] = thread[t]
        /\ thread'[ask[r]] = "live" /\ dog[ask[r]] = "none"
    BY <2>1, <2>4 DEF LinkInv, TypeOK, LaneTypeOK
  <2>7. ASSUME NEW q \in Requests, pc[q] \in {"using", "kept"}
        PROVE  link'[front'[q]] = "open"
    <3>1. front'[q] = front[q] /\ front[q] \in Threads \ {ask[r]}
      BY <2>2, <2>3, <2>5, <2>7 DEF PhaseInv, TypeOK, Slot
    <3>2. QED
      BY <2>6, <2>7, <3>1 DEF LinkInv
  <2>8. QED
    BY <2>1, <2>6, <2>7 DEF LinkInv
<1>38. ASSUME NEW r \in Talkers, TalkLinked(r) PROVE LinkInv'
  BY <1>38 DEF TalkLinked, LinkInv
<1>39. ASSUME NEW r \in Talkers, StartupFails(r) PROVE LinkInv'
  <2>1. EndStartup(r, "failed", Owned(r)) /\ UNCHANGED <<pc, dog, link>>
    BY <1>39, StartupFailsEffect
  <2>2. \A q \in Requests \ {r} : front'[q] = front[q]
    BY <2>1, EndStartupEffect
  <2>3. \A t \in Threads : thread'[t] \in {"none", "asked"} => thread'[t] = thread[t]
    BY <1>39, StartupFailsEffect
  <2>4. QED
    BY <2>1, <2>2, <2>3, RequestsAssumption DEF LinkInv, PhaseInv, Requests
<1>40. ASSUME NEW r \in Talkers, Interrupt(r) PROVE LinkInv'
  BY <1>40 DEF Interrupt, LeaveTalk, TakeOver, LinkInv, TypeOK
<1>41. ASSUME NEW r \in Talkers, HaltStartup(r) PROVE LinkInv'
  BY <1>41, EndStartupEffect, NoThread, RequestsAssumption
     DEF HaltStartup, Owned, LinkInv, TypeOK, LaneTypeOK, Slot, Requests, Starters, PhaseInv,
         TalkInv, CleanInv, RestInv, QuietInv, AskInv, LiveInv, ApartInv, OwnerPhases, Up
<1>42. ASSUME NEW r \in Talkers, Halted(r) PROVE LinkInv'
  BY <1>42 DEF Halted, LeaveTalk, TakeOver, Owned, Starting, LinkInv
<1>43. ASSUME NEW r \in Talkers, StartupEnds(r) PROVE LinkInv'
  BY <1>43 DEF StartupEnds, LeaveTalk, TakeOver, LinkInv, TypeOK
<1>44. ASSUME NEW r \in Talkers, TalkEnds(r) PROVE LinkInv'
  BY <1>44 DEF TalkEnds, LeaveTalk, TakeOver, Owned, LinkInv
<1>45. ASSUME NEW r \in Talkers, Left(r) PROVE LinkInv'
  BY <1>45 DEF Left, LinkInv
<1>46. ASSUME NEW r \in Talkers, NEW who \in Starters, Scrub(r, who) PROVE LinkInv'
  BY <1>46 DEF Scrub, Delete, LinkInv, TypeOK, LaneTypeOK, Slot, PhaseInv, ApartInv
<1>47. ASSUME NEW t \in Threads, CloseRetained(t), UNCHANGED requestVars PROVE LinkInv'
  BY <1>47 DEF CloseRetained, Delete, LinkInv, TypeOK, LaneTypeOK, Starters, CleanInv, Up
<1>48. ASSUME NEW t \in Threads, DogFinds(t), UNCHANGED requestVars PROVE LinkInv'
  BY <1>48 DEF DogFinds, LinkInv
<1>49. ASSUME NEW t \in Threads, DogBites(t), UNCHANGED requestVars PROVE LinkInv'
  BY <1>49 DEF DogBites, TrackCleanup, LinkInv
<1>50. ASSUME NEW t \in Threads, DogStops(t), UNCHANGED requestVars PROVE LinkInv'
  BY <1>50 DEF DogStops, LinkInv
<1>51. ASSUME NEW t \in Threads, DogStopsLate(t), UNCHANGED requestVars PROVE LinkInv'
  BY <1>51 DEF DogStopsLate, LinkInv
<1>52. ASSUME ReleaseOffer, UNCHANGED requestVars PROVE LinkInv'
  BY <1>52 DEF ReleaseOffer, TrackCleanup, CancelDog, LinkInv
<1>53. ASSUME CloseBridge PROVE LinkInv'
  BY <1>53 DEF CloseBridge, CancelDog, LinkInv, TypeOK, LaneTypeOK
<1>54. CASE UNCHANGED vars
  BY <1>54 DEF vars, LinkInv
<1> QED
  BY <1>1, <1>2, <1>3, <1>4, <1>5, <1>6, <1>7, <1>8, <1>9, <1>10, <1>11, <1>12, <1>13, <1>14,
     <1>15, <1>16, <1>17, <1>18, <1>19, <1>20, <1>21, <1>22, <1>23, <1>24, <1>25, <1>26, <1>27,
     <1>28, <1>29, <1>30, <1>31, <1>32, <1>33, <1>34, <1>35, <1>36, <1>37, <1>38, <1>39, <1>40,
     <1>41, <1>42, <1>43, <1>44, <1>45, <1>46, <1>47, <1>48, <1>49, <1>50, <1>51, <1>52, <1>53,
     <1>54
     DEF Next, Lease, Retained, Transcribe, Synthesize, Talk

(* What passes from one owner to another has left the first.               *)
LEMMA ApartStep ==
    TypeOK /\ PhaseInv /\ TalkInv /\ CleanInv /\ RestInv /\ AskInv /\ KeptInv /\ GoneInv /\
       LinkInv /\ LiveInv /\ ApartInv /\ [Next]_vars => ApartInv'
<1> SUFFICES ASSUME TypeOK, PhaseInv, TalkInv, CleanInv, RestInv, AskInv, KeptInv, GoneInv,
                    LinkInv, LiveInv, ApartInv, [Next]_vars
             PROVE  ApartInv'
  OBVIOUS
<1> USE DEF GoTo, laneVars, leaseVars, offerVars, noticeVars, resourceVars, requestVars,
            ownVars, attemptVars, talkVars
<1>1. ASSUME NEW r \in Talkers, TalkLinked(r) \/ Settled(r) \/ WindingEnds(r)
      PROVE  ApartInv'
  <2>1. UNCHANGED <<held, offer, cleaning, pc, exec, front, scrub>>
    BY <1>1 DEF TalkLinked, Settled, WindingEnds
  <2>2. QED
    BY <2>1 DEF ApartInv
<1>2. ASSUME NEW t \in Threads, (Expire(t) \/ DogFinds(t) \/ DogStops(t) \/ DogStopsLate(t) \/
                Stir(t)) /\ UNCHANGED requestVars
      PROVE  ApartInv'
  <2>1. UNCHANGED <<held, offer, cleaning, pc, exec, front, scrub>>
    BY <1>2 DEF Expire, DogFinds, DogStops, DogStopsLate, Stir
  <2>2. QED
    BY <2>1 DEF ApartInv
<1>3. ASSUME CloseOn
      PROVE  ApartInv'
  <2>1. UNCHANGED <<held, offer, cleaning, pc, exec, front, scrub>>
    BY <1>3 DEF CloseOn
  <2>2. QED
    BY <2>1 DEF ApartInv
<1>4. ASSUME NEW r \in Requests, LaneBusy(r), UNCHANGED requestVars PROVE ApartInv'
  BY <1>4 DEF LaneBusy, ApartInv
<1>5. ASSUME NEW r \in Requests, LaneQueue(r), UNCHANGED requestVars PROVE ApartInv'
  BY <1>5 DEF LaneQueue, ApartInv
<1>6. ASSUME NEW r \in Requests, LaneRetry(r), UNCHANGED requestVars PROVE ApartInv'
  BY <1>6 DEF LaneRetry, ApartInv
<1>7. ASSUME NEW r \in Requests, LaneTimesOut(r), UNCHANGED requestVars PROVE ApartInv'
  BY <1>7 DEF LaneTimesOut, ApartInv
<1>8. ASSUME NEW r \in Requests, NEW match \in BOOLEAN, Claim(r, match), UNCHANGED requestVars
      PROVE  ApartInv'
  BY <1>8 DEF Claim, TrackCleanup, ApartInv, TypeOK, LaneTypeOK
<1>9. ASSUME NEW r \in Requests, Recheck(r), UNCHANGED requestVars PROVE ApartInv'
  <2>1. pc[r] = "calming" /\ pc'[r] \in {"sanitizing", "draining"}
        /\ (\A q \in Requests \ {r} : pc'[q] = pc[q])
        /\ UNCHANGED <<offer, front, exec, scrub>>
    BY <1>9 DEF Recheck, TypeOK
  <2>2. offer = None /\ \A q \in Requests \ {r} : held[q] = None
    BY <2>1 DEF CleanInv, PhaseInv, OwnerPhases
  <2>3. CASE UNCHANGED cleaning /\ \A q \in Requests : held'[q] = held[q]
    BY <2>1, <2>2, <2>3 DEF ApartInv
  <2>4. CASE /\ held[r] \in Threads /\ cleaning' = {held[r]}
             /\ held'[r] = None /\ \A q \in Requests \ {r} : held'[q] = held[q]
    <3>1. \A q \in Requests : held'[q] = None
      BY <2>2, <2>4
    <3>2. \A q \in Requests : exec[q] # None => exec[q] \notin cleaning'
      BY <2>4 DEF ApartInv
    <3>3. \A q \in Talkers, who \in Starters :
             \A t \in scrub[q][who] : t \notin cleaning' /\ t # None
      BY <2>4, NoThread DEF ApartInv, TypeOK
    <3>4. offer \notin cleaning'
      BY <2>2, <2>4, NoThread
    <3>5. QED
      BY <2>1, <2>2, <3>1, <3>2, <3>3, <3>4 DEF ApartInv
  <2>5. QED
    BY <1>9, <2>3, <2>4, RecheckEffect
<1>10. ASSUME NEW r \in Requests, Sanitize(r), UNCHANGED requestVars PROVE ApartInv'
  BY <1>10
     DEF Sanitize, TrackCleanup, ApartInv, TypeOK, LaneTypeOK, Requests, PhaseInv, OwnerPhases
<1>11. ASSUME NEW r \in Requests, Drained(r), UNCHANGED requestVars PROVE ApartInv'
  BY <1>11 DEF Drained, ApartInv
<1>12. ASSUME NEW r \in Requests, HandBack(r), UNCHANGED requestVars PROVE ApartInv'
  BY <1>12 DEF HandBack, TrackCleanup, ApartInv, TypeOK, PhaseInv, OwnerPhases
<1>13. ASSUME NEW r \in Requests, Release(r), UNCHANGED requestVars PROVE ApartInv'
  BY <1>13 DEF Release, ApartInv
<1>14. ASSUME NEW r \in Requests, Call(r) PROVE ApartInv'
  BY <1>14 DEF Call, ApartInv
<1>15. ASSUME NEW r \in Requests, Look(r) PROVE ApartInv'
  BY <1>15 DEF Look, ApartInv
<1>16. ASSUME NEW r \in Requests, BodyRead(r) PROVE ApartInv'
  BY <1>16 DEF BodyRead, ApartInv, TypeOK
<1>17. ASSUME NEW r \in Requests, StartRead(r) PROVE ApartInv'
  BY <1>17 DEF StartRead, ApartInv, TypeOK
<1>18. ASSUME NEW r \in Requests, RefuseAudio(r) PROVE ApartInv'
  BY <1>18 DEF RefuseAudio, ApartInv
<1>19. ASSUME NEW r \in Requests, RefuseText(r) PROVE ApartInv'
  BY <1>19 DEF RefuseText, ApartInv
<1>20. ASSUME NEW r \in Requests, Begin(r) PROVE ApartInv'
  BY <1>20 DEF Begin, AskThread, IsNext, ApartInv
<1>21. ASSUME NEW r \in Requests, Started(r) PROVE ApartInv'
  BY <1>21
     DEF Started, ApartInv, TypeOK, Slot, Requests, PhaseInv, AskInv, KeptInv, Kept, Closed,
         Gone
<1>22. ASSUME NEW r \in Requests, StartFails(r) \/ NoSession(r) PROVE ApartInv'
  <2>1. CASE StartFails(r)
    BY <2>1 DEF StartFails, ApartInv
  <2>2. CASE NoSession(r)
    BY <2>2 DEF NoSession, ApartInv
  <2>3. QED
    BY <1>22, <2>1, <2>2
<1>23. ASSUME NEW r \in Requests, StartRejected(r) PROVE ApartInv'
  BY <1>23, NoThread, Shapes
     DEF StartRejected, ApartInv, AskInv, KeptInv, Kept, PhaseInv, Requests
<1>24. ASSUME NEW r \in Requests, Linked(r) PROVE ApartInv'
  BY <1>24 DEF Linked, ApartInv
<1>25. ASSUME NEW r \in Requests, UseEnds(r) PROVE ApartInv'
  BY <1>25 DEF UseEnds, Wind, ApartInv, TypeOK
<1>26. ASSUME NEW r \in Requests, Retain(r) PROVE ApartInv'
  BY <1>26 DEF Retain, ApartInv
<1>27. ASSUME NEW r \in Requests, Stopped(r) PROVE ApartInv'
  BY <1>27 DEF Stopped, Delete, ApartInv
<1>28. ASSUME NEW r \in Requests, Disposed(r) PROVE ApartInv'
  BY <1>28 DEF Disposed, ApartInv
<1>29. ASSUME NEW r \in Requests, GiveUp(r) PROVE ApartInv'
  BY <1>29, RequestsAssumption
     DEF GiveUp, Delete, TrackCleanup, ApartInv, TypeOK, LaneTypeOK, Slot, PhaseInv, CleanInv,
         OwnerPhases, Gone
<1>30. ASSUME NEW r \in Requests, Dropped(r) PROVE ApartInv'
  BY <1>30 DEF Dropped, ApartInv
<1>31. ASSUME NEW r \in Requests, Publish(r) PROVE ApartInv'
  BY <1>31 DEF Publish, ApartInv, PhaseInv, CleanInv, OwnerPhases, Closed, Gone
<1>32. ASSUME NEW r \in Requests, Speak(r) PROVE ApartInv'
  BY <1>32 DEF Speak, CloseHeld, TrackCleanup, ApartInv, TypeOK, PhaseInv, OwnerPhases
<1>33. ASSUME NEW r \in Requests, Spoken(r) PROVE ApartInv'
  BY <1>33 DEF Spoken, CloseHeld, TrackCleanup, ApartInv, TypeOK, PhaseInv, OwnerPhases
<1>34. ASSUME NEW r \in Requests, HeldClosed(r) PROVE ApartInv'
  BY <1>34 DEF HeldClosed, ApartInv
<1>35. ASSUME NEW r \in Talkers, StartTalk(r) PROVE ApartInv'
  BY <1>35 DEF StartTalk, AskThread, IsNext, ApartInv
<1>36. ASSUME NEW r \in Talkers, ExecStarted(r) PROVE ApartInv'
  BY <1>36, RequestsAssumption
     DEF ExecStarted, ApartInv, TypeOK, Slot, Requests, Starters, TalkInv, RestInv, AskInv,
         KeptInv, Kept, Closed, Gone
<1>37. ASSUME NEW r \in Talkers, FrontStarted(r) PROVE ApartInv'
  <2>1. /\ ask[r] \in Threads /\ ~Kept(ask[r]) /\ front[r] = None
        /\ UNCHANGED <<pc, offer, cleaning, held>>
    BY <1>37 DEF FrontStarted, TalkInv, AskInv, KeptInv, TypeOK, Slot, Requests
  <2>2. CASE r \in abandoned
    <3>1. TakeOver(r, "startup", Owned(r) \cup {ask[r]})
      BY <1>37, <2>2 DEF FrontStarted, EndStartup
    <3>2. Owned(r) \cup {ask[r]} \in SUBSET Threads
      BY <2>1, OwnedType
    <3>3. QED
      BY <2>1, <3>1, <3>2, TakeOverApart DEF Starters
  <2>3. CASE r \notin abandoned
    <3>1. front' = [front EXCEPT ![r] = ask[r]] /\ UNCHANGED <<exec, scrub>>
      BY <1>37, <2>3 DEF FrontStarted
    <3>2. /\ \A q \in Requests : ask[r] # exec[q]
          /\ \A q \in Talkers, who \in Starters : ask[r] \notin scrub[q][who]
      BY <2>1 DEF Kept
    <3>3. QED
      BY <2>1, <3>1, <3>2 DEF ApartInv, TypeOK
  <2>4. QED
    BY <2>2, <2>3
<1>38. ASSUME NEW r \in Talkers, StartupFails(r) PROVE ApartInv'
  BY <1>38, StartupFailsEffect, EndStartupApart
<1>39. ASSUME NEW r \in Talkers, Interrupt(r) PROVE ApartInv'
  <2>1. CASE LeaveTalk(r, Owned(r))
    BY <1>39, <2>1, LeaveTalkApart DEF Interrupt
  <2>2. CASE ~LeaveTalk(r, Owned(r))
    <3>1. /\ UNCHANGED <<held, offer, cleaning, exec, front, scrub>>
          /\ \A q \in Requests \ {r} : pc'[q] = pc[q]
      BY <1>39, <2>2 DEF Interrupt, TypeOK
    <3>2. held[r] = None
      BY RequestsAssumption DEF PhaseInv, Requests
    <3>3. QED
      BY <3>1, <3>2 DEF ApartInv
  <2>3. QED
    BY <2>1, <2>2
<1>40. ASSUME NEW r \in Talkers, HaltStartup(r) PROVE ApartInv'
  BY <1>40, EndStartupApart DEF HaltStartup
<1>41. ASSUME NEW r \in Talkers, Halted(r) PROVE ApartInv'
  BY <1>41, LeaveTalkApart DEF Halted
<1>42. ASSUME NEW r \in Talkers, StartupEnds(r) PROVE ApartInv'
  <2>1. CASE LeaveTalk(r, Owned(r))
    BY <1>42, <2>1, LeaveTalkApart DEF StartupEnds
  <2>2. CASE ~LeaveTalk(r, Owned(r))
    <3>1. /\ UNCHANGED <<held, offer, cleaning, exec, front, scrub>>
          /\ \A q \in Requests \ {r} : pc'[q] = pc[q]
      BY <1>42, <2>2 DEF StartupEnds, TypeOK
    <3>2. held[r] = None
      BY RequestsAssumption DEF PhaseInv, Requests
    <3>3. QED
      BY <3>1, <3>2 DEF ApartInv
  <2>3. QED
    BY <2>1, <2>2
<1>43. ASSUME NEW r \in Talkers, TalkEnds(r) PROVE ApartInv'
  BY <1>43, LeaveTalkApart DEF TalkEnds
<1>44. ASSUME NEW r \in Talkers, Left(r) PROVE ApartInv'
  BY <1>44 DEF Left, ApartInv
<1>45. ASSUME NEW r \in Talkers, NEW who \in Starters, Scrub(r, who) PROVE ApartInv'
  <2>1. CASE {t \in scrub[r][who] : link[t] \in {"opening", "open"}} = {}
    <3>1. /\ \A q \in Talkers, w \in Starters :
                scrub'[q][w] = IF q = r /\ w = who THEN {} ELSE scrub[q][w]
          /\ UNCHANGED <<pc, offer, cleaning, held, front, exec>>
      BY <1>45, <2>1, ScrubEffect
    <3>2. \A q \in Talkers, w \in Starters : scrub'[q][w] \subseteq scrub[q][w]
      BY <3>1
    <3>3. QED
      BY <3>1, <3>2 DEF ApartInv
  <2>2. CASE {t \in scrub[r][who] : link[t] \in {"opening", "open"}} # {}
    BY <1>45, <2>2 DEF Scrub, ApartInv
  <2>3. QED
    BY <2>1, <2>2
<1>46. ASSUME NEW t \in Threads, CloseRetained(t), UNCHANGED requestVars PROVE ApartInv'
  BY <1>46 DEF CloseRetained, Delete, ApartInv
<1>47. ASSUME NEW t \in Threads, DogBites(t), UNCHANGED requestVars PROVE ApartInv'
  BY <1>47, NoThread DEF DogBites, TrackCleanup, ApartInv, TypeOK, LaneTypeOK
<1>48. ASSUME ReleaseOffer, UNCHANGED requestVars PROVE ApartInv'
  BY <1>48, NoThread DEF ReleaseOffer, TrackCleanup, ApartInv, TypeOK, LaneTypeOK
<1>49. ASSUME CloseBridge PROVE ApartInv'
  BY <1>49, NoThread DEF CloseBridge, TrackCleanup, ApartInv, TypeOK, LaneTypeOK
<1>50. CASE UNCHANGED vars
  BY <1>50 DEF vars, ApartInv
<1> QED
  BY <1>1, <1>2, <1>3, <1>4, <1>5, <1>6, <1>7, <1>8, <1>9, <1>10, <1>11, <1>12, <1>13, <1>14,
     <1>15, <1>16, <1>17, <1>18, <1>19, <1>20, <1>21, <1>22, <1>23, <1>24, <1>25, <1>26, <1>27,
     <1>28, <1>29, <1>30, <1>31, <1>32, <1>33, <1>34, <1>35, <1>36, <1>37, <1>38, <1>39, <1>40,
     <1>41, <1>42, <1>43, <1>44, <1>45, <1>46, <1>47, <1>48, <1>49, <1>50
     DEF Next, Lease, Retained, Transcribe, Synthesize, Talk

-----------------------------------------------------------------------------
(* The invariant holds in every state, and what follows from it.           *)

(* With no request there is nothing to own.                                *)
LEMMA InitIInv == Init => IInv
<1> SUFFICES ASSUME Init PROVE IInv
  OBVIOUS
<1> USE DEF Init, LaneInit
<1>1. TypeOK
  BY RequestsAssumption, SettingsAssumption
     DEF TypeOK, LaneTypeOK, Slot, LeasePhases, StartupPhases, Requests, Starters
<1>2. PhaseInv
  BY RequestsAssumption DEF PhaseInv, OwnerPhases
<1>3. AttemptInv /\ TalkInv /\ RestInv
  BY SettingsAssumption DEF AttemptInv, TalkInv, RestInv, Requests
<1>4. CleanInv /\ GoneInv
  BY DEF CleanInv, GoneInv, OwnerPhases
<1>5. StillInv /\ UpInv /\ LaneIsExclusive
  BY DEF StillInv, UpInv, LaneIsExclusive, Still, Up
<1>6. QuietInv /\ AskInv
  BY DEF QuietInv, AskInv
<1>7. KeptInv
  BY NoThread DEF KeptInv, Kept
<1>8. BridgeInv
  BY DEF BridgeInv
<1>9. LiveInv /\ LinkInv /\ ApartInv
  BY NoThread DEF LiveInv, LinkInv, ApartInv, Up
<1> QED
  BY <1>1, <1>2, <1>3, <1>4, <1>5, <1>6, <1>7, <1>8, <1>9 DEF IInv

(* Every step keeps the invariant.                                         *)
LEMMA StepIInv == IInv /\ [Next]_vars => IInv'
  BY TypeStep, PhaseStep, AttemptStep, TalkStep, CleanStep, StillStep, UpStep,
     ExclusiveStep, QuietStep, AskStep, KeptStep, GoneStep, RestStep, BridgeStep,
     LiveStep, LinkStep, ApartStep DEF IInv

(* The invariant, for every set of requests and every number of attempts.  *)
THEOREM Invariant == Spec => []IInv
  BY InitIInv, StepIInv, PTL DEF Spec

(* Every variable keeps its type: no transcription begins more attempts    *)
(* than TRANSCRIPTION_MAX_ATTEMPTS, and no thread is used beyond those the *)
(* requests can ask for.                                                   *)
THEOREM TypeCorrect == Spec => []TypeOK
<1>1. IInv => TypeOK
  BY DEF IInv
<1> QED
  BY <1>1, Invariant, PTL

(* There is one realtime speech channel, however the requests hand it over *)
(* (speech_session_lease, offer, watchdog, cleanup, abandoned startup).    *)
THEOREM LaneExclusive == Spec => []LaneIsExclusive
<1>1. IInv => LaneIsExclusive
  BY DEF IInv
<1> QED
  BY <1>1, Invariant, PTL

(* No speech is appended to a session on which the assistant has been      *)
(* active since it was retained, unless its watchdog was cancelled with    *)
(* the news in hand.                                                       *)
THEOREM BoundaryQuiet == Spec => []QuietBoundary
<1>1. IInv => QuietBoundary
  BY DEF IInv, QuietBoundary, QuietInv, PhaseInv
<1> QED
  BY <1>1, Invariant, PTL

(* What has a thread, has it alone.  The slots of the requests are counted *)
(* by request, those of the cleanup tasks by request and starter.          *)
LEMMA KeepersCount ==
    ASSUME IInv, NEW t \in Threads, thread[t] = "live"
    PROVE  Keepers(t) = 1 \/ (Keepers(t) = 0 /\ t \in cleaning)
<1> DEFINE A == {r \in Requests : t \in Owned(r)}
           B == {b \in Talkers \X Starters : t \in scrub[b[1]][b[2]]}
           Held == \E r \in Requests : held[r] = t /\ pc[r] # "idle"
<1>1. Keepers(t) = Cardinality(A) + Cardinality(B) + (IF t = offer THEN 1 ELSE 0)
                   + (IF Held THEN 1 ELSE 0)
  BY DEF Keepers
<1>2. t # None
  BY NoThread
<1>3. Held <=> \E r \in Requests : held[r] = t
  BY <1>2 DEF IInv, PhaseInv
<1>4. /\ A = {r \in Requests : front[r] = t \/ exec[r] = t}
      /\ B = {b \in Talkers \X Starters : t \in scrub[b[1]][b[2]]}
  BY <1>2 DEF Owned
<1> HIDE DEF A, B
<1>5. CASE t = offer
  <2>1. ~Held /\ A = {} /\ B = {}
    <3>1. \A r \in Requests : held[r] # t
      BY <1>2, <1>5 DEF IInv, ApartInv
    <3>2. \A r \in Requests : exec[r] # t
      BY <1>2, <1>5 DEF IInv, ApartInv
    <3>3. \A r \in Requests : front[r] # t
      <4>1. ASSUME NEW r \in Requests, front[r] = t
            PROVE  pc[r] \in OwnerPhases \ {"returning", "handingBack"}
        BY <1>2, <4>1 DEF IInv, RestInv, OwnerPhases
      <4>2. QED
        BY <1>2, <1>5, <4>1 DEF IInv, CleanInv
    <3>4. \A b \in Talkers \X Starters : t \notin scrub[b[1]][b[2]]
      BY <1>5 DEF IInv, ApartInv
    <3>5. QED
      BY <1>3, <1>4, <3>1, <3>2, <3>3, <3>4
  <2>2. QED
    BY <1>1, <1>5, <2>1, FS_EmptySet
<1>6. CASE \E r \in Requests : held[r] = t
  <2>1. PICK r \in Requests : held[r] = t
    BY <1>6
  <2>2. owner = r /\ r \in Synthesizers /\ front[r] # t
        /\ pc[r] \in OwnerPhases
    BY <1>2, <2>1, RequestsAssumption DEF IInv, PhaseInv, RestInv, OwnerPhases, Requests
  <2>3. t # offer
    BY <1>2, <2>1 DEF IInv, ApartInv
  <2>4. \A q \in Requests : exec[q] # t
    BY <1>2, <2>1 DEF IInv, ApartInv
  <2>5. \A q \in Requests : front[q] # t
    <3>1. ASSUME NEW q \in Requests, front[q] = t PROVE pc[q] \in OwnerPhases
      BY <1>2, <3>1 DEF IInv, RestInv, OwnerPhases
    <3>2. QED
      BY <2>2, <3>1 DEF IInv, PhaseInv
  <2>6. \A b \in Talkers \X Starters : t \notin scrub[b[1]][b[2]]
    BY <2>1 DEF IInv, ApartInv
  <2>7. A = {} /\ B = {}
    BY <1>4, <2>4, <2>5, <2>6
  <2>8. QED
    BY <1>1, <1>3, <1>6, <2>3, <2>7, FS_EmptySet
<1>7. CASE t # offer /\ (\A r \in Requests : held[r] # t) /\ A # {}
  <2>1. PICK r \in Requests : front[r] = t \/ exec[r] = t
    BY <1>4, <1>7
  <2>2. A = {r}
    <3>1. ASSUME NEW q \in Requests, front[q] = t \/ exec[q] = t PROVE q = r
      <4>1. CASE exec[q] = t \/ exec[r] = t
        BY <1>2, <2>1, <3>1, <4>1 DEF IInv, ApartInv
      <4>2. CASE front[q] = t /\ front[r] = t
        BY <1>2, <4>2 DEF IInv, RestInv, PhaseInv, OwnerPhases
      <4>3. QED
        BY <2>1, <3>1, <4>1, <4>2
    <3>2. QED
      BY <1>4, <2>1, <3>1
  <2>3. B = {}
    <3>1. \A b \in Talkers \X Starters : t \notin scrub[b[1]][b[2]]
      BY <1>2, <2>1 DEF IInv, ApartInv
    <3>2. QED
      BY <1>4, <3>1
  <2>4. Cardinality(A) = 1
    BY <2>2, FS_Singleton
  <2>5. Cardinality(B) = 0
    BY <2>3, FS_EmptySet
  <2>6. QED
    BY <1>1, <1>3, <1>7, <2>4, <2>5
<1>8. CASE t # offer /\ (\A r \in Requests : held[r] # t) /\ A = {} /\ B # {}
  <2>1. PICK b \in Talkers \X Starters : t \in scrub[b[1]][b[2]]
    BY <1>4, <1>8
  <2>2. \A c \in B : c = b
    <3>1. ASSUME NEW c \in Talkers \X Starters, t \in scrub[c[1]][c[2]]
          PROVE  c[1] = b[1] /\ c[2] = b[2]
      BY <2>1, <3>1 DEF IInv, ApartInv
    <3>2. QED
      BY <1>4, <3>1
  <2>3. B = {b}
    BY <1>4, <2>1, <2>2
  <2>4. QED
    BY SMTT(30), <1>1, <1>3, <1>8, <2>3, FS_EmptySet, FS_Singleton
<1>9. CASE t # offer /\ (\A r \in Requests : held[r] # t) /\ A = {} /\ B = {}
  <2>1. Keepers(t) = 0
    BY <1>1, <1>3, <1>9, FS_EmptySet
  <2>2. Kept(t)
    BY DEF IInv, KeptInv
  <2>3. \A r \in Talkers, who \in Starters : <<r, who>> \notin B
    BY <1>9
  <2>4. \A r \in Talkers, who \in Starters : t \notin scrub[r][who]
    BY <1>4, <2>3
  <2>5. t \in cleaning
    BY <1>4, <1>9, <2>2, <2>4 DEF Kept
  <2>6. QED
    BY <2>1, <2>5
<1>10. QED
  BY <1>5, <1>6, <1>7, <1>8, <1>9

(* A thread the bridge knows has one owner, which will delete it once, and *)
(* no transport outlives its thread: what _dispose_thread and the finally  *)
(* blocks around it are for.  Left out is the thread of a synthesis that   *)
(* could not make its session (NoSession), which no such block covers.     *)
THEOREM ThreadsOwned == Spec => []ThreadsAreOwned
<1>1. IInv => ThreadsAreOwned
  <2> SUFFICES ASSUME IInv PROVE ThreadsAreOwned
    OBVIOUS
  <2>1. again = {} /\ \A t \in Threads : Up(t) => thread[t] = "live"
    BY DEF IInv, LiveInv
  <2>2. QED
    BY <2>1, KeepersCount DEF ThreadsAreOwned
<1> QED
  BY <1>1, Invariant, PTL

(* BridgeState._close reaches the App Server's end only when every thread  *)
(* the bridge knows, and every one it might still be told of, is deleted,  *)
(* but for those that NoSession left behind.                               *)
THEOREM ShutdownComplete == Spec => []ClosedAfterCleanups
<1>1. IInv => ClosedAfterCleanups
  <2> SUFFICES ASSUME IInv, bridge = "down", NEW t \in Threads
               PROVE  thread[t] \in {"none", "deleted", "orphan", "stray"}
    BY DEF ClosedAfterCleanups
  <2>1. /\ offer = None /\ cleaning = {}
        /\ \A r \in Requests : pc[r] \in {"idle", "done"}
        /\ \A r \in Talkers : startup[r] \in {"off", "ready", "failed"} /\ Scrubbed(r)
    BY DEF IInv, BridgeInv, Starting
  <2>2. \A r \in Requests : ask[r] = None /\ front[r] = None /\ exec[r] = None
    BY <2>1 DEF IInv, RestInv, Requests
  <2>3. \A r \in Requests : held[r] = None
    BY <2>1 DEF IInv, PhaseInv
  <2>4. thread[t] # "asked"
    BY <2>2, NoThread DEF IInv, AskInv
  <2>5. ~Kept(t)
    BY <2>1, <2>2, <2>3, NoThread DEF Kept, Scrubbed
  <2>6. QED
    BY <2>4, <2>5 DEF IInv, KeptInv, TypeOK, LaneTypeOK
<1> QED
  BY <1>1, Invariant, PTL
==============================================================================
