----------------------------- MODULE PolicyEngine -----------------------------
(* One policy_engine.  check_llm_call() asks for the daily budget and, unless  *)
(* it is used up, for the rate of the actor; only a message both admit has a   *)
(* turn, whose tokens are counted.  The budget is two atomics, the rates are a *)
(* map under a mutex: the rate is taken at the moment the counter is read,     *)
(* which no step of another worker can tell from a later one.                  *)
EXTENDS DailyBudget, RateLimit

policyVars == <<vars, rateVars>>

PolicyInit == Init /\ RateInit

\* The budget is used up: the actor's rate is not looked at, nor counted.
CheckExhausted(w) == Exhausted /\ Reject(w) /\ UNCHANGED rateVars

CheckAllowed(w, a) == Admit(w) /\ Allow(a)

CheckLimited(w, a) == ~ Exhausted /\ Reject(w) /\ Refuse(a)

OtherStep(w) ==
    /\ \/ ReadClock(w) \/ LoadDay(w) \/ CompareExchange(w) \/ StoreZero(w)
       \/ BeginCheck(w) \/ BeginRecord(w) \/ EndTurn(w)
       \/ \E n \in 1 .. MaxTokens : Add(w, n)
    /\ UNCHANGED rateVars

PolicyNext ==
    \/ Midnight /\ UNCHANGED rateVars
    \/ Tick /\ UNCHANGED vars
    \/ \E w \in Worker :
          \/ CheckExhausted(w) \/ OtherStep(w)
          \/ \E a \in Actor : CheckAllowed(w, a) \/ CheckLimited(w, a)

PolicySpec == PolicyInit /\ [][PolicyNext]_policyVars
-------------------------------------------------------------------------------
PolicyTypeOK == TypeOK /\ RateTypeOK
===============================================================================
