---------------------------- MODULE MCSdkExchange ----------------------------
(***************************************************************************)
(* The answers of the real endpoints, and of one that stands for reading a *)
(* nested class by itself.  A document is complete, minimal, or complete   *)
(* but for one key that is missing or has another value, among them every  *)
(* cell a nested object can be for its class.                              *)
(***************************************************************************)
EXTENDS SdkExchange, SdkEndpoints

Future == "futureField"

Complete(m) ==
  [k \in Fields(m) \union {Future} |-> IF k \in Times(m) THEN "zulu" ELSE "good"]

Minimal(m) == [k \in m.must |-> Complete(m)[k]]

Without(doc, key) == [k \in DOMAIN doc \ {key} |-> doc[k]]

\* The only optional keys in a nested object that is not open and that an earlier
\* release reads by its class: PublicPmResolvedEventsResponseMetaPeriodType0.
HoldsPeriod ==
  {PublicPmResolvedEventsResponse.class, PublicPmResolvedEventsResponseMeta.class}

Others(m, k) ==
  {"null", "stray"}
    \union (IF k \in m.deepList THEN {"knotted"} ELSE {})
    \union (IF k \in Shuts(m) THEN {"extra"} ELSE {})
    \union (IF k \in m.shut /\ m.class \in HoldsPeriod THEN {"late"} ELSE {})
    \union (IF k \in m.easyList THEN {"strayItem"} ELSE {})
    \union (IF k \in Times(m) THEN {"offset"} ELSE {})

Documents(m) ==
  {Complete(m), Minimal(m)}
    \union {Without(Complete(m), k) : k \in Fields(m) \union {Future}}
    \union UNION {{[Complete(m) EXCEPT ![k] = c] : c \in Others(m, k)} :
                    k \in Typed(m) \union Times(m)}

Classes(e, s) == {e[s][i] : i \in DOMAIN e[s]}

Documented ==
  UNION {UNION {
    {[endpoint |-> e, status |-> s, doc |-> d] :
       d \in UNION {Documents(m) : m \in Classes(e, s)}} :
    s \in DOMAIN e} : e \in Endpoints}

\* 418 and 520 are documented nowhere.
Undocumented ==
  {[endpoint |-> e, status |-> s, doc |-> [k \in {} |-> "good"]] :
     e \in Endpoints, s \in {418, 520}}

Nested ==
  (TradingModels \union AgentModels \union PublicPmModels \union PublicModels)
    \ UNION {UNION {Classes(e, s) : s \in DOMAIN e} : e \in Endpoints}

ReadAlone ==
  UNION {{[endpoint |-> Reads({200}, <<m>>), status |-> 200, doc |-> d] :
            d \in Documents(m)} : m \in Nested}

MCAnswers == Documented \union Undocumented \union ReadAlone

\* These are answers SdkExchangeProofs tells refusals from successes for.
ASSUME MCAnswersAreDocumented ==
  \A a \in MCAnswers : a.endpoint \in Endpoints \/ DOMAIN a.endpoint = {200}

MCStandard == {418} \union UNION {DOMAIN e : e \in Endpoints}
=============================================================================
