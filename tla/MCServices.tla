---------------------------- MODULE MCServices ----------------------------
(***************************************************************************)
(* Nine parts of the program that share no state and are checked for       *)
(* safety, side by side: the first state chooses which of them moves.      *)
(***************************************************************************)
EXTENDS RateLimiter, Router, HttpParser, Timeouts, Logger, Metrics, Reply, Application,
        RequestViews

VARIABLE part

AnySetup == CHOOSE s \in Setups : TRUE
AnyRequest == CHOOSE r \in Asking : TRUE

ServicesInit ==
  /\ part \in {"limiter", "router", "parser", "timeouts", "logger", "metrics", "reply",
               "application", "views"}
  /\ LimiterInit /\ RouterInit /\ MetricsInit /\ ViewsInit
  /\ ParserInit /\ (part # "parser" => stream = <<>>)
  \* The timeouts of a configuration are all set, or none is.
  /\ TimeoutsInit /\ \A n \in TimeoutNames : settings[n] = settings["idle"]
  /\ part # "timeouts" => settings["idle"] = 0
  /\ LoggerInit /\ (part # "logger" => limits = [bytes |-> 0, files |-> 0])
  /\ IF part = "application" THEN ApplicationInit
     ELSE ApplicationInit /\ \A c \in Clients : wants[c].kind = "note"
  /\ IF part = "reply" THEN ReplyInit
     ELSE setup = AnySetup /\ request = AnyRequest /\ res = NoResponse

ServicesNext ==
  /\ UNCHANGED part
  /\ \/ /\ part = "limiter" /\ LimiterNext
        /\ UNCHANGED <<routerVars, parserVars, timeoutVars, logVars, metricsVars, replyVars, appVars, viewVars>>
     \/ /\ part = "router" /\ RouterNext
        /\ UNCHANGED <<limiterVars, parserVars, timeoutVars, logVars, metricsVars, replyVars, appVars, viewVars>>
     \/ /\ part = "parser" /\ ParserNext
        /\ UNCHANGED <<limiterVars, routerVars, timeoutVars, logVars, metricsVars, replyVars, appVars, viewVars>>
     \/ /\ part = "timeouts" /\ TimeoutsNext
        /\ UNCHANGED <<limiterVars, routerVars, parserVars, logVars, metricsVars, replyVars, appVars, viewVars>>
     \/ /\ part = "logger" /\ LoggerNext
        /\ UNCHANGED <<limiterVars, routerVars, parserVars, timeoutVars, metricsVars, replyVars, appVars, viewVars>>
     \/ /\ part = "metrics" /\ MetricsNext
        /\ UNCHANGED <<limiterVars, routerVars, parserVars, timeoutVars, logVars, replyVars, appVars, viewVars>>
     \/ /\ part = "reply" /\ ReplyNext
        /\ UNCHANGED <<limiterVars, routerVars, parserVars, timeoutVars, logVars, metricsVars, appVars, viewVars>>
     \/ /\ part = "application" /\ ApplicationNext
        /\ UNCHANGED <<limiterVars, routerVars, parserVars, timeoutVars, logVars, metricsVars, replyVars, viewVars>>
     \/ /\ part = "views" /\ ViewsNext
        /\ UNCHANGED <<limiterVars, routerVars, parserVars, timeoutVars, logVars, metricsVars, replyVars, appVars>>

ServicesSpec ==
  ServicesInit /\ [][ServicesNext]_<<part, limiterVars, routerVars, parserVars, timeoutVars,
                                     logVars, metricsVars, replyVars, appVars, viewVars>>

\* Every variable of the parts keeps its type.
ServicesTypeOK ==
  /\ LimiterTypeOK /\ TimeoutsTypeOK /\ LoggerTypeOK /\ MetricsTypeOK /\ ViewsTypeOK

\* RoutesFound, where the routes are those that moved.
RouterFinds == part = "router" => RoutesFound
=============================================================================
