---------------------------- MODULE ConfigProofs ----------------------------
(***************************************************************************)
(* A theorem about Config, for any unit and width of time.Duration, any    *)
(* range of timeouts and any values in the environment.                    *)
(***************************************************************************)
EXTENDS Config, TLAPS

(* The product of a timeout in seconds and the unit fits in the word.      *)
Fits(secs) == -(Word \div 2) <= secs * Second /\ secs * Second < Word \div 2

LEMMA NoWrap ==
    ASSUME NEW x \in Int, -(Word \div 2) <= x, x < Word \div 2
    PROVE  (IF x % Word < Word \div 2 THEN x % Word ELSE (x % Word) - Word) = x
<1>1. Word \in Nat \ {0} /\ Word % 2 = 0
    BY TimeAssumption
<1> DEFINE h == Word \div 2
<1>2. h \in Nat /\ Word = 2 * h /\ h > 0
    BY <1>1
<1>3. CASE x >= 0
    <2>1. x % Word = x
        BY <1>1, <1>2, <1>3
    <2> QED
        BY <2>1
<1>4. CASE x < 0
    <2>1. x % Word = x + Word
        BY <1>1, <1>2, <1>4
    <2> QED
        BY <1>2, <1>4, <2>1
<1> QED
    BY <1>3, <1>4

(* Without overflow the timeout is the product.                            *)
LEMMA DurationIsProduct ==
    ASSUME NEW secs \in Int, Fits(secs)
    PROVE  Duration(secs) = secs * Second
<1>1. secs * Second \in Int
    BY TimeAssumption
<1> QED
    BY <1>1, NoWrap DEF Duration, Fits

(* Comparing products is comparing seconds.                                *)
LEMMA ProductsCompare ==
    ASSUME NEW a \in Int, NEW b \in Int
    PROVE  a * Second <= b * Second <=> a <= b
<1> DEFINE u == Second
<1>1. u \in Nat \ {0}
    BY TimeAssumption
<1> HIDE DEF u
<1>2. CASE a <= b
    <2>1. b - a \in Nat /\ (b - a) * u >= 0 /\ b * u = a * u + (b - a) * u
        BY <1>1, <1>2
    <2> QED
        BY <1>1, <1>2, <2>1 DEF u
<1>3. CASE a > b
    <2>1. (a - b) * u >= u /\ a * u = b * u + (a - b) * u
        BY <1>1, <1>3
    <2> QED
        BY <1>1, <1>3, <2>1 DEF u
<1> QED
    BY <1>2, <1>3

-----------------------------------------------------------------------------
(* A variable is unset and gives the default, or is set to its value.      *)
LEMMA DefaultOrValue ==
    ASSUME NEW S, NEW v \in Maybe(S), NEW default
    PROVE  \/ v = {} /\ EnvOrDefault(v, default) = default
           \/ \E x \in S : v = {x} /\ EnvOrDefault(v, default) = x
<1>1. CASE v = {}
    BY <1>1 DEF EnvOrDefault
<1>2. ASSUME NEW x \in S, v = {x}
      PROVE  EnvOrDefault(v, default) = x
    <2>1. (CHOOSE y \in {x} : TRUE) = x
        OBVIOUS
    <2> QED
        BY <1>2, <2>1 DEF EnvOrDefault
<1> QED
    BY <1>1, <1>2 DEF Maybe

(* It is good exactly if it is unset or good itself.                       *)
LEMMA ValueOfDefault ==
    ASSUME NEW S, NEW v \in Maybe(S), NEW Good, NEW default \in Good
    PROVE  EnvOrDefault(v, default) \in Good <=> v \in Maybe(Good)
<1>1. CASE v = {}
    BY <1>1, DefaultOrValue DEF Maybe
<1>2. ASSUME NEW x \in S, v = {x}, EnvOrDefault(v, default) = x
      PROVE  EnvOrDefault(v, default) \in Good <=> v \in Maybe(Good)
    <2>1. {x} \in Maybe(Good) <=> x \in Good
        <3>1. {x} \in Maybe(Good) <=> \E y \in Good : {x} = {y}
            BY DEF Maybe
        <3> QED
            BY <3>1
    <2> QED
        BY <1>2, <2>1
<1> QED
    BY <1>1, <1>2, DefaultOrValue

(* The variables that are validated.                                       *)
LEMMA Variables ==
    ASSUME env \in Environments
    PROVE  /\ env.HELIXON_BASE_URL \in Maybe(URLs)
           /\ env.HELIXON_TIMEOUT_SECONDS \in Maybe(Seconds \union {NotANumber})
           /\ env.MCP_TRANSPORT \in Maybe({"stdio", "sse", "grpc"})
           /\ env.LOG_LEVEL \in Maybe({"debug", "trace"})
<1>1. env.HELIXON_BASE_URL \in Maybe(URLs)
    BY DEF Environments
<1>2. env.HELIXON_TIMEOUT_SECONDS \in Maybe(Seconds \union {NotANumber})
    BY DEF Environments
<1>3. env.MCP_TRANSPORT \in Maybe({"stdio", "sse", "grpc"})
    BY DEF Environments
<1>4. env.LOG_LEVEL \in Maybe({"debug", "trace"})
    BY DEF Environments
<1> QED
    BY <1>1, <1>2, <1>3, <1>4

(* The timeout of an environment passes exactly if it is in the range.     *)
LEMMA TimeoutInRange ==
    ASSUME env \in Environments, NoOverflow,
           env.HELIXON_TIMEOUT_SECONDS # {NotANumber}
    PROVE  LET t == Parse(env).timeout
           IN  (t >= MinTimeoutSec * Second /\ t <= MaxTimeoutSec * Second)
                  <=> InRange(env.HELIXON_TIMEOUT_SECONDS)
<1> DEFINE secs == EnvOrDefault(env.HELIXON_TIMEOUT_SECONDS, 30)
<1>1. \/ env.HELIXON_TIMEOUT_SECONDS = {} /\ secs = 30
      \/ \E s \in Seconds : env.HELIXON_TIMEOUT_SECONDS = {s} /\ secs = s
    BY Variables, DefaultOrValue
<1>2. Parse(env).timeout = Duration(secs)
    BY DEF Parse
<1>3. secs \in Int /\ InRange(env.HELIXON_TIMEOUT_SECONDS) <=>
          secs \in Int /\ MinTimeoutSec <= secs /\ secs <= MaxTimeoutSec
    BY <1>1, TimeAssumption, SecondsAssumption DEF InRange
<1>4. secs \in Int
    BY <1>1, SecondsAssumption
<1> HIDE DEF secs
<1>5. Fits(secs)
    <2>1. CASE \E s \in Seconds : env.HELIXON_TIMEOUT_SECONDS = {s} /\ secs = s
        BY <2>1 DEF NoOverflow, Fits
    <2>2. CASE secs = 30
        <3>1. secs * Second <= MaxTimeoutSec * Second /\ 0 * Second <= secs * Second
            BY <2>2, TimeAssumption, ProductsCompare
        <3>2. 0 * Second = 0 /\ -(Word \div 2) <= 0 /\ secs * Second \in Int
            BY <2>2, TimeAssumption
        <3> QED
            BY <3>1, <3>2, TimeAssumption DEF Fits
    <2> QED
        BY <1>1, <2>1, <2>2
<1>6. Duration(secs) = secs * Second
    BY <1>4, <1>5, DurationIsProduct
<1>7. /\ MinTimeoutSec * Second <= secs * Second <=> MinTimeoutSec <= secs
      /\ secs * Second <= MaxTimeoutSec * Second <=> secs <= MaxTimeoutSec
    BY <1>4, TimeAssumption, ProductsCompare
<1> QED
    BY <1>2, <1>3, <1>4, <1>6, <1>7, TimeAssumption

(* A base URL passes exactly if the documents allow it.                    *)
LEMMA URLAsDocumented ==
    ASSUME NEW u \in URLs, NEW allow \in BOOLEAN
    PROVE  ValidateBaseURL(u, allow) <=>
              /\ u.parses /\ u.scheme \in {"http", "https"} /\ HasHost(u)
              /\ u.host \in LoopbackHosts \/ allow
BY DEF ValidateBaseURL, RequireLocalhost, IsLoopback, Trim, ExtractHost

(* An environment is accepted exactly if it is documented.                 *)
Accepted(e) == e.HELIXON_TIMEOUT_SECONDS # {NotANumber} /\ Validate(Parse(e))

LEMMA AcceptedIsDocumented ==
    ASSUME env \in Environments, NoOverflow
    PROVE  Accepted(env) <=> Documented(env)
<1> DEFINE u     == EnvOrDefault(env.HELIXON_BASE_URL, DefaultURL)
           allow == env.HELIXON_ALLOW_NON_LOCALHOST = {"true"}
<1>1. env.HELIXON_TIMEOUT_SECONDS = {NotANumber} =>
          ~InRange(env.HELIXON_TIMEOUT_SECONDS)
    BY SecondsAssumption DEF InRange
<1>2. u \in URLs /\ allow \in BOOLEAN
    <2>1. DefaultURL \in URLs
        BY DEF URLs, DefaultURL, Hosts, LoopbackHosts
    <2> QED
        BY <2>1, Variables, DefaultOrValue
<1>3. EnvOrDefault(env.MCP_TRANSPORT, "stdio") \in {"stdio", "sse"} <=>
          env.MCP_TRANSPORT \in Maybe({"stdio", "sse"})
    BY Variables, ValueOfDefault
<1>4. EnvOrDefault(env.LOG_LEVEL, "info") \in {"debug", "info", "warn", "error"} <=>
          env.LOG_LEVEL \in Maybe({"debug", "info", "warn", "error"})
    BY Variables, ValueOfDefault
<1>5. /\ Parse(env).baseURL = u /\ Parse(env).allow = allow
      /\ Parse(env).transport = EnvOrDefault(env.MCP_TRANSPORT, "stdio")
      /\ Parse(env).logLevel = EnvOrDefault(env.LOG_LEVEL, "info")
    BY DEF Parse
<1>6. ValidateBaseURL(u, allow) <=>
          /\ u.parses /\ u.scheme \in {"http", "https"} /\ HasHost(u)
          /\ u.host \in LoopbackHosts \/ allow
    BY <1>2, URLAsDocumented
<1>7. Documented(env) <=>
          /\ u.parses /\ u.scheme \in {"http", "https"} /\ HasHost(u)
          /\ u.host \in LoopbackHosts \/ allow
          /\ env.MCP_TRANSPORT \in Maybe({"stdio", "sse"})
          /\ InRange(env.HELIXON_TIMEOUT_SECONDS)
          /\ env.LOG_LEVEL \in Maybe({"debug", "info", "warn", "error"})
    BY DEF Documented
<1> HIDE DEF u, allow
<1>8. CASE env.HELIXON_TIMEOUT_SECONDS = {NotANumber}
    BY <1>1, <1>7, <1>8 DEF Accepted
<1>9. CASE env.HELIXON_TIMEOUT_SECONDS # {NotANumber}
    BY <1>3, <1>4, <1>5, <1>6, <1>7, <1>9, TimeoutInRange DEF Accepted, Validate
<1> QED
    BY <1>8, <1>9

(* Load decided by the environment.                                        *)
Decided ==
    /\ env \in Environments
    /\ args = "none" /\ phase \in {"loaded", "serving"} => Accepted(env)
    /\ args = "none" /\ phase = "refused" => ~Accepted(env)

(* The server starts exactly with the environments the documents allow,    *)
(* unless the timeout overflows.                                           *)
THEOREM StartsAsDocumented == Spec => []AcceptsDocumented
<1>1. Init => Decided
    BY DEF Init, Decided
<1>2. Decided /\ [Next]_vars => Decided'
    <2> SUFFICES ASSUME Decided, [Next]_vars PROVE Decided'
        OBVIOUS
    <2>1. UNCHANGED <<args, env>>
        BY DEF Next, PrintAndExit, Load, Run, vars
    <2>2. CASE PrintAndExit
        <3>1. phase' = "exited"
            BY <2>2 DEF PrintAndExit
        <3>2. env' \in Environments
            BY <2>1 DEF Decided
        <3> QED
            BY <3>1, <3>2 DEF Decided
    <2>3. CASE Load
        BY <2>1, <2>3 DEF Load, Decided, Accepted
    <2>4. CASE Run
        <3>1. phase = "loaded" /\ phase' = "serving"
            BY <2>4 DEF Run
        <3>2. Accepted(env)' = Accepted(env) /\ env' \in Environments
            BY <2>1 DEF Decided, Accepted
        <3> QED
            BY <2>1, <3>1, <3>2 DEF Decided
    <2>5. CASE UNCHANGED vars
        BY <2>1, <2>5 DEF vars, Decided, Accepted
    <2> QED
        BY <2>2, <2>3, <2>4, <2>5 DEF Next
<1>3. Decided => AcceptsDocumented
    BY AcceptedIsDocumented DEF Decided, AcceptsDocumented
<1> QED
    BY <1>1, <1>2, <1>3, PTL DEF Spec

-----------------------------------------------------------------------------
(* What Load stored is what the environment said, and only a validated     *)
(* Config gets as far as a transport.                                      *)
Stored ==
    /\ env \in Environments
    /\ phase \in {"loaded", "serving"} => cfg = {Parse(env)} /\ Accepted(env)

(* A running server has the timeout that was asked for, in the range, for  *)
(* every value whose product fits in a time.Duration: the overflow that    *)
(* MCConfigTimeout shows is the only way to another one.                   *)
THEOREM TimeoutUnlessOverflow == Spec => [](NoOverflow => TimeoutAsAsked)
<1>1. Init => Stored
    BY DEF Init, Stored
<1>2. Stored /\ [Next]_vars => Stored'
    <2> SUFFICES ASSUME Stored, [Next]_vars PROVE Stored'
        OBVIOUS
    <2>1. env' = env /\ Accepted(env)' = Accepted(env) /\ Parse(env)' = Parse(env)
        BY DEF Next, PrintAndExit, Load, Run, vars, Accepted
    <2>2. CASE PrintAndExit
        BY <2>1, <2>2 DEF PrintAndExit, Stored
    <2>3. CASE Load
        BY <2>1, <2>3 DEF Load, Stored, Accepted
    <2>4. CASE Run
        BY <2>1, <2>4 DEF Run, Stored
    <2>5. CASE UNCHANGED vars
        BY <2>1, <2>5 DEF vars, Stored
    <2> QED
        BY <2>2, <2>3, <2>4, <2>5 DEF Next
<1>3. Stored => (NoOverflow => TimeoutAsAsked)
    <2> SUFFICES ASSUME Stored, NoOverflow, Running,
                        NEW s \in Seconds, env.HELIXON_TIMEOUT_SECONDS = {s}
                 PROVE  /\ s \in MinTimeoutSec..MaxTimeoutSec
                        /\ \A c \in cfg : c.timeout = s * Second
        BY DEF TimeoutAsAsked
    <2>1. cfg = {Parse(env)} /\ Accepted(env) /\ env \in Environments
        BY DEF Stored, Running
    <2>2. InRange(env.HELIXON_TIMEOUT_SECONDS)
        BY <2>1, AcceptedIsDocumented DEF Documented
    <2>3. s \in MinTimeoutSec..MaxTimeoutSec
        BY <2>2, SecondsAssumption, TimeAssumption DEF InRange
    <2>4. EnvOrDefault(env.HELIXON_TIMEOUT_SECONDS, 30) = s
        BY <2>1, Variables, DefaultOrValue
    <2>5. Parse(env).timeout = Duration(s)
        BY <2>4 DEF Parse
    <2>6. Duration(s) = s * Second
        BY DurationIsProduct, SecondsAssumption DEF NoOverflow, Fits
    <2> QED
        BY <2>1, <2>3, <2>5, <2>6
<1> QED
    BY <1>1, <1>2, <1>3, PTL DEF Spec
=============================================================================
