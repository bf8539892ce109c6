-------------------------- MODULE AdmissionProofs --------------------------
(***************************************************************************)
(* What an operator and a client may rely on, for every environment, every *)
(* request, every list of languages and every table of zones: the secret,  *)
(* the choice of the binary, the limits, and what a session's own options  *)
(* do to the command line.                                                 *)
(*                                                                         *)
(* The list of languages is filtered by recursion on its length.  Facts    *)
(* about it are proved from its smallest counterexample, since the         *)
(* library's theorem on well-founded orders has the form of a set.         *)
(***************************************************************************)
EXTENDS Admission, TLAPS, SequenceTheorems, WellFoundedInduction

-----------------------------------------------------------------------------
(* A set of numbers that is not empty has a least element.                 *)
LEMMA LeastElement ==
    ASSUME NEW T \in SUBSET Nat, T # {}
    PROVE  \E x \in T : \A y \in T : x <= y
<1>1. PICK x \in T : \A y \in T : <<y, x>> \notin OpToRel(<, Nat)
  BY NatLessThanWellFounded, WFMin, Zenon
<1>2. \A y \in T : ~(y < x)
  BY <1>1, Zenon DEF OpToRel
<1> QED
  BY <1>2

(* What holds of 0 and, with n, of n + 1 holds of every number: otherwise  *)
(* the least number it does not hold of would not be one.                  *)
LEMMA CountUp ==
    ASSUME NEW G \in SUBSET Nat, 0 \in G, NEW m \in Nat,
           \A n \in 1 .. m : n - 1 \in G => n \in G
    PROVE  0 .. m \subseteq G
<1> DEFINE T == (0 .. m) \ G
<1> SUFFICES ASSUME T # {} PROVE FALSE
  OBVIOUS
<1>0. T \in SUBSET Nat
  OBVIOUS
<1>1. PICK x \in T : \A y \in T : x <= y
  <2> HIDE DEF T
  <2> QED
    BY <1>0, LeastElement
<1>2. x # 0 /\ x \in 1 .. m /\ x - 1 \in 0 .. m
  BY <1>1
<1>3. x - 1 \in G
  BY <1>1, <1>2
<1> QED
  BY <1>1, <1>2, <1>3

-----------------------------------------------------------------------------
(* The filter of a list: how it is computed ...                            *)
LEMMA TagsComputed ==
    ASSUME NEW list \in LanguageLists
    PROVE  \E tags :
              /\ Tags(list) = tags[Len(list)]
              /\ tags[0] = <<>>
              /\ \A n \in 1 .. Len(list) :
                    tags[n] = IF list[n] = Junk THEN tags[n - 1]
                              ELSE Append(tags[n - 1], list[n])
<1> DEFINE step(f, n) == IF n = 0 THEN <<>>
                         ELSE IF list[n] = Junk THEN f[n - 1]
                              ELSE Append(f[n - 1], list[n])
           upTo(f, m) == f = [n \in 0 .. m |-> step(f, n)]
           G == {m \in Nat : \E f : upTo(f, m)}
<1>1. Len(list) \in Nat
  BY LenProperties DEF LanguageLists
<1>2. 0 \in G
  <2> DEFINE f == [n \in 0 .. 0 |-> <<>>]
  <2>1. upTo(f, 0)
    OBVIOUS
  <2> QED
    BY <2>1
<1>3. ASSUME NEW m \in 1 .. Len(list), m - 1 \in G PROVE m \in G
  <2>1. PICK f : upTo(f, m - 1)
    BY <1>3
  <2> DEFINE g == [n \in 0 .. m |-> IF n = m THEN step(f, m) ELSE f[n]]
  <2>2. \A n \in 0 .. m : n # m => n \in 0 .. (m - 1)
    BY <1>1
  <2>3. ASSUME NEW n \in 0 .. m PROVE g[n] = step(g, n)
    <3>1. CASE n = 0
      <4>1. n \in 0 .. (m - 1) /\ n # m
        BY <3>1, <1>1
      <4>2. g[n] = f[n] /\ f[n] = <<>>
        BY <3>1, <4>1, <2>1
      <4> QED
        BY <3>1, <4>2
    <3>2. CASE n # 0
      <4>1. n - 1 \in 0 .. m /\ n - 1 # m
        BY <3>2, <1>1
      <4>2. g[n - 1] = f[n - 1]
        BY <4>1
      <4>3. CASE n = m
        BY <3>2, <4>2, <4>3
      <4>4. CASE n # m
        <5>1. g[n] = f[n] /\ f[n] = step(f, n)
          BY <2>1, <2>2, <4>4
        <5> QED
          BY <3>2, <4>2, <5>1
      <4> QED
        BY <4>3, <4>4
    <3> QED
      BY <3>1, <3>2
  <2>4. g = [n \in 0 .. m |-> g[n]]
    OBVIOUS
  <2> HIDE DEF g, step
  <2>5. upTo(g, m)
    BY <2>3, <2>4
  <2>6. \E h : upTo(h, m)
    BY <2>5
  <2> QED
    BY <2>6, <1>1
<1>4. \E f : upTo(f, Len(list))
  <2> HIDE DEF upTo
  <2>1. G \in SUBSET Nat
    OBVIOUS
  <2>2. 0 .. Len(list) \subseteq G
    <3> HIDE DEF G
    <3> QED
      BY <1>1, <1>2, <1>3, <2>1, CountUp
  <2> QED
    BY <1>1, <2>2
<1> DEFINE tags == CHOOSE f : upTo(f, Len(list))
<1>5. upTo(tags, Len(list))
  <2> HIDE DEF upTo
  <2> QED
    BY <1>4
<1>6. Tags(list) = tags[Len(list)]
  BY DEF Tags
<1>7. \A n \in 0 .. Len(list) : tags[n] = step(tags, n)
  <2> HIDE DEF tags
  <2> QED
    BY <1>5
<1> HIDE DEF tags
<1>8. tags[0] = <<>>
  BY <1>1, <1>7
<1>9. \A n \in 1 .. Len(list) : tags[n] = IF list[n] = Junk THEN tags[n - 1]
                                           ELSE Append(tags[n - 1], list[n])
  BY <1>1, <1>7
<1> QED
  BY <1>6, <1>8, <1>9

(* ... and what it returns: tags, each of them an item of the list.        *)
LEMMA TagsProperties ==
    ASSUME NEW list \in LanguageLists
    PROVE  /\ Tags(list) \in Seq(Tag)
           /\ Range(Tags(list)) \subseteq Range(list)
<1>1. PICK tags : /\ Tags(list) = tags[Len(list)]
                  /\ tags[0] = <<>>
                  /\ \A n \in 1 .. Len(list) :
                        tags[n] = IF list[n] = Junk THEN tags[n - 1]
                                  ELSE Append(tags[n - 1], list[n])
  BY TagsComputed
<1>2. Len(list) \in Nat /\ DOMAIN list = 1 .. Len(list)
      /\ \A n \in 1 .. Len(list) : list[n] \in Tag \cup {Junk} /\ list[n] \in Range(list)
  BY LenProperties, ElementOfSeq DEF LanguageLists, Range
<1> DEFINE Items == Tag \cap Range(list)
           G == {n \in Nat : tags[n] \in Seq(Items)}
<1>3. 0 \in G
  BY <1>1, EmptySeq
<1>4. ASSUME NEW n \in 1 .. Len(list), n - 1 \in G PROVE n \in G
  <2>1. tags[n - 1] \in Seq(Items) /\ n \in Nat
    BY <1>4
  <2>2. CASE list[n] = Junk
    BY <1>1, <2>1, <2>2
  <2>3. CASE list[n] # Junk
    <3>1. list[n] \in Items
      BY <1>2, <2>3
    <3> HIDE DEF Items
    <3>2. Append(tags[n - 1], list[n]) \in Seq(Items)
      BY <2>1, <3>1, AppendProperties
    <3> QED
      BY <1>1, <2>1, <2>3, <3>2
  <2> QED
    BY <2>2, <2>3
<1>5. 0 .. Len(list) \subseteq G
  <2>1. G \in SUBSET Nat
    OBVIOUS
  <2> HIDE DEF G
  <2> QED
    BY <1>2, <1>3, <1>4, <2>1, CountUp
<1>6. Tags(list) \in Seq(Items)
  BY <1>1, <1>2, <1>5
<1>7. Tags(list) \in Seq(Tag)
  BY <1>6, SeqMonotonic
<1>8. Range(Tags(list)) \subseteq Items
  BY <1>6, RangeOfSeq
<1> QED
  BY <1>7, <1>8

-----------------------------------------------------------------------------
(* What the provers need to know of the filter and of the screens.         *)

(* The first tag of a list with a tag is one of its items, and no junk.    *)
LEMMA FirstTag ==
    ASSUME NEW list \in LanguageLists, Tags(list) # <<>>
    PROVE  /\ Tags(list) \in Seq(Tag) /\ Len(Tags(list)) \in Nat \ {0}
           /\ Head(Tags(list)) \in Tag
           /\ Head(Tags(list)) \in Range(list)
           /\ Base(Head(Tags(list))) \in Tag
<1> DEFINE tags == Tags(list)
<1>1. tags \in Seq(Tag) /\ Range(tags) \subseteq Range(list)
  BY TagsProperties
<1> HIDE DEF tags
<1>2. Len(tags) \in Nat \ {0} /\ Head(tags) = tags[1] /\ DOMAIN tags = 1 .. Len(tags)
  BY <1>1, EmptySeq, LenProperties DEF tags
<1>3. Head(tags) \in Tag /\ Head(tags) \in Range(tags)
  BY <1>1, <1>2, ElementOfSeq DEF Range
<1>4. Head(Head(tags)) \in STRING
  BY <1>3, HeadTailProperties DEF Tag
<1>5. Base(Head(tags)) \in Tag
  BY <1>4 DEF Base, Tag
<1> QED
  BY <1>1, <1>2, <1>3, <1>5 DEF tags

(* The list for Accept-Language: the tags in order, and the bare language  *)
(* of the first.                                                           *)
LEMMA AcceptProperties ==
    ASSUME NEW list \in LanguageLists, Tags(list) # <<>>
    PROVE  /\ Head(Accept(list)) = Head(Tags(list))
           /\ IsPrefix(Tags(list), Accept(list))
           /\ Base(Head(Tags(list))) \in Range(Accept(list))
           /\ Len(Accept(list)) - Len(Tags(list)) =
                 IF Base(Head(Tags(list))) \in Range(Tags(list)) THEN 0 ELSE 1
           /\ Junk \notin Range(Accept(list))
<1> DEFINE tags == Tags(list)
           base == Base(Head(tags))
<1>1. tags \in Seq(Tag) /\ Len(tags) \in Nat \ {0} /\ base \in Tag
  BY FirstTag
<1>2. Accept(list) = IF base \in Range(tags) THEN tags ELSE Append(tags, base)
  BY DEF Accept
<1> HIDE DEF tags, base
<1>3. CASE base \in Range(tags)
  <2>1. Accept(list) = tags
    BY <1>2, <1>3
  <2>2. Range(tags) \subseteq Tag
    BY <1>1, RangeOfSeq
  <2>3. IsPrefix(tags, tags)
    BY <1>1 DEF IsPrefix
  <2>4. Len(tags) - Len(tags) = 0
    BY <1>1
  <2> QED
    BY <1>3, <2>1, <2>2, <2>3, <2>4, LaunchAssumption DEF tags, base
<1>4. CASE base \notin Range(tags)
  <2> DEFINE list2 == Append(tags, base)
  <2>1. /\ list2 \in Seq(Tag) /\ Len(list2) = Len(tags) + 1
        /\ \A i \in 1 .. Len(tags) : list2[i] = tags[i]
        /\ list2[Len(tags) + 1] = base
    BY <1>1, AppendProperties
  <2>2. list2 = tags \o <<base>> /\ <<base>> \in Seq(Tag)
    BY <1>1, AppendIsConcat
  <2>3. SubSeq(list2, 1, Len(tags)) = SubSeq(tags, 1, Len(tags))
    <3>1. 1 \in 1 .. Len(tags) /\ Len(tags) \in 1 .. Len(tags)
      BY <1>1
    <3> QED
      BY <1>1, <2>2, <3>1, SubSeqOfConcat1
  <2> HIDE DEF list2
  <2>4. IsPrefix(tags, list2)
    BY <1>1, <2>1, <2>3 DEF IsPrefix
  <2>5. Head(list2) = list2[1] /\ Head(tags) = tags[1] /\ 1 \in 1 .. Len(tags)
    BY <1>1, <2>1
  <2>6. Range(list2) \subseteq Tag /\ base \in Range(list2)
    BY <1>1, <2>1, RangeOfSeq, LenProperties DEF Range
  <2>7. Accept(list) = list2
    BY <1>2, <1>4 DEF list2
  <2>8. Len(list2) - Len(tags) = 1
    BY <1>1, <2>1
  <2> QED
    BY <1>4, <2>1, <2>4, <2>5, <2>6, <2>7, <2>8, LaunchAssumption DEF tags, base
<1> QED
  BY <1>3, <1>4

(* The list a session speaks, its own or the server's, has a tag.          *)
LEMMA LanguageHasTag ==
    ASSUME NEW options, NEW cfg,
           options.acceptLanguage \in LanguageLists \cup {NONE},
           cfg.language \in LanguageLists \cup {NONE},
           Language(options, cfg) # NONE
    PROVE  /\ Language(options, cfg) \in LanguageLists
           /\ Tags(Language(options, cfg)) # <<>>
  BY DEF Language

(* The first screen a window fits on, if there is one.                     *)
LEMMA ScreenFits ==
    ASSUME NEW viewport \in Viewport
    PROVE  Fits(Window(viewport), Screen(viewport))
<1> DEFINE window == Window(viewport)
           I == {i \in 1 .. Len(ScreenSizes) : Fits(window, ScreenSizes[i])}
           first == IF I # {} THEN Min(I) ELSE 0
<1>1. Screen(viewport) = IF first = 0 THEN window ELSE ScreenSizes[first]
  BY Zenon DEF Screen, SelectInSeq
<1>2. window.width \in Nat /\ window.height \in Nat
  BY DEF Window, Viewport, ChromeHeight
<1>3. CASE first = 0
  BY <1>1, <1>2, <1>3 DEF Fits
<1>4. CASE first # 0
  <2>1. I \in SUBSET Nat /\ I # {} /\ first = Min(I)
    BY <1>4 DEF ScreenSizes
  <2> HIDE DEF I
  <2>2. \E i \in I : \A j \in I : i <= j
    BY <2>1, LeastElement
  <2>3. first \in I
    BY <2>1, <2>2, Zenon DEF Min
  <2> QED
    BY <1>1, <1>4, <2>3 DEF I
<1> QED
  BY <1>3, <1>4

-----------------------------------------------------------------------------
(* The inductive invariant.                                                *)

(* The stages in which main listens.                                       *)
Listening == stage \in {"preparing", "confirming", "ready", "stopping"}

(* The environment and the request are among those there can be.           *)
InputsOK ==
    /\ \E start \in Starts : env = start.env
    /\ request # NONE => request \in Clients

(* The configuration is what from_env makes of the environment.            *)
ConfigFollows ==
    Listening => /\ config.token = Token(env)
                 /\ config.language = Value(env.language, NONE)

(* The binary that will be launched, and what is there to be launched.     *)
BinaryChosen ==
    Listening =>
        /\ Given(env.chromePath) => config.path = env.chromePath
        /\ ~Given(env.chromePath) /\ Mounted \in files => config.path = Mounted
        /\ ~Given(env.chromePath) /\ config.path = Bundled => ~Given(env.archiveUrl)
        /\ config.engine = "downloaded" => config.path = Installed

FilesKnown ==
    /\ stage = "boot" => files \subseteq {Bundled, Mounted, env.chromePath}
    /\ Installed \in files => \/ env.chromePath = Installed
                              \/ stage # "boot" /\ config.path = Installed

(* The answer 401 is the verdict on the token, and only a request that is  *)
(* valid goes on.                                                          *)
AnswerFollows ==
    request # NONE =>
        /\ Listening
        /\ answer = "Unauthorized" <=> ~IsAuthorized(config.token, request)
        /\ answer = NONE => Valid(request.options)

CommandFollows ==
    Launched => /\ request # NONE
                /\ Valid(request.options)
                /\ browser = Command(request.options, config, env.tz)

AdmissionInv ==
    /\ InputsOK /\ ConfigFollows /\ LimitsUsable
    /\ BinaryChosen /\ FilesKnown
    /\ AnswerFollows /\ CommandFollows

-----------------------------------------------------------------------------
(* What from_env returns, when it does.                                    *)

LEMMA MarkersApart == NONE \notin Tokens /\ NONE \notin Answers
  BY ConfigAssumption, AdmissionAssumption

LEMMA Fields ==
    ASSUME NEW e, NEW fs
    PROVE  /\ FromEnv(e, fs).port = Value(e.port, 3000)
           /\ FromEnv(e, fs).token = Token(e)
           /\ FromEnv(e, fs).sessions = Value(e.sessions, 10)
           /\ FromEnv(e, fs).queue = Value(e.queue, 20)
           /\ \A d \in Durations : FromEnv(e, fs).ms[d] = Value(e.ms[d], DefaultMs[d])
           /\ FromEnv(e, fs).engine = Binary(e, fs).engine
           /\ FromEnv(e, fs).path = Binary(e, fs).path
           /\ FromEnv(e, fs).language = Value(e.language, NONE)
  BY DEF FromEnv

LEMMA ValueParsed ==
    ASSUME NEW raw, NEW type, NEW default \in type, Parses(raw, type)
    PROVE  Value(raw, default) \in type
  BY DEF Parses, Value

LEMMA NumbersUsable ==
    ASSUME NEW e, NEW fs, Acceptable(e, fs)
    PROVE  /\ FromEnv(e, fs).port \in Ports
           /\ FromEnv(e, fs).sessions \in Usize \ {0}
           /\ FromEnv(e, fs).queue \in Usize
           /\ \A d \in Durations : FromEnv(e, fs).ms[d] > 0
<1>1. 10 \in Usize \ {0} /\ 20 \in Usize
  <2>1. UsizeMax \in Nat /\ UsizeMax \div 8 >= 10
    BY ConfigAssumption
  <2>2. UsizeMax >= 80
    BY <2>1
  <2> QED
    BY <2>1, <2>2 DEF Usize
<1>2. 3000 \in Ports
  BY DEF Ports
<1>3. /\ Parses(e.port, Ports) /\ Parses(e.sessions, Usize \ {0})
      /\ Parses(e.queue, Usize)
  BY DEF Acceptable
<1>4. ASSUME NEW d \in Durations PROVE FromEnv(e, fs).ms[d] > 0
  <2>1. DefaultMs[d] \in Nat \ {0}
    BY DEF Durations, DefaultMs
  <2>2. Parses(e.ms[d], Nat \ {0})
    BY DEF Acceptable, Duration
  <2>3. Value(e.ms[d], DefaultMs[d]) \in Nat \ {0}
    BY <2>1, <2>2, ValueParsed
  <2> QED
    BY <2>3, Fields
<1>5. /\ Value(e.port, 3000) \in Ports /\ Value(e.sessions, 10) \in Usize \ {0}
      /\ Value(e.queue, 20) \in Usize
  BY <1>1, <1>2, <1>3, ValueParsed
<1> QED
  BY <1>4, <1>5, Fields

LEMMA BinaryFollows ==
    ASSUME NEW e, NEW fs
    PROVE  /\ Given(e.chromePath) => FromEnv(e, fs).path = e.chromePath
           /\ ~Given(e.chromePath) /\ Mounted \in fs => FromEnv(e, fs).path = Mounted
           /\ ~Given(e.chromePath) /\ FromEnv(e, fs).path = Bundled
                 => ~Given(e.archiveUrl)
           /\ FromEnv(e, fs).engine = "downloaded" => FromEnv(e, fs).path = Installed
<1>1. Bundled # Mounted /\ Bundled # Installed
  BY ConfigAssumption
<1>2. /\ Given(e.chromePath) => /\ Binary(e, fs).path = e.chromePath
                                /\ Binary(e, fs).engine = "custom"
      /\ ~Given(e.chromePath) /\ Mounted \in fs
            => Binary(e, fs).path = Mounted /\ Binary(e, fs).engine = "custom"
      /\ ~Given(e.chromePath) /\ Mounted \notin fs /\ Given(e.archiveUrl)
            => Binary(e, fs).path = Installed
      /\ ~Given(e.chromePath) /\ Mounted \notin fs /\ ~Given(e.archiveUrl)
            => Binary(e, fs).path = Bundled /\ Binary(e, fs).engine = "chromium"
  BY DEF Binary
<1> QED
  BY <1>1, <1>2, Fields

-----------------------------------------------------------------------------
(* The invariant holds first and is kept by every step.                    *)

LEMMA AdmissionInit == Init => AdmissionInv
<1> SUFFICES ASSUME Init PROVE AdmissionInv
  OBVIOUS
<1>1. PICK start \in Starts : env = start.env /\ files = start.files
  BY DEF Init
<1>2. files \subseteq {Bundled, Mounted, env.chromePath}
  BY <1>1, AdmissionAssumption
<1>3. Installed \in files => env.chromePath = Installed
  BY <1>2, ConfigAssumption
<1>4. stage = "boot" /\ request = NONE /\ browser = NONE
  BY DEF Init
<1> QED
  BY <1>1, <1>2, <1>3, <1>4
     DEF AdmissionInv, InputsOK, ConfigFollows, LimitsUsable, BinaryChosen, Listening,
         FilesKnown, AnswerFollows, CommandFollows, Launched

(* main reads the environment once, before it listens.                     *)
LEMMA BootStep ==
    ASSUME AdmissionInv, Boot
    PROVE  /\ ConfigFollows' /\ LimitsUsable' /\ BinaryChosen' /\ FilesKnown'
           /\ request = NONE /\ browser = NONE
<1>1. /\ stage = "boot" /\ UNCHANGED <<env, files, request, answer, browser>>
      /\ stage' \in {"preparing", "exited"}
  BY DEF Boot
<1>2. request = NONE /\ browser = NONE
  BY <1>1 DEF AdmissionInv, AnswerFollows, CommandFollows, Launched, Listening
<1>3. files \subseteq {Bundled, Mounted, env.chromePath}
  BY <1>1 DEF AdmissionInv, FilesKnown
<1>4. FilesKnown'
  BY <1>1, <1>3, ConfigAssumption DEF FilesKnown
<1>5. CASE stage' = "exited"
  BY <1>2, <1>4, <1>5 DEF ConfigFollows, LimitsUsable, BinaryChosen, Listening
<1>6. CASE stage' = "preparing"
  <2>1. /\ Acceptable(env, files) /\ config' = FromEnv(env, files)
        /\ config'.sessions <= MaxPermits
    BY <1>6 DEF Boot
  <2>2. ConfigFollows'
    BY <1>1, <2>1, Fields DEF ConfigFollows
  <2>3. /\ config'.port \in Ports /\ config'.sessions \in Usize \ {0}
        /\ config'.queue \in Usize /\ \A d \in Durations : config'.ms[d] > 0
    BY <2>1, NumbersUsable
  <2>4. config'.sessions \in 1 .. MaxPermits
    <3>1. UsizeMax \in Nat
      BY ConfigAssumption
    <3>2. MaxPermits \in Nat
      BY <3>1 DEF MaxPermits
    <3> QED
      BY <2>1, <2>3, <3>1, <3>2 DEF Usize
  <2>5. LimitsUsable'
    BY <2>3, <2>4 DEF LimitsUsable
  <2>6. BinaryChosen'
    BY <1>1, <2>1, BinaryFollows DEF BinaryChosen
  <2> QED
    BY <1>2, <1>4, <2>2, <2>5, <2>6
<1> QED
  BY <1>1, <1>5, <1>6

(* The binary is prepared and looked at, a signal comes, a file goes away. *)
LEMMA PreparationStep ==
    ASSUME AdmissionInv, Prepare \/ Confirm \/ Stop \/ RemoveFile
    PROVE  AdmissionInv'
<1>1. /\ UNCHANGED <<env, config, request, answer, browser>>
      /\ Listening' <=> Listening
      /\ stage' = "boot" <=> stage = "boot"
  BY DEF Prepare, Confirm, Stop, RemoveFile, Listening
<1>2. files' \subseteq files \/ (config.path = Installed /\ files' = files \cup {Installed}
                                  /\ Listening)
  BY DEF Prepare, Confirm, Stop, RemoveFile, Listening, AdmissionInv, BinaryChosen
<1>3. BinaryChosen'
  BY <1>1, <1>2, ConfigAssumption DEF AdmissionInv, BinaryChosen
<1>4. FilesKnown'
  BY <1>1, <1>2 DEF AdmissionInv, FilesKnown, Listening
<1>5. InputsOK' /\ ConfigFollows' /\ LimitsUsable' /\ CommandFollows'
  BY <1>1 DEF AdmissionInv, InputsOK, ConfigFollows, LimitsUsable, CommandFollows,
              Launched, Listening
<1>6. AnswerFollows'
  BY <1>1 DEF AdmissionInv, AnswerFollows
<1> QED
  BY <1>3, <1>4, <1>5, <1>6 DEF AdmissionInv

(* The request comes, is refused later, or gets its browser.               *)
LEMMA RequestStep ==
    ASSUME AdmissionInv, Arrive \/ Reject \/ Launch
    PROVE  AdmissionInv'
<1>1. UNCHANGED <<env, files, stage, config>>
  BY DEF Arrive, Reject, Launch
<1>2. ConfigFollows' /\ LimitsUsable' /\ BinaryChosen' /\ FilesKnown'
  BY <1>1 DEF AdmissionInv, ConfigFollows, LimitsUsable, BinaryChosen, FilesKnown,
              Listening
<1>3. CASE Arrive
  <2>1. /\ request = NONE /\ request' \in Clients /\ browser' = browser
        /\ answer' = Refusal(request') /\ Listening
    BY <1>3 DEF Arrive, Listening
  <2>2. browser = NONE
    BY <2>1 DEF AdmissionInv, CommandFollows, Launched
  <2>3. /\ answer' = "Unauthorized" <=> ~IsAuthorized(config.token, request')
        /\ answer' = NONE => Valid(request'.options)
    BY <2>1, MarkersApart DEF Refusal, Answers, StatusCode
  <2> QED
    BY <1>1, <1>2, <2>1, <2>2, <2>3
       DEF AdmissionInv, InputsOK, AnswerFollows, CommandFollows, Launched, Listening
<1>4. CASE Reject
  <2>1. UNCHANGED <<request, browser>> /\ Admitted
        /\ answer' # "Unauthorized" /\ answer' # NONE
    BY <1>4, MarkersApart DEF Reject, Answers, StatusCode
  <2>2. answer # "Unauthorized" /\ browser = NONE /\ request # NONE
    BY <2>1, MarkersApart DEF Admitted, Answers, StatusCode
  <2> QED
    BY <1>1, <1>2, <2>1, <2>2
       DEF AdmissionInv, InputsOK, AnswerFollows, CommandFollows, Launched, Listening
<1>5. CASE Launch
  <2>1. /\ request' = request /\ Admitted /\ answer' = "SwitchingProtocols"
        /\ browser' = Command(request.options, config, env.tz)
    BY <1>5 DEF Launch
  <2>2. /\ answer # "Unauthorized" /\ answer = NONE /\ request # NONE
        /\ answer' # "Unauthorized" /\ answer' # NONE
    BY <2>1, MarkersApart DEF Admitted, Answers, StatusCode
  <2>3. Valid(request.options)
    BY <2>2 DEF AdmissionInv, AnswerFollows
  <2>4. InputsOK' /\ AnswerFollows'
    BY <1>1, <2>1, <2>2 DEF AdmissionInv, InputsOK, AnswerFollows, Listening
  <2>5. CommandFollows'
    BY <1>1, <2>1, <2>2, <2>3 DEF CommandFollows, Launched
  <2> QED
    BY <1>2, <2>4, <2>5 DEF AdmissionInv
<1> QED
  BY <1>3, <1>4, <1>5

LEMMA AdmissionNext == AdmissionInv /\ [Next]_vars => AdmissionInv'
<1> SUFFICES ASSUME AdmissionInv, [Next]_vars PROVE AdmissionInv'
  OBVIOUS
<1>1. CASE Boot
  <2>1. UNCHANGED <<env, request, browser>>
    BY <1>1 DEF Boot
  <2> QED
    BY <1>1, <2>1, BootStep
       DEF AdmissionInv, InputsOK, AnswerFollows, CommandFollows, Launched
<1>2. CASE Prepare \/ Confirm \/ Stop \/ RemoveFile
  BY <1>2, PreparationStep
<1>3. CASE Arrive \/ Reject \/ Launch
  BY <1>3, RequestStep
<1>4. CASE UNCHANGED vars
  BY <1>4 DEF vars, AdmissionInv, InputsOK, ConfigFollows, LimitsUsable, BinaryChosen,
              FilesKnown, AnswerFollows, CommandFollows, Launched, Listening
<1> QED
  BY <1>1, <1>2, <1>3, <1>4 DEF Next

LEMMA AdmissionInvariant == Spec => []AdmissionInv
  BY AdmissionInit, AdmissionNext, PTL DEF Spec

-----------------------------------------------------------------------------
(* What an operator and a client rely on.                                  *)

(* Two tokens are the same, spaces aside, when they have the same text.    *)
LEMMA TokensCompared ==
    ASSUME NEW t \in Tokens, NEW u \in Tokens
    PROVE  /\ Trim(u) \in Tokens
           /\ Trim(t) = Trim(u) <=> t.text = u.text
           /\ t = Trim(u) => t.text = u.text
           /\ ~t.padded /\ t.text = u.text => t = Trim(u)
<1>1. ASSUME NEW v \in Tokens
      PROVE  Trim(v) \in Tokens /\ ~Trim(v).padded /\ Trim(v).text = v.text
  BY DEF Trim, Tokens
<1>2. ASSUME NEW v \in Tokens, ~v.padded
      PROVE  v = [text |-> v.text, padded |-> FALSE]
  BY <1>2 DEF Tokens
<1>3. /\ Trim(t) = [text |-> t.text, padded |-> FALSE]
      /\ Trim(u) = [text |-> u.text, padded |-> FALSE]
  BY <1>1, <1>2
<1> QED
  BY <1>1, <1>2, <1>3

(* .env.example:7-9, auth.rs:20-33: whoever brings the secret in the query *)
(* or, without a query token, in the header gets past the check of the     *)
(* token, whatever the spaces around TOKEN, the state of the server and    *)
(* the rest of the request; and nobody else does, not even with the secret *)
(* in the header behind another query token.                               *)
THEOREM SecretIsDecisive == Spec => []SecretDecides
<1>1. ASSUME AdmissionInv, request # NONE PROVE SecretDecides
  <2> DEFINE holds(token) ==
                 Given(env.token) /\ token # NONE /\ token.text = env.token.text
             refused == answer \in DOMAIN StatusCode /\ StatusCode[answer] = 401
             authorized == IsAuthorized(config.token, request)
  <2>1. PICK start \in Starts : env = start.env
    BY <1>1 DEF AdmissionInv, InputsOK
  <2>2. Given(env.token) => env.token \in Tokens
    BY <2>1, AdmissionAssumption DEF Given
  <2>3. request.query \in Tokens \cup {NONE} /\ request.bearer \in Tokens \cup {NONE}
    BY <1>1, AdmissionAssumption DEF AdmissionInv, InputsOK
  <2>4. refused <=> ~authorized
    <3>1. refused <=> answer = "Unauthorized"
      BY DEF StatusCode
    <3> QED
      BY <1>1, <3>1 DEF AdmissionInv, AnswerFollows
  <2>5. config.token = IF Given(env.token) THEN Trim(env.token) ELSE NONE
    BY <1>1 DEF AdmissionInv, ConfigFollows, AnswerFollows, Token
  <2>6. CASE ~Given(env.token)
    <3>1. authorized
      BY <2>5, <2>6 DEF IsAuthorized
    <3> QED
      BY <1>1, <2>4, <2>6, <3>1 DEF SecretDecides
  <2>7. CASE Given(env.token)
    <3>1. config.token = Trim(env.token) /\ config.token # NONE
      BY <2>2, <2>5, <2>7, TokensCompared, MarkersApart
    <3>2. authorized => \/ holds(request.query)
                        \/ request.query = NONE /\ holds(request.bearer)
      BY <2>2, <2>3, <2>7, <3>1, TokensCompared DEF IsAuthorized
    <3>3. holds(request.query) /\ ~request.query.padded => authorized
      BY <2>2, <2>3, <2>7, <3>1, TokensCompared DEF IsAuthorized
    <3>4. request.query = NONE /\ holds(request.bearer) => authorized
      BY <2>2, <2>3, <2>7, <3>1, TokensCompared DEF IsAuthorized
    <3> HIDE DEF authorized
    <3> QED
      BY <1>1, <2>4, <2>7, <3>2, <3>3, <3>4 DEF SecretDecides
  <2> QED
    BY <2>6, <2>7
<1>2. AdmissionInv => SecretDecides
  BY <1>1 DEF SecretDecides
<1> QED
  BY <1>2, AdmissionInvariant, PTL

(* README.md:129: CHROME_PATH, then a mounted browser, then the archive;   *)
(* and nothing is downloaded that will not run.                            *)
THEOREM BinaryIsPreferred == Spec => []BinaryPrecedence
<1>1. ASSUME AdmissionInv PROVE BinaryPrecedence
  <2>1. Launched => Listening /\ browser.path = config.path
    BY <1>1 DEF AdmissionInv, CommandFollows, AnswerFollows, Command
  <2>2. Installed \in files => env.chromePath = Installed \/ config.path = Installed
    BY <1>1 DEF AdmissionInv, FilesKnown
  <2> QED
    BY <1>1, <2>1, <2>2 DEF AdmissionInv, BinaryChosen, BinaryPrecedence
<1> QED
  BY <1>1, AdmissionInvariant, PTL

(* README.md:83: a server that listens has limits the gate, the relay and  *)
(* the timers can work with, whatever the environment.                     *)
THEOREM LimitsAreUsable == Spec => []LimitsUsable
<1>1. AdmissionInv => LimitsUsable
  BY DEF AdmissionInv
<1> QED
  BY <1>1, AdmissionInvariant, PTL

(* What is known of a browser that was launched.                           *)
LEMMA BrowserLaunched ==
    ASSUME AdmissionInv, Launched
    PROVE  /\ request.options.acceptLanguage \in LanguageLists \cup {NONE}
           /\ request.options.viewport \in Viewport \cup {NONE}
           /\ config.language \in LanguageLists \cup {NONE}
           /\ Valid(request.options)
           /\ browser = Command(request.options, config, env.tz)
<1>1. request \in Clients /\ Listening
  BY DEF AdmissionInv, InputsOK, CommandFollows, AnswerFollows
<1>2. PICK start \in Starts : env = start.env
  BY DEF AdmissionInv, InputsOK
<1>3. env.language \in LanguageLists \cup {NONE, Blank}
  BY <1>2, AdmissionAssumption
<1>4. config.language = IF Given(env.language) THEN env.language ELSE NONE
  BY <1>1 DEF AdmissionInv, ConfigFollows, Value
<1>5. config.language \in LanguageLists \cup {NONE}
  BY <1>3, <1>4 DEF Given
<1> QED
  BY <1>1, <1>5, AdmissionAssumption DEF AdmissionInv, CommandFollows

(* README.md:104, 105, 107: a session gets one of the languages and the    *)
(* zone it asks for, whatever the server's, and the server's TZ when it    *)
(* asks for none.                                                          *)
THEOREM SessionPrevails == Spec => []SessionWins
<1>1. ASSUME AdmissionInv, Launched PROVE SessionWins
  <2> DEFINE asked == request.options
             list == Language(asked, config)
  <2>1. /\ asked.acceptLanguage \in LanguageLists \cup {NONE} /\ Valid(asked)
        /\ browser = Command(asked, config, env.tz)
    BY <1>1, BrowserLaunched
  <2>2. /\ browser.lang = IF list = NONE THEN NONE ELSE Head(Tags(list))
        /\ browser.tz = Timezone(asked, config, env.tz)
    BY <2>1 DEF Command
  <2>3. ASSUME asked.acceptLanguage # NONE
        PROVE  browser.lang \in Range(asked.acceptLanguage)
    <3> HIDE DEF list, asked
    <3>0. asked.acceptLanguage \in LanguageLists
      BY <2>1, <2>3
    <3>1. Tags(asked.acceptLanguage) # <<>>
      BY <2>1, <2>3 DEF Valid
    <3>2. list = asked.acceptLanguage
      BY <2>3, <3>1 DEF Language, list
    <3>3. Head(Tags(asked.acceptLanguage)) \in Range(asked.acceptLanguage)
      BY <3>0, <3>1, FirstTag
    <3>4. list # NONE
      BY <2>3, <3>2
    <3> QED
      BY <2>2, <3>2, <3>3, <3>4
  <2>4. /\ asked.timezone # NONE => browser.tz = asked.timezone
        /\ asked.timezone = NONE /\ Given(env.tz) => browser.tz = env.tz
    BY <2>2 DEF Timezone
  <2> QED
    BY <2>3, <2>4 DEF SessionWins
<1>2. AdmissionInv => SessionWins
  BY <1>1 DEF SessionWins
<1> QED
  BY <1>2, AdmissionInvariant, PTL

(* chromium.rs:210-213: for every list of languages, Accept-Language starts *)
(* with the language of the user interface, keeps the valid tags in order, *)
(* and adds the bare language exactly when it is not among them.           *)
THEOREM AcceptListIsSound == Spec => []AcceptListSound
<1>1. ASSUME AdmissionInv, Launched, browser.lang # NONE PROVE AcceptListSound
  <2> DEFINE list == Language(request.options, config)
  <2>1. /\ request.options.acceptLanguage \in LanguageLists \cup {NONE}
        /\ config.language \in LanguageLists \cup {NONE}
        /\ browser = Command(request.options, config, env.tz)
    BY <1>1, BrowserLaunched
  <2>2. /\ browser.lang = IF list = NONE THEN NONE ELSE Head(Tags(list))
        /\ browser.accept = IF list = NONE THEN <<>> ELSE Accept(list)
    BY <2>1 DEF Command
  <2>3. list # NONE
    BY <1>1, <2>2
  <2>4. list \in LanguageLists /\ Tags(list) # <<>>
    BY <2>1, <2>3, LanguageHasTag
  <2>5. /\ Head(browser.accept) = browser.lang
        /\ IsPrefix(Tags(list), browser.accept)
        /\ Base(browser.lang) \in Range(browser.accept)
        /\ Len(browser.accept) - Len(Tags(list)) =
              IF Base(browser.lang) \in Range(Tags(list)) THEN 0 ELSE 1
        /\ Junk \notin Range(browser.accept)
    <3> HIDE DEF list
    <3> QED
      BY <2>2, <2>3, <2>4, AcceptProperties
  <2> QED
    BY <2>5 DEF AcceptListSound
<1>2. AdmissionInv => AcceptListSound
  BY <1>1 DEF AcceptListSound
<1> QED
  BY <1>2, AdmissionInvariant, PTL

(* README.md:57: the window of a headless browser leaves the page the      *)
(* viewport the session asks for and fits the emulated screen, also when   *)
(* none of the listed screens is large enough.                             *)
THEOREM WindowFits == Spec => []ScreenFitsWindow
<1>1. ASSUME AdmissionInv, Launched, config.headless PROVE ScreenFitsWindow
  <2> DEFINE asked == request.options.viewport
             viewport == IF asked = NONE THEN DefaultViewport ELSE asked
  <2>1. asked \in Viewport \cup {NONE}
        /\ browser = Command(request.options, config, env.tz)
    BY <1>1, BrowserLaunched
  <2>2. viewport \in Viewport
    BY <2>1 DEF DefaultViewport, Viewport
  <2>3. browser.window = Window(viewport) /\ browser.screen = Screen(viewport)
    BY <1>1, <2>1 DEF Command
  <2>4. Fits(browser.window, browser.screen)
    <3> HIDE DEF viewport
    <3> QED
      BY <2>2, <2>3, ScreenFits
  <2>5. browser.window.width = viewport.width
        /\ browser.window.height - ChromeHeight = viewport.height
    <3> HIDE DEF viewport
    <3> QED
      BY <2>2, <2>3 DEF Window, Viewport, ChromeHeight
  <2> QED
    BY <2>4, <2>5 DEF ScreenFitsWindow
<1>2. AdmissionInv => ScreenFitsWindow
  BY <1>1 DEF ScreenFitsWindow
<1> QED
  BY <1>2, AdmissionInvariant, PTL
=============================================================================
