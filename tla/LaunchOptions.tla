--------------------------- MODULE LaunchOptions ---------------------------
(***************************************************************************)
(* What a session asks of its browser and what the browser is told         *)
(* (chromium.rs): the validation of the launch options, and the language,  *)
(* time zone and window of the process that launch spawns, as functions of *)
(* the options, the configuration and the TZ of the server.                *)
(*                                                                         *)
(* A language tag is the sequence of its subtags, in a normal case; a list *)
(* of languages is the sequence of its items, which are tags or Junk.  An  *)
(* option that is not given is NONE, a malformed one is Junk.              *)
(***************************************************************************)
EXTENDS Config, Sequences, SequencesExt

CONSTANTS RegionZones,    \* time zone of each region the table knows
          LanguageZones,  \* time zone of each language the table knows
          Regions         \* two-letter subtags, known or not

Tag == Seq(STRING) \ {<<>>}
LanguageLists == Seq(Tag \cup {Junk})
Viewport == [width : Nat, height : Nat]

ASSUME LaunchAssumption == DOMAIN RegionZones \subseteq Regions /\ Junk \notin Tag

-----------------------------------------------------------------------------
(* language_args: the first tag and the list for Accept-Language, to which *)
(* the bare language of the first tag is added unless it is there.         *)
Tags(list) ==
    LET tags[n \in 0 .. Len(list)] ==    \* those among the first n items
          IF n = 0 THEN <<>>
          ELSE IF list[n] = Junk THEN tags[n - 1] ELSE Append(tags[n - 1], list[n])
    IN  tags[Len(list)]
Base(tag) == <<Head(tag)>>

(* Mutant: the bare language is added although the list has it.            *)
AcceptBaseAgain(list) == Append(Tags(list), Base(Head(Tags(list))))

Accept(list) ==
    IF Base(Head(Tags(list))) \in Range(Tags(list)) THEN Tags(list)
    ELSE Append(Tags(list), Base(Head(Tags(list))))

(* timezone_for_language: without a region in the tag the function returns *)
(* before it looks at the language.                                        *)
RegionOf(tag) == SelectSeq(Tail(tag), LAMBDA subtag : subtag \in Regions)

TimezoneForLanguage(tag) ==
    CASE RegionOf(tag) = <<>> -> NONE
      [] RegionOf(tag) # <<>> /\ Head(RegionOf(tag)) \in DOMAIN RegionZones
           -> RegionZones[Head(RegionOf(tag))]
      [] OTHER -> IF Head(tag) \in DOMAIN LanguageZones
                  THEN LanguageZones[Head(tag)] ELSE NONE

(* The session's list wins over LANGUAGE; a list without a tag counts for  *)
(* nothing, and then the process inherits LANGUAGE as it is.               *)
Language(options, config) ==
    LET list == IF options.acceptLanguage # NONE
                THEN options.acceptLanguage ELSE config.language
    IN  IF list = NONE THEN NONE ELSE IF Tags(list) = <<>> THEN NONE ELSE list

(* Mutant: the server's TZ wins over the session's.                        *)
TimezoneServerFirst(options, config, tz) ==
    IF Given(tz) THEN tz ELSE options.timezone

(* Session, server, language, UTC.                                         *)
Timezone(options, config, tz) ==
    CASE options.timezone # NONE -> options.timezone
      [] options.timezone = NONE /\ Given(tz) -> tz
      [] OTHER -> LET list == Language(options, config)
                      zone == IF list = NONE THEN NONE
                              ELSE TimezoneForLanguage(Head(Tags(list)))
                  IN  IF zone = NONE THEN "UTC" ELSE zone

-----------------------------------------------------------------------------
ChromeHeight == 87
DefaultViewport == [width |-> 1280, height |-> 720]
ScreenSizes == <<[width |-> 1920, height |-> 1080],
                 [width |-> 2560, height |-> 1440],
                 [width |-> 3840, height |-> 2160]>>

Window(viewport) == [viewport EXCEPT !.height = @ + ChromeHeight]
Fits(window, screen) == window.width <= screen.width /\ window.height <= screen.height

(* Mutant: the screen is chosen for the viewport, without the toolbar.     *)
ScreenOfViewport(viewport) ==
    LET first == SelectInSeq(ScreenSizes, LAMBDA s : Fits(viewport, s))
    IN  IF first = 0 THEN viewport ELSE ScreenSizes[first]

Screen(viewport) ==
    LET first == SelectInSeq(ScreenSizes, LAMBDA s : Fits(Window(viewport), s))
    IN  IF first = 0 THEN Window(viewport) ELSE ScreenSizes[first]

(* validate; rest is the proxy, the bypass list and the user agent.        *)
Valid(options) ==
    /\ options.timezone # Junk
    /\ options.acceptLanguage # NONE => Tags(options.acceptLanguage) # <<>>
    /\ options.rest # Junk
    /\ options.viewport # NONE => options.viewport.width \in 100 .. 7680
                                  /\ options.viewport.height \in 100 .. 4320

(* The executable, the arguments and the environment of the process.       *)
Command(options, config, tz) ==
    LET list == Language(options, config)
        viewport == IF options.viewport = NONE THEN DefaultViewport ELSE options.viewport
    IN  [path   |-> config.path,
         lang   |-> IF list = NONE THEN NONE ELSE Head(Tags(list)),
         accept |-> IF list = NONE THEN <<>> ELSE Accept(list),
         tz     |-> Timezone(options, config, tz),
         window |-> IF config.headless THEN Window(viewport) ELSE NONE,
         screen |-> IF config.headless THEN Screen(viewport) ELSE NONE]
=============================================================================
