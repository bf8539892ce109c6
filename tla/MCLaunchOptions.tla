-------------------------- MODULE MCLaunchOptions --------------------------
(* Model-checking instance of Admission: a few rows of the tables, the     *)
(* lists that tell the branches of language_args apart, viewports at both  *)
(* sides of every bound, and environments that differ from the defaults in *)
(* one number, in the binary, in the token or in what sessions inherit.    *)
EXTENDS Admission, TLC

MCRegionZones == "FR" :> "Europe/Paris" @@ "CA" :> "America/Toronto"
MCLanguageZones == "fr" :> "Europe/Paris" @@ "en" :> "America/New_York"
MCRegions == {"FR", "CA", "XX"}
Lists ==
    {<<<<"fr", "FR">>, <<"fr">>>>,              \* fr-FR,fr
     <<<<"fr", "FR">>>>,                        \* fr-FR
     <<<<"fr">>>>,                              \* fr
     <<<<"en", "Latn", "CA">>, Junk>>,          \* en-Latn-CA,!
     <<Junk, <<"en", "XX">>, <<"fr", "CA">>>>,  \* !,en-XX,fr-CA
     <<<<"br">>, <<"fr", "FR">>>>,              \* br,fr-FR
     <<Junk>>}
Viewports ==
    [width : {99, 100, 1920, 1921, 2560, 2561, 3840, 3841, 7680, 7681},
     height : {99, 100, 993, 994, 1353, 1354, 2073, 2074, 4320, 4321}]
TokenTexts == [text : {"secret", "guess"}, padded : BOOLEAN]

Defaults ==
    [host |-> NONE, port |-> NONE, token |-> NONE, sessions |-> NONE,
     queue |-> NONE, ms |-> [d \in Durations |-> NONE], headless |-> NONE,
     archiveUrl |-> NONE, archiveSha |-> NONE, chromePath |-> NONE,
     language |-> NONE, tz |-> NONE]
Numbers == {Blank, Junk, -1, 0, 1, MaxPermits, MaxPermits + 1, UsizeMax, UsizeMax + 1}

MCStarts ==
    LET numeric ==
          {[Defaults EXCEPT !.host = v] : v \in {Blank, Junk, "::1"}} \cup
          {[Defaults EXCEPT !.port = v] : v \in Numbers \cup {65535, 65536}} \cup
          {[Defaults EXCEPT !.sessions = v] : v \in Numbers} \cup
          {[Defaults EXCEPT !.queue = v] : v \in Numbers} \cup
          {[Defaults EXCEPT !.ms[d] = v] : d \in Durations, v \in {Blank, Junk, 0, 1}}
        binary ==
          {[Defaults EXCEPT !.chromePath = p, !.archiveUrl = u, !.archiveSha = h] :
             p \in {NONE, Blank, "chrome", Bundled, Installed}, u \in {NONE, Blank, Junk, "url"},
             h \in {NONE, Blank, Junk, "sha"}}
        token == {[Defaults EXCEPT !.token = t] :
                    t \in {Blank} \cup {x \in TokenTexts : x.text = "secret"}}
        inherited ==
          {[Defaults EXCEPT !.language = l, !.tz = z, !.headless = h] :
             l \in Lists \cup {NONE, Blank}, z \in {NONE, Blank, "Asia/Tokyo"},
             h \in {NONE, Junk, FALSE}}
    IN  [env : numeric \cup token \cup inherited, files : {{Bundled}}] \cup
        [env : binary, files : SUBSET {Bundled, Mounted}] \cup
        UNION {[env : {e \in binary : e.chromePath = p},
                files : {{p, Bundled}, {p, Bundled, Mounted}}] :
                 p \in {"chrome", Installed}}

MCClients ==
    LET plain == [acceptLanguage |-> NONE, timezone |-> NONE,
                  viewport |-> NONE, rest |-> NONE]
        languages == {[plain EXCEPT !.acceptLanguage = l, !.timezone = z] :
                        l \in Lists \cup {NONE}, z \in {NONE, Junk, "Europe/Berlin"}}
        sizes == {[plain EXCEPT !.viewport = v] : v \in Viewports}
        tokens == TokenTexts \cup {NONE, [text |-> "", padded |-> FALSE]}
    IN  [query : {NONE}, bearer : {NONE},
         options : languages \cup sizes \cup {[plain EXCEPT !.rest = Junk]}] \cup
        [query : tokens, bearer : tokens,
         options : {plain, [plain EXCEPT !.rest = Junk]}]
=============================================================================
