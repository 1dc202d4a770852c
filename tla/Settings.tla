------------------------------ MODULE Settings ------------------------------
(***************************************************************************)
(* The settings: loaded at boot, edited in a copy that Cancel throws away, *)
(* saved to the launch directory, to SYS-CONF on a memory card or to the   *)
(* override path, and shown in a language that may come from a file.  A    *)
(* launch key keeps the localized path of its function, "MISC/FileBrowser",*)
(* and is renamed when the language changes.                               *)
(*                                                                         *)
(* A path is the language it was written in and its function.  Languages   *)
(* share a word for MISC or not; the names of functions differ.  Key "ok"  *)
(* stands for Circle or Cross and the other keys up to START.  PathPad_Lock*)
(* is off.  Settings that are only copied are left out.                    *)
(***************************************************************************)
EXTENDS Integers, Sequences, FiniteSets

CONSTANTS MaxMoves      \* edits, saves, boots and changes of the media

VARIABLES media,        \* the cards and devices that are there
    cnfs,               \* the LAUNCHELF.CNF of each place
    wle                 \* the program
settingsVars == <<media, cnfs, wle>>

Builtin == {"english", "spanish"}
External == "file"
Keys == {"ok", "select", "esr"}
Always == {"ok"}                              \* renamed whatever its flag
Saved == {"ok", "select"}                     \* saved whatever its flag
Functions == {"FileBrowser", "Configure"}
Conf == <<"mc0:/SYS-CONF/", "mc1:/SYS-CONF/">>
Places == {"mass", "override", Conf[1], Conf[2]}
None == "none"
Path(l, f) == [lang |-> l, fn |-> f]
NoPath == Path(None, None)

(* initConfig: the settings of a program that finds no file.               *)
initConfig ==
    [language |-> "english", lang_file |-> FALSE, CNF_Path |-> FALSE,
     Misc |-> [lang |-> "english", slashes |-> 1],
     LK_Path |-> [k \in Keys |-> IF k = "ok" THEN Path("english", "FileBrowser") ELSE NoPath],
     LK_Flag |-> [k \in Keys |-> k = "ok"]]
(* What the user sees of the settings, whatever the language.              *)
Meaning(s) == <<[k \in Keys |-> s.LK_Path[k].fn], s.language, s.lang_file, s.CNF_Path>>

NoFile == [lines |-> -1, set |-> initConfig, meant |-> Meaning(initConfig), dead |-> {}]
Present(p) == p = "mass" \/ p \in media
Exists(p) == Present(p) /\ cnfs[p].lines >= 0
-----------------------------------------------------------------------------
(* The language.  The word of the language file is either MISC or its own. *)
Word(l) == IF l = External THEN wle.word ELSE IF l = "english" THEN "MISC" ELSE "VARIOS"
Below(path, misc) == \/ Word(path.lang) = Word(misc.lang) /\ misc.slashes = 1
                     \/ Word(path.lang) = "MISC"
isMiscLaunchNameAlias(path, misc) == path.lang \in {misc.lang, "english"}
Renamed(s, k) == /\ s.LK_Path[k] # NoPath
                 /\ k \in Always \/ s.LK_Flag[k]
                 /\ Below(s.LK_Path[k], s.Misc)
                 /\ isMiscLaunchNameAlias(s.LK_Path[k], s.Misc)
(* Variant: the keys are renamed after Misc.                               *)
MiscFirst(s, l) ==
    LET new == [s EXCEPT !.Misc = [lang |-> l, slashes |-> 1]]
    IN [new EXCEPT !.LK_Path = [k \in Keys |-> IF Renamed(new, k) THEN Path(l, @[k].fn) ELSE @[k]]]
updateLocalizedMiscPaths(s, l) ==
    [s EXCEPT !.LK_Path = [k \in Keys |-> IF Renamed(s, k) THEN Path(l, @[k].fn) ELSE @[k]],
              !.Misc = [lang |-> l, slashes |-> 1]]
(* Load_External_Language: a file that cannot be read leaves the built-in  *)
(* language.                                                               *)
LanguageOf(s) == IF s.lang_file /\ "language" \in media THEN External ELSE s.language
Load_External_Language(w) ==
    LET l == LanguageOf(w.setting)
    IN [w EXCEPT !.Lang_String = l, !.setting = updateLocalizedMiscPaths(@, l)]
Set_Language(w, l) ==
    [w EXCEPT !.Lang_String = l,
              !.setting = updateLocalizedMiscPaths([@ EXCEPT !.lang_file = FALSE, !.language = l], l)]
(* setLaunchKeys, before every drawing of the menu.                        *)
setLaunchKeys(s) ==
    IF s.LK_Flag["select"] THEN s
    ELSE [s EXCEPT !.LK_Path = [@ EXCEPT !["select"] = Path(s.Misc.lang, "Configure")]]
(* A key runs its function when its path is the one of the settings.       *)
Live(s, k) == s.LK_Path[k].lang = s.Misc.lang /\ s.Misc.slashes = 1
(* The keys that run nothing, and those that may.                          *)
Dead(s) == {k \in Keys : s.LK_Path[k] # NoPath /\ ~Live(s, k)}
Allowed == wle.excused \cup (IF wle.setting.LK_Flag["select"] THEN {} ELSE {"select"})
-----------------------------------------------------------------------------
(* The places.                                                             *)
Port(p) == IF p = Conf[1] THEN 0 ELSE IF p = Conf[2] THEN 1 ELSE -1
CheckMC == IF Conf[1] \in media THEN 0 ELSE IF Conf[2] \in media THEN 1 ELSE -11
getLaunchMcPort(dir) == IF Port(dir) >= 0 THEN Port(dir) ELSE IF CheckMC >= 0 THEN CheckMC ELSE 0
ConfOf(port) == Conf[port + 1]
(* Variant: the card with a file is not preferred.                         *)
PreferFree(w) ==
    LET wanted == {p \in {0, 1} : ~Exists(ConfOf(p))}
    IN IF wanted = {} THEN 0 ELSE CHOOSE p \in wanted : \A q \in wanted : p <= q
configGetPreferredSysconfPort(w) ==
    LET named == SelectSeq(<<Port(w.loaded), Port(w.bootdir), Port(w.dir)>>, LAMBDA p : p >= 0)
        having == {p \in {0, 1} : Exists(ConfOf(p))}
    IN IF named # <<>> /\ named[1] \in having THEN named[1]
       ELSE IF having # {} THEN IF having = {1} THEN 1 ELSE 0
       ELSE IF Port(w.bootdir) >= 0 THEN Port(w.bootdir) ELSE getLaunchMcPort(w.dir)
(* configBuildSaveTargets: the files that may be chosen.                   *)
SaveTargets(w) ==
    <<IF w.setting.CNF_Path THEN "override" ELSE None, w.bootdir, ConfOf(configGetPreferredSysconfPort(w))>>
configSaveTargetPrompt(w) == {SaveTargets(w)[i] : i \in 1..3} \ {None}
configSaveTargetIsDefaultable(t, i) == t # None /\ (i = 3 => CheckMC >= 0)
(* Variant: the cursor is on SYS-CONF whatever was loaded.                 *)
CursorOnSysconf(w) == SaveTargets(w)[IF CheckMC >= 0 THEN 3 ELSE 2]
(* configSelectInitialSaveTarget: where the cursor is.                     *)
configSelectInitialSaveTarget(w) ==
    LET ts == SaveTargets(w)
        ok == SelectSeq(<<1, 2, 3>>, LAMBDA i : configSaveTargetIsDefaultable(ts[i], i))
        is(i) == \E n \in DOMAIN ok : ok[n] = i
        first(order) == SelectSeq(order, is)
        loaded == {i \in {1, 2, 3} : is(i) /\ w.loaded = ts[i]}
    IN IF w.setting.CNF_Path /\ w.loaded = ts[2] THEN ts[1]
       ELSE IF loaded # {} THEN w.loaded
       ELSE IF w.loaded = None THEN ts[Head(first(<<3, 2, 1>>))]
       ELSE ts[Head(first(<<1, 2, 3>>))]
-----------------------------------------------------------------------------
(* The file.  Its lines come in three groups: the launch keys; Misc and    *)
(* its functions; the rest.                                                *)
Store(s) == [s EXCEPT !.LK_Path = [k \in Keys |-> IF k \in Saved \/ s.LK_Flag[k] THEN @[k] ELSE NoPath],
                      !.LK_Flag = [k \in Keys |-> k \in Saved \/ s.LK_Flag[k]]]
FirstFile == LET s == setLaunchKeys(initConfig)
             IN [lines |-> 3, set |-> Store(s), meant |-> Meaning(s), dead |-> {}]
get_CNF_string(f, group) == f.lines >= group
preloadCNFFd(f) == get_CNF_string(f, 1)
(* loadConfig over the lines that are there.  Misc gets a slash more.      *)
Parsed(f) ==
    LET s == f.set
        keys == [initConfig EXCEPT !.LK_Path = [k \in Keys |-> IF s.LK_Flag[k] THEN s.LK_Path[k] ELSE @[k]],
                                   !.LK_Flag = [k \in Keys |-> s.LK_Flag[k] \/ @[k]]]
        misc == IF get_CNF_string(f, 2) THEN [keys EXCEPT !.Misc = [s.Misc EXCEPT !.slashes = @ + 1]] ELSE keys
    IN IF get_CNF_string(f, 3)
       THEN [misc EXCEPT !.language = s.language, !.lang_file = s.lang_file, !.CNF_Path = s.CNF_Path]
       ELSE misc
(* Variant: only the port of the launch directory is tried.                *)
OnePort(bootdir) == <<bootdir, ConfOf(getLaunchMcPort(bootdir))>>
SearchOrder(bootdir) ==
    LET port == getLaunchMcPort(bootdir) IN <<bootdir, ConfOf(port), ConfOf(1 - port)>>
Found(bootdir) ==
    LET there == SelectSeq(SearchOrder(bootdir), Exists) IN IF there = <<>> THEN None ELSE Head(there)

validateConfiguredCnfPath(s, dir) == IF s.CNF_Path THEN "override" ELSE dir
(* performEarlyBootInitialization and what follows up to the menu.  The    *)
(* keys that are dead now are excused when the file ends early, when the   *)
(* language it was saved in is gone, or when they were saved so.           *)
Boot ==
    LET p == Found(wle.bootdir)
        found == p # None /\ preloadCNFFd(cnfs[p])
        file == IF found THEN cnfs[p] ELSE NoFile
        set == IF found THEN Parsed(file) ELSE initConfig
        w == Load_External_Language([wle EXCEPT !.setting = set, !.Lang_String = "english"])
        gone == found /\ (file.lines < 3 \/ file.set.Misc.lang # w.Lang_String)
    IN /\ wle.at = "off" /\ wle.moves > 0
       /\ wle' = [w EXCEPT !.at = "menu", !.moves = @ - 1,
                    !.setting = setLaunchKeys(@),
                    !.loaded = IF found THEN p ELSE None,
                    !.dir = validateConfiguredCnfPath(w.setting, IF p # None THEN p ELSE w.bootdir),
                    !.excused = IF gone THEN Keys ELSE file.dead,
                    !.strayed = FALSE, !.expected = None,
                    !.missed = w.expected # None /\ (~found \/ p # w.expected),
                    !.changed = found /\ file.lines = 3 /\ Meaning(setLaunchKeys(w.setting)) # file.meant]
       /\ UNCHANGED <<media, cnfs>>
PowerOff ==
    /\ wle.at # "off"
    /\ wle' = [wle EXCEPT !.at = "off", !.setting = initConfig, !.tmpsetting = initConfig,
                          !.Lang_String = "english", !.loaded = None, !.dir = wle.bootdir,
                          !.excused = {}, !.missed = FALSE, !.changed = FALSE]
    /\ UNCHANGED <<media, cnfs>>
Media ==
    /\ wle.moves > 0
    /\ \E m \in {"override", "language", Conf[1], Conf[2]} :
           media' = IF m \in media THEN media \ {m} ELSE media \cup {m}
    /\ wle' = [wle EXCEPT !.moves = @ - 1, !.strayed = TRUE, !.expected = None]
    /\ UNCHANGED cnfs
-----------------------------------------------------------------------------
(* The menu, and the settings that are edited.                             *)
ToMenu(w) == [w EXCEPT !.at = "menu", !.tmpsetting = initConfig, !.setting = setLaunchKeys(@)]
Configure ==
    /\ wle.at = "menu"
    /\ \E k \in Keys : Live(wle.setting, k) /\ wle.setting.LK_Path[k].fn \in Functions
    /\ LET w == Load_External_Language(wle)
       IN wle' = [w EXCEPT !.at = "config", !.tmpsetting = w.setting]
    /\ UNCHANGED <<media, cnfs>>
Edit(w) ==
    /\ wle.at = "config" /\ wle.moves > 0 /\ w # wle
    /\ wle' = [w EXCEPT !.moves = @ - 1]
    /\ UNCHANGED <<media, cnfs>>
With(s) == [wle EXCEPT !.setting = s]
Key(k, path, flag) ==
    Edit(With([wle.setting EXCEPT !.LK_Path = [@ EXCEPT ![k] = path], !.LK_Flag = [@ EXCEPT ![k] = flag]]))
BrowseKey == \E f \in Functions : Key("ok", Path(wle.Lang_String, f), wle.setting.LK_Flag["ok"])
ClearKey == Key("ok", NoPath, wle.setting.LK_Flag["ok"])
BrowseEsr == \E f \in Functions : Key("esr", Path(wle.Lang_String, f), TRUE)
ClearEsr == Key("esr", NoPath, FALSE)
ChangeLanguage == \E l \in Builtin \ {wle.setting.language} : Edit(Set_Language(wle, l))
(* Variant: the keys are not renamed when a language file is chosen.       *)
BrowseQuietly ==
    /\ "language" \in media /\ ~wle.setting.lang_file
    /\ Edit([wle EXCEPT !.setting = [@ EXCEPT !.lang_file = TRUE, !.Misc = [lang |-> External, slashes |-> 1]],
                        !.Lang_String = External])
BrowseLanguage ==
    /\ "language" \in media
    /\ Edit(Load_External_Language(With([wle.setting EXCEPT !.lang_file = TRUE])))
ClearLanguage == Edit(Load_External_Language(With([wle.setting EXCEPT !.lang_file = FALSE])))
ChooseOverride ==
    \/ "override" \in media /\ ~wle.setting.CNF_Path /\ Edit(With([wle.setting EXCEPT !.CNF_Path = TRUE]))
    \/ wle.setting.CNF_Path /\ Edit(With([wle.setting EXCEPT !.CNF_Path = FALSE]))
Config_Startup == \/ ChangeLanguage \/ BrowseLanguage \/ ClearLanguage \/ ChooseOverride
                  \/ BrowseEsr \/ ClearEsr
(* Variant: Cancel leaves the language as it is.                           *)
CancelKeepsLanguage ==
    /\ wle.at = "config"
    /\ wle' = ToMenu([wle EXCEPT !.setting = wle.tmpsetting])
    /\ UNCHANGED <<media, cnfs>>
Cancel ==
    /\ wle.at = "config"
    /\ wle' = ToMenu(Load_External_Language([wle EXCEPT !.setting = wle.tmpsetting]))
    /\ UNCHANGED <<media, cnfs>>
(* saveConfigToPath truncates the file, then writes it; the menu comes     *)
(* back whatever happens.  A save is expected to be found at the next boot *)
(* when the user took the target the cursor was on, there is no override,  *)
(* no file that is empty hides the others, and no media were changed and   *)
(* no other target taken since the boot.                                   *)
Save ==
    /\ wle.at = "config" /\ wle.moves > 0
    /\ \E t \in configSaveTargetPrompt(wle), written \in 0..3 :
           LET s == wle.setting
               ok == Present(t) /\ written = 3
               quick == ok /\ t = configSelectInitialSaveTarget(wle) /\ ~wle.strayed
           IN /\ Present(t) \/ written = 0
              /\ cnfs' = IF Present(t)
                         THEN [cnfs EXCEPT ![t] = [lines |-> written, set |-> Store(s),
                                                   meant |-> Meaning(s), dead |-> Dead(s) \cap Allowed]]
                         ELSE cnfs
              /\ wle' = ToMenu([wle EXCEPT !.moves = @ - 1, !.loaded = IF ok THEN t ELSE @,
                                           !.strayed = @ \/ ~quick,
                                           !.expected = IF quick /\ ~s.CNF_Path /\ cnfs[wle.bootdir].lines # 0
                                                        THEN t ELSE None])
    /\ UNCHANGED media
-----------------------------------------------------------------------------
SettingsInit ==
    /\ media \in {{Conf[2], "override", "language"}, {Conf[1], Conf[2], "language"}}
    /\ \/ cnfs = [p \in Places |-> NoFile]
       \/ Conf[1] \in media /\ cnfs = [p \in Places |-> IF p = Conf[2] THEN FirstFile ELSE NoFile]
    /\ \E start \in {<<"mass", "DIVERS">>, <<Conf[1], "MISC">>} :
           wle = [at |-> "off", bootdir |-> start[1], dir |-> start[1], word |-> start[2], moves |-> MaxMoves,
                  setting |-> initConfig, tmpsetting |-> initConfig, Lang_String |-> "english",
                  loaded |-> None, excused |-> {}, strayed |-> FALSE, expected |-> None,
                  missed |-> FALSE, changed |-> FALSE]
SettingsNext ==
    \/ Boot \/ PowerOff \/ Media
    \/ Configure \/ BrowseKey \/ ClearKey \/ Config_Startup \/ Cancel \/ Save
-----------------------------------------------------------------------------
(* A launch key always runs a function, through changes of the language,   *)
(* Cancel, saves and boots, unless its settings come from a file that ends *)
(* early or was saved in a language that is gone, or SELECT was saved      *)
(* after a change of language (updateLocalizedMiscPaths).                  *)
KeysLive ==
    wle.at # "off" =>
        Dead(wle.setting) \subseteq IF wle.at = "config" THEN Allowed ELSE wle.excused
(* The strings on the screen and the paths in the settings are in one      *)
(* language, after Cancel too.                                             *)
OneLanguage == wle.Lang_String = wle.setting.Misc.lang
(* A whole file brings back what the user saw when he saved it.            *)
SavedComesBack == ~wle.changed
(* What is saved where the cursor was is what the next boot loads.         *)
CursorLoads == ~wle.missed
=============================================================================
