---------------------------- MODULE SettingsPage ----------------------------
(***************************************************************************)
(* The settings, their file and their writers: the settings page           *)
(* (pages/Settings.tsx), which saves all of them at once, and the switches *)
(* of the top bar and the command palette (TopbarActions.tsx, App.tsx),    *)
(* which save one each.  A call is a thread of the sidecar that loads the  *)
(* file of the active profile, updates it and saves it, with no lock.      *)
(***************************************************************************)
EXTENDS Naturals, FiniteSets

CONSTANTS Profiles,  \* the profiles there are
          Writers,   \* who acts: "page", "topbar"
          Imports,   \* files to import: settings with some of the keys
          Calm,      \* calls succeed, and nobody acts before start-up has ended
          Serial,    \* calls are worked on and answered in their order
          MaxJobs,   \* bound: calls
          MaxVisits  \* bound: times the page is opened

Keys   == {"language", "theme", "output_dir"}
Values == 0..1
Settings == [Keys -> Values]
DEFAULTS == [k \in Keys |-> 0]

\* s with what p has: {...s, ...p}, s.update(p)
Merged(s, p) == [k \in Keys |-> IF k \in DOMAIN p THEN p[k] ELSE s[k]]
Some(k, v)   == [x \in {k} |-> v]
Patch        == Settings \cup {Some(k, v) : k \in Keys, v \in Values} \cup Imports

\* What the constants have to satisfy
SettingsAssumption ==
    /\ Calm \in BOOLEAN /\ Serial \in BOOLEAN /\ MaxJobs \in Nat /\ MaxVisits \in Nat
    /\ Writers \subseteq {"page", "topbar"} /\ DEFAULTS \notin Profiles

VARIABLES
    file,        \* settings.json of each profile
    active,      \* the active profile
    jobs,        \* calls
    issued,      \* calls so far
    lang,        \* the shared language store (lib/lang.ts)
    theme,       \* data-theme of the document (lib/theme.ts)
    topTheme,    \* the theme TopbarActions believes in
    open, visit, \* the page is mounted, and how often it was
    loading, saving, profileBusy,
    settings,    \* the form
    saved        \* what the form is compared with: dirty

app  == <<lang, theme, topTheme>>
disk == <<file, active>>
form == <<loading, saving, profileBusy, settings, saved>>
vars == <<file, active, jobs, issued, lang, theme, topTheme, open, visit, loading,
          saving, profileBusy, settings, saved>>

Reads == {"loadLang", "loadTheme", "load"}
Sets  == {"save", "reset", "import", "toggle"}
Job == [id : 1..MaxJobs, as : Reads \cup Sets \cup {"switch"}, visit : 0..MaxVisits,
        arg : Patch \cup Profiles,
        phase : {"sent", "read", "done"}, saw : Settings]

TypeOK ==
    /\ file \in [Profiles -> Settings] /\ active \in Profiles
    /\ jobs \subseteq Job /\ issued \in 0..MaxJobs
    /\ lang \in Values /\ theme \in Values /\ topTheme \in Values
    /\ open \in BOOLEAN /\ visit \in 0..MaxVisits
    /\ loading \in BOOLEAN /\ saving \in BOOLEAN /\ profileBusy \in BOOLEAN
    /\ settings \in Settings /\ saved \in Settings

Request(n, as, arg, v) == [id |-> n, as |-> as, visit |-> v, arg |-> arg,
                           phase |-> "sent", saw |-> DEFAULTS]
\* The bound keeps a call for the reload after every switch of the profile.
Call(as, arg, v) ==
    /\ issued + Cardinality({j \in jobs : j.as = "switch"}) < MaxJobs
    /\ issued' = issued + 1
    /\ jobs' = jobs \cup {Request(issued', as, arg, v)}

\* The app starts in its defaults and asks for the file's language and theme.
Init ==
    /\ file \in [Profiles -> Settings] /\ active \in Profiles
    /\ issued = 2
    /\ jobs = {Request(1, "loadLang", DEFAULTS, 0), Request(2, "loadTheme", DEFAULTS, 0)}
    /\ lang = 0 /\ theme = 0 /\ topTheme = 0
    /\ open = FALSE /\ visit = 0 /\ loading = FALSE /\ saving = FALSE /\ profileBusy = FALSE
    /\ settings = DEFAULTS /\ saved = DEFAULTS

\* A user's turn
May(w) == w \in Writers /\ (Calm => \A j \in jobs : j.as \notin {"loadLang", "loadTheme"})

-----------------------------------------------------------------------------
(* The top bar, and the palette *)

toggleLang ==
    /\ May("topbar") /\ lang' = 1 - lang
    /\ Call("toggle", Some("language", lang'), 0)
    /\ UNCHANGED <<disk, form, theme, topTheme, open, visit>>
\* It flips the theme it believes in, not the one that shows.
toggleTheme ==
    /\ May("topbar") /\ topTheme' = 1 - topTheme /\ theme' = topTheme'
    /\ Call("toggle", Some("theme", theme'), 0)
    /\ UNCHANGED <<disk, form, lang, open, visit>>
setLangCmd(v) ==
    /\ May("topbar") /\ lang' = v /\ Call("toggle", Some("language", v), 0)
    /\ UNCHANGED <<disk, form, theme, topTheme, open, visit>>
setThemeCmd(v) ==
    /\ May("topbar") /\ theme' = v /\ Call("toggle", Some("theme", v), 0)
    /\ UNCHANGED <<disk, form, lang, topTheme, open, visit>>

-----------------------------------------------------------------------------
(* The page *)

\* The effect on settings.language runs once at the start, with the default.
Open ==
    /\ ~open /\ May("page") /\ visit < MaxVisits
    /\ open' = TRUE /\ visit' = visit + 1
    /\ loading' = TRUE /\ saving' = FALSE /\ profileBusy' = FALSE
    /\ settings' = DEFAULTS /\ saved' = DEFAULTS /\ lang' = DEFAULTS["language"]
    /\ Call("load", DEFAULTS, visit')
    /\ UNCHANGED <<disk, theme, topTheme>>
Leave == open /\ open' = FALSE
         /\ UNCHANGED <<disk, jobs, issued, app, visit, form>>

\* The form is on the screen, and not the skeleton that stands for it.
Form == open /\ May("page") /\ ~loading

\* set; the theme and the language show at once.
set(k, v) ==
    /\ Form /\ settings[k] # v
    /\ settings' = [settings EXCEPT ![k] = v]
    /\ lang' = IF k = "language" THEN v ELSE lang
    /\ theme' = IF k = "theme" THEN v ELSE theme
    /\ UNCHANGED <<disk, jobs, issued, topTheme, open, visit, loading, saving, profileBusy, saved>>

handleSave ==
    /\ Form /\ ~saving /\ saving' = TRUE /\ Call("save", settings, visit)
    /\ UNCHANGED <<disk, app, open, visit, loading, profileBusy, settings, saved>>
handleReset ==
    /\ Form /\ ~saving /\ saving' = TRUE /\ Call("reset", DEFAULTS, visit)
    /\ UNCHANGED <<disk, app, open, visit, loading, profileBusy, settings, saved>>
\* The button is off during a save; the import itself turns nothing off.
handleImportFile(p) ==
    /\ Form /\ ~saving /\ Call("import", p, visit)
    /\ UNCHANGED <<disk, app, open, visit, form>>
handleSwitchProfile(p) ==
    /\ Form /\ ~profileBusy /\ p # active /\ profileBusy' = TRUE
    /\ issued + 2 <= MaxJobs
    /\ Call("switch", p, visit)
    /\ UNCHANGED <<disk, app, open, visit, loading, saving, settings, saved>>

-----------------------------------------------------------------------------
(* The sidecar *)

First(j) == Serial => \A k \in jobs : k.phase # "done" => j.id <= k.id
To(j, phase, s) == jobs' = (jobs \ {j}) \cup {[j EXCEPT !.phase = phase, !.saw = s]}

\* settings.get, and the first half of settings.set: load_settings
Load(j) ==
    /\ j.phase = "sent" /\ j.as # "switch" /\ First(j)
    /\ To(j, IF j.as \in Reads THEN "done" ELSE "read", file[active])
    /\ UNCHANGED <<disk, issued, app, open, visit, form>>
\* The second half: update, save_settings
Save(j) ==
    /\ j.phase = "read" /\ First(j)
    /\ file' = [file EXCEPT ![active] = Merged(j.saw, j.arg)]
    /\ To(j, "done", j.saw)
    /\ UNCHANGED <<active, issued, app, open, visit, form>>
\* switch_profile
Switch(j) ==
    /\ j.phase = "sent" /\ j.as = "switch" /\ First(j)
    /\ active' = j.arg /\ To(j, "done", j.saw)
    /\ UNCHANGED <<file, issued, app, open, visit, form>>

-----------------------------------------------------------------------------
(* Answers *)

Answered(j, ok) ==
    /\ IF ok THEN j.phase = "done" ELSE ~Calm
    /\ Serial => \A k \in jobs : j.id <= k.id
Here(j) == open /\ j.visit = visit

\* The form is s, saved; the effect runs if the language changed.
Fill(s) == /\ settings' = s /\ saved' = s
           /\ lang' = IF s["language"] = settings["language"] THEN lang ELSE s["language"]

Started(j, ok) ==
    /\ j.as \in {"loadLang", "loadTheme"} /\ Answered(j, ok) /\ jobs' = jobs \ {j}
    /\ lang'  = IF ok /\ j.as = "loadLang" THEN j.saw["language"] ELSE lang
    /\ theme' = IF ok /\ j.as = "loadTheme" THEN j.saw["theme"] ELSE theme
    /\ UNCHANGED <<disk, issued, topTheme, open, visit, form>>
Toggled(j, ok) ==
    /\ j.as = "toggle" /\ Answered(j, ok) /\ jobs' = jobs \ {j}
    /\ UNCHANGED <<disk, issued, app, open, visit, form>>

Loaded(j, ok) ==
    /\ j.as = "load" /\ Answered(j, ok) /\ jobs' = jobs \ {j}
    /\ loading' = (loading /\ ~Here(j))
    /\ profileBusy' = (profileBusy /\ ~(Here(j) /\ j.arg # DEFAULTS))
    /\ IF Here(j) /\ ok THEN Fill(j.saw) ELSE UNCHANGED <<settings, saved, lang>>
    /\ UNCHANGED <<disk, issued, theme, topTheme, open, visit, saving>>

\* The end of a save or a reset shows its theme, though the page be gone.
SaveDone(j, ok) ==
    /\ j.as \in {"save", "reset"} /\ Answered(j, ok) /\ jobs' = jobs \ {j}
    /\ saving' = (saving /\ ~Here(j))
    /\ theme' = IF ok THEN j.arg["theme"] ELSE theme
    /\ IF ~(Here(j) /\ ok) THEN UNCHANGED <<settings, saved, lang>>
       ELSE IF j.as = "reset" THEN Fill(DEFAULTS)
       ELSE saved' = j.arg /\ UNCHANGED <<settings, lang>>
    /\ UNCHANGED <<disk, issued, topTheme, open, visit, loading, profileBusy>>

\* What the file did not say becomes the default, in the form.
Imported(j, ok) ==
    /\ j.as = "import" /\ Answered(j, ok) /\ jobs' = jobs \ {j}
    /\ IF Here(j) /\ ok THEN Fill(Merged(DEFAULTS, j.arg))
                        ELSE UNCHANGED <<settings, saved, lang>>
    /\ UNCHANGED <<disk, issued, theme, topTheme, open, visit, loading, saving, profileBusy>>

\* refreshAll: the form of the new profile; the page is busy until it is there.
Switched(j, ok) ==
    /\ j.as = "switch" /\ Answered(j, ok)
    /\ IF ok
       THEN /\ issued' = issued + 1
            /\ jobs' = (jobs \ {j}) \cup {Request(issued', "load", j.arg, j.visit)}
            /\ loading' = (loading \/ Here(j)) /\ UNCHANGED profileBusy
       ELSE /\ jobs' = jobs \ {j} /\ profileBusy' = (profileBusy /\ ~Here(j))
            /\ UNCHANGED <<loading, issued>>
    /\ UNCHANGED <<disk, app, open, visit, saving, settings, saved>>

-----------------------------------------------------------------------------
Next ==
    \/ toggleLang \/ toggleTheme \/ \E v \in Values : setLangCmd(v) \/ setThemeCmd(v)
    \/ Open \/ Leave \/ handleSave \/ handleReset
    \/ \E k \in Keys, v \in Values : set(k, v)
    \/ \E p \in Imports : handleImportFile(p)
    \/ \E p \in Profiles : handleSwitchProfile(p)
    \/ \E j \in jobs :
         \/ Load(j) \/ Save(j) \/ Switch(j)
         \/ \E ok \in BOOLEAN : \/ Started(j, ok) \/ Toggled(j, ok) \/ Loaded(j, ok)
                                \/ SaveDone(j, ok) \/ Imported(j, ok) \/ Switched(j, ok)

Spec == Init /\ [][Next]_vars
-----------------------------------------------------------------------------
(* Properties *)

dirty == settings # saved

\* A form that says nothing is unsaved is what the file of the profile holds,
\* once all calls are answered; if they succeed, come one after the other, and
\* nobody else writes the file.
DirtyTruthful == (open /\ jobs = {} /\ ~dirty) => settings = file[active]

\* With such a form on the screen the app speaks the language of the file.
LanguageAgrees == (open /\ jobs = {} /\ ~dirty) => lang = file[active]["language"]

\* What the switches of the top bar and the palette have set is in the file,
\* once all calls are answered, as long as nothing else wrote it and each call
\* succeeded before the next.
TogglesPersist ==
    (jobs = {} /\ visit = 0) => /\ lang = file[active]["language"]
                                /\ theme = file[active]["theme"]

\* What the page says it waits for is under way.
SpinnersEnd ==
    open => /\ loading => \E j \in jobs : j.as = "load" /\ j.visit = visit
            /\ saving => \E j \in jobs : j.as \in {"save", "reset"} /\ j.visit = visit
            /\ profileBusy => \E j \in jobs : j.as \in {"switch", "load"} /\ j.visit = visit
=============================================================================
