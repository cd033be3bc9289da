------------------------------ MODULE MCDesktop ------------------------------
(***************************************************************************)
(* The TLC instance of Desktop: every page calm and rough for what is      *)
(* safe, and the pages that state a fairness, rough, for what comes about. *)
(***************************************************************************)
EXTENDS Desktop, TLC

CONSTANTS p1, p2   \* profiles

SafeSubjects ==
    ({"convert", "topbar", "reports", "export", "actions", "bus"} \X {FALSE})
    \cup ({"security", "tools", "snapshots", "plugins", "settings", "profiles", "cloud",
           "updates", "batch", "compare", "installed", "browse", "qt"} \X BOOLEAN)
LiveSubjects == {"convert", "shared", "security", "rpc"} \X {TRUE}

Per(calm, hard) == (FALSE :> calm) @@ (TRUE :> hard)

\* Of the pages with a row of their own in Pages' bounds
MCJobs ==
    LET calm  == [convert |-> 3, shared |-> 1, security |-> 4, tools |-> 3, compare |-> 4,
                  snapshots |-> 6, reports |-> 3, export |-> 4, plugins |-> 5, settings |-> 4,
                  topbar |-> 6, profiles |-> 6, cloud |-> 6, updates |-> 4, actions |-> 3,
                  batch |-> 5, installed |-> 5, browse |-> 4, bus |-> 5, qt |-> 4]
        hard == [calm EXCEPT !.convert = 2, !.security = 3, !.snapshots = 4, !.plugins = 4,
                  !.settings = 3, !.profiles = 5, !.cloud = 4, !.updates = 3, !.batch = 4,
                  !.installed = 4, !.browse = 3]
    IN Per(calm, hard)
MCVisits ==
    LET calm  == [security |-> 1, tools |-> 1, compare |-> 1, snapshots |-> 3, reports |-> 2,
                  export |-> 2, plugins |-> 2, settings |-> 2, topbar |-> 1, profiles |-> 1,
                  cloud |-> 1, updates |-> 1, actions |-> 2, installed |-> 1, browse |-> 1]
        hard == [calm EXCEPT !.security = 2, !.tools = 2, !.compare = 3, !.snapshots = 2,
                  !.settings = 1, !.profiles = 2, !.cloud = 2, !.updates = 2, !.installed = 2,
                  !.browse = 2]
    IN Per(calm, hard)
\* For what comes about, one visit to the security page
MCLiveVisits == [MCVisits EXCEPT ![TRUE].security = 1]

\* Three files of which one is refused; if rough two, all accepted, since a
\* refusal is known to stall the loop.
MCFiles     == Per({"p", "q", "s"}, {"p", "q"})
MCRefusable == Per({"q"}, {})
\* Two direct and two evented checks, on two tabs in the place of six
MCPackages  == Per({"a.deb", "b.deb"}, {"a.deb"})
MCTabs      == [sign |-> {"verify", "keys"}, evented |-> {"sbom", "cve"}]
MCRunOrder  == <<"verify", "sbom", "cve">>
MCProfiles  == Per({p1, p2}, {p1})
MCImports   == Per({}, {[output_dir |-> 1]})
MCCloud     == Per({"fleet"}, {"fleet", "settings"})
MCIntervals == Per({1, 2}, {1})
MCTime      == Per(2, 1)
MCItems     == Per(2, 1)
MCShift     == Per(1, 0)
MCRecords   == Per({"r", "s"}, {"r"})
\* Two files and then one, converted twice
MCAdds      == {<<"p", "q">>, <<"s">>}
=============================================================================
