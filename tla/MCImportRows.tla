--------------------------- MODULE MCImportRows ---------------------------
(* A small instance of ImportRows for TLC: a mapping per target table, a few
   that are wrong, and files of up to three rows. *)
EXTENDS ImportRows

MCField == UNION {{f.name : f \in TARGET_FIELDS[t]} : t \in DOMAIN TARGET_FIELDS}

Config(table, bindings) == [targetTable |-> table, bindings |-> bindings]
Rows(n, row) == UNION {[1 .. k -> row] : k \in 1 .. n}
FromColumn(target, source) == ColumnMapping(target, source, None, None)
TailLookup == ColumnDrivenLookup("aircraftId", "aircraft_by_registration", "Tail", None)

-----------------------------------------------------------------------------
FlightRow(tails, readings, overrides) ==
    {[Tail |-> t, TT |-> n, Swap |-> o[1], Why |-> o[2]] :
        t \in tails, n \in readings, o \in overrides}
NoOverride == <<Blank, Blank>>
Override == <<Bool(TRUE), Text("swap")>>

FlightFiles ==
    Rows(3, FlightRow({Text("N1")}, {Number(1), Number(2), <<"fraction", 1>>},
                      {NoOverride, Override}))
    \cup Rows(2, FlightRow({Text("N1"), Text("N2"), Blank},
                           {Number(-1), Number(1), Number(2), Text("x")},
                           {NoOverride, <<Number(1), Blank>>}))

FlightBindings ==
    {TailLookup, FromColumn("airframeTimeNew", "TT"),
     FromColumn("isOverride", "Swap"), FromColumn("overrideReason", "Why")}

FlightCase ==
    [config |-> Config("flight_time_entries", FlightBindings), files |-> FlightFiles]

\* An id typed into the sheet; a second source for it; a column that is not there.
TypedId == FromColumn("aircraftId", "Tail")
TypedIdFile == {<<[Tail |-> t, TT |-> Number(1)]>> :
                   t \in {Uuid(Text("N1")), Uuid(Text("N9")), Text("N1")}}
OddFlightCases ==
    {[config |-> Config("flight_time_entries", b \cup {FromColumn("airframeTimeNew", "TT")}),
      files |-> TypedIdFile] :
        b \in {{TypedId}, {TypedId, TailLookup}, {},
               {TailLookup, FromColumn("overrideReason", "Why")},
               {TailLookup, ColumnMapping("isOverride", "TT", "decimal", None)},
               {TailLookup, ConstantMapping("isOverride", Text("yes"))},
               {TailLookup, ConstantMapping("isOverride", Bool(FALSE))},
               {ConstantMapping("aircraftId", Padded(Uuid(Text("N1"))))}}}

-----------------------------------------------------------------------------
AircraftBindings(regime) ==
    {regime, FromColumn("registration", "Tail"), FromColumn("timeSource", "Source"),
     FromColumn("yearManufactured", "Year"), FromColumn("airframeTotalTime", "TT")}
    \cup {ConstantMapping(f, Text("same")) :
             f \in {"make", "model", "serialNumber", "category", "aircraftClass"}}

AircraftFiles ==
    Rows(2, {[Tail |-> t, Source |-> s, Year |-> y, TT |-> Number(1)] :
                t \in {Text("N1"), Text("N3"), Text("G-X")},
                s \in {Text("hobbs"), Text("sun")},
                y \in {Blank, Number(1899)}})
    \cup Rows(1, {[Tail |-> t, Source |-> s, Year |-> Number(2000), TT |-> n] :
                t \in {Padded(Text("N1")), Text("N3")},
                s \in {Text("hobbs"), Padded(Text("tach"))},
                n \in {Number(MaxDecimal), Number(MaxDecimal + 1)}})

AircraftCases ==
    {[config |-> Config("aircraft", AircraftBindings(regime)), files |-> AircraftFiles] :
        regime \in {ConstantKeyLookup("regimeId", Text("FAA")),
                    ConstantMapping("regimeId", Uuid(Text("EASA"))),
                    ConstantMapping("regimeId", Text("FAA"))}}

-----------------------------------------------------------------------------
ComponentBindings ==
    {FromColumn("kind", "Kind"), FromColumn("serialNumber", "Serial"),
     FromColumn("tboHours", "TBO")}

ComponentFiles ==
    Rows(2, {[Kind |-> k, Serial |-> s, TBO |-> l] :
                k \in {Text("engine"), Text("wing")},
                s \in {Text("S1"), Text("S2"), Blank},
                l \in {Blank, Number(0), Number(1), <<"fraction", 0>>}})

ComponentCase ==
    [config |-> Config("components", ComponentBindings),
     files |-> ComponentFiles \cup {Garbled, <<>>}]

\* A constant keeps its blanks, and limits too large for their columns.
OddComponentCases ==
    {[config |-> Config("components",
         {ConstantMapping("kind", k), FromColumn("serialNumber", "Serial"),
          FromColumn("tboHours", "TBO"), FromColumn("cycleLimit", "Cycles")}),
      files |-> Rows(1, {[Serial |-> Text("S1"), TBO |-> Number(h), Cycles |-> Number(n)] :
                            h \in {1, MaxDecimal + 1}, n \in {1, MaxInteger + 1}})] :
        k \in {Text("propeller"), Padded(Text("engine"))}}

-----------------------------------------------------------------------------
EntryBindings(certificate, done, program) ==
    {TailLookup, ConstantMapping("entryType", Text("maintenance")),
     ConstantMapping("workPerformed", Text("oil")), done,
     FromColumn("aircraftTotalTime", "TT"), FromColumn("signedAt", "Signed"),
     certificate, FromColumn("rtsTemplateCode", "RTS"), program}

EntryRow(tails, days, signed, certificates, templates, programs) ==
    {[Tail |-> t, Done |-> d, TT |-> Number(1), Signed |-> s, Cert |-> c, RTS |-> r,
      Code |-> p] :
        t \in tails, d \in days, s \in signed, c \in certificates,
        r \in templates, p \in programs}

Done == ColumnMapping("performedOn", "Done", "date", "MM/DD/YYYY")
Cert == FromColumn("signedByCertificateNumber", "Cert")
Code == ColumnDrivenLookup("inspectionProgramId", "inspection_program_by_code", "Code", None)

EntryCase ==
    [config |-> Config("maintenance_entries", EntryBindings(Cert, Done, Code)),
     files |-> Rows(1, EntryRow({Text("N1"), Text("N9")},
                                {<<"usdate", 1>>, <<"usdate", NoSuchDay>>, <<"date", 1>>},
                                {<<"date", NoSuchDay>>, Blank},
                                {Text("C1"), Text("C2"), Padded(Text("C1")), Blank},
                                {Text("R1"), Text("R2")}, {Text("P1"), Text("P2")}))]

\* A certificate with its blanks kept, a program id typed in, constants for the dates.
OddEntryCases ==
    {[config |-> Config("maintenance_entries", EntryBindings(b[1], b[2], b[3])),
      files |-> Rows(1, EntryRow({Text("N1")}, {<<"usdate", 1>>}, {<<"date", 1>>},
                                 {Text("C1"), Padded(Text("C1"))}, {Text("R1")},
                                 {Text("P1"), Uuid(Text("P1")), Uuid(Text("P2"))}))] :
        b \in {<<[Cert EXCEPT !.trim = FALSE], Done, Code>>,
               <<Cert, Done, FromColumn("inspectionProgramId", "Code")>>}
              \cup {<<Cert, ConstantMapping("performedOn", v), Code>> :
                       v \in {Text("soon"), <<"eudate", 1>>, <<"date", 1>>}}}
    \cup
    {[config |-> Config("maintenance_entries",
         {b \in EntryBindings(Cert, Done, Code) : b.target # "signedAt"}
         \cup {ConstantMapping("signedAt", v)}),
      files |-> Rows(1, EntryRow({Text("N1")}, {<<"usdate", 1>>}, {Blank}, {Text("C1")},
                                 {Text("R1")}, {Text("P1")}))] :
        v \in {Text("then"), <<"date", NoSuchDay>>}}

-----------------------------------------------------------------------------
MCCases ==
    {FlightCase, ComponentCase, EntryCase} \cup OddFlightCases \cup AircraftCases
    \cup OddComponentCases \cup OddEntryCases

MCTotals == {[t \in {} |-> 0], [t \in {Text("N1")} |-> 0], [t \in {Text("N1")} |-> 2],
             [t \in Texts({"N1", "N2"}) |-> 1]}

MCWorlds == [total: MCTotals, credentials: {{}, {Text("C1")}},
             components: {{}, {<<Text("engine"), Text("S1")>>}}]
=============================================================================
