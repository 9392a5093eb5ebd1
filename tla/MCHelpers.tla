----------------------------- MODULE MCHelpers -----------------------------
(***************************************************************************)
(* The parts of the library that stand alone, for one run.  They share no  *)
(* state: an interleaving of two of them shows no more than each alone, so *)
(* a behaviour here is one of any one of them, while the others wait in an *)
(* initial state of theirs.                                                *)
(***************************************************************************)
EXTENDS BinaryFile, Numbers, Checksums, Xml, XmlParse,
        Settings, Archives, Files, Commands, Waits, MemSettings

VARIABLE part

\* Parameters as in a style: one name begins the other, one value the other.
StyleNames  == {<<"s">>, <<"s", "w">>}
StyleValues == {<<"1">>, <<"1", "2">>}
StyleNew    == {<<"2">>, <<"3">>}

\* The parts that compute, and those that keep state.
Computing == {"binary file", "numbers", "checksums", "xml", "xml parse"}
Keeping == {"settings", "archives", "files", "commands", "waits", "mem settings"}

computingVars == <<binaryVars, numbersVars, checksumsVars, xmlVars, parseVars>>
keepingVars == <<settingsVars, archivesVars, filesVars, commandsVars, waitsVars, memVars>>

vars == <<part, computingVars, keepingVars>>

Init ==
    /\ part \in Computing \union Keeping
    /\ BinaryInit /\ (part # "binary file" => file = <<>>)
    /\ NumbersInit /\ (part # "numbers" => word = 0)
    /\ ChecksumsInit
    /\ IF part = "xml" THEN XmlInit ELSE document = <<>>
    /\ IF part = "xml parse" THEN ParseInit ELSE NotWalking /\ parent = <<>>
    /\ SettingsInit
    /\ ArchivesInit /\ (part # "archives" => disk = Nothing)
    /\ FilesInit
    /\ CommandsInit
    /\ WaitsInit
    /\ MemInit

ComputingNext ==
    /\ UNCHANGED <<part, keepingVars>>
    /\ \/ /\ part = "binary file" /\ BinaryNext
          /\ UNCHANGED <<numbersVars, checksumsVars, xmlVars, parseVars>>
       \/ /\ part = "numbers" /\ NumbersNext
          /\ UNCHANGED <<binaryVars, checksumsVars, xmlVars, parseVars>>
       \/ /\ part = "checksums" /\ ChecksumsNext
          /\ UNCHANGED <<binaryVars, numbersVars, xmlVars, parseVars>>
       \/ /\ part = "xml" /\ XmlNext
          /\ UNCHANGED <<binaryVars, numbersVars, checksumsVars, parseVars>>
       \/ /\ part = "xml parse" /\ ParseNext
          /\ UNCHANGED <<binaryVars, numbersVars, checksumsVars, xmlVars>>

KeepingNext ==
    /\ UNCHANGED <<part, computingVars>>
    /\ \/ /\ part = "settings" /\ SettingsNext
          /\ UNCHANGED <<archivesVars, filesVars, commandsVars, waitsVars, memVars>>
       \/ /\ part = "archives" /\ ArchivesNext
          /\ UNCHANGED <<settingsVars, filesVars, commandsVars, waitsVars, memVars>>
       \/ /\ part = "files" /\ FilesNext
          /\ UNCHANGED <<settingsVars, archivesVars, commandsVars, waitsVars, memVars>>
       \/ /\ part = "commands" /\ CommandsNext
          /\ UNCHANGED <<settingsVars, archivesVars, filesVars, waitsVars, memVars>>
       \/ /\ part = "waits" /\ WaitsNext
          /\ UNCHANGED <<settingsVars, archivesVars, filesVars, commandsVars, memVars>>
       \/ /\ part = "mem settings" /\ MemNext
          /\ UNCHANGED <<settingsVars, archivesVars, filesVars, commandsVars, waitsVars>>

Next == ComputingNext \/ KeepingNext

Spec == Init /\ [][Next]_vars

(* The variables of every part have their types. *)
TypeOK ==
    /\ BinaryTypeOK
    /\ NumbersTypeOK
    /\ ChecksumsTypeOK
    /\ XmlTypeOK
    /\ ParseTypeOK
    /\ SettingsTypeOK
    /\ ArchivesTypeOK
    /\ FilesTypeOK
    /\ CommandsTypeOK
    /\ WaitsTypeOK
    /\ MemTypeOK
=============================================================================
