----------------------------- MODULE MenuTables -----------------------------
(***************************************************************************)
(* The tables of the full PSP app's menu (menu.c) and of its configuration *)
(* file (config.c): the pages and their entries, what each entry may be    *)
(* set to, and what the file may hold.  Settings bear the file's names;    *)
(* the PC's settings, which the file does not keep, those of comSettings.  *)
(***************************************************************************)
EXTENDS Integers, Sequences

CONSTANTS
  Longest,  \* bound: the longest timeout the menu offers, 3600 in the code
  Hosts,    \* bound: the addresses to choose from, 5 in the code
  Words     \* bound: what the user may type for a string

\* The empty string, one with a blank, and a text nobody wrote.
Empty == ""
Spaced == "two words"
Garbage == "garbage"

ASSUME TablesAssumption ==
  /\ Longest \in Nat /\ Longest >= 10
  /\ Hosts \in 1 .. 5
  /\ {Empty, "192.168.0.1", "00:00:00:00:00:00"} \subseteq Words
  /\ Spaced \in Words => "tw" \in Words  \* what the loader makes of it
  /\ Garbage \notin Words

\* An entry that is clicked, one of a number, changed in steps, one of a string.
MenuEntry(kind, name, default, min, max, step, word) ==
  [kind |-> kind, name |-> name, default |-> default, min |-> min, max |-> max,
   step |-> step, word |-> word]
Click(act) == MenuEntry("button", act, 0, 0, 0, 0, Empty)
Number(name, default, min, max, step) ==
  MenuEntry("number", name, default, min, max, step, Empty)
Choice(name, default, max) == Number(name, default, 0, max, 1)
Word(name, default) == MenuEntry("word", name, 0, 0, 0, 0, default)

Address(i) == <<"wlanIPAddress1", "wlanIPAddress2", "wlanIPAddress3", "wlanIPAddress4",
                "wlanIPAddress5">>[i]
Mac(i) == <<"wlanMACAddress1", "wlanMACAddress2", "wlanMACAddress3", "wlanMACAddress4",
            "wlanMACAddress5">>[i]

MainMenu == <<Click("usb"), Click("wlan"), Click("settings"), Click("quit")>>

InGameMenu ==
  <<Click("resume"), Click("keyboard"), Click("settings"), Click("pcSettings"), Click("quit")>>

GeneralMenu ==
  <<Number("brightness", 100, 4, 100, 4), Choice("setBrightness", 0, 1),
    Choice("buttonSwap", 0, 2), Choice("timeFormat", 0, 2), Choice("verboseBattery", 1, 1),
    Choice("transparentMenu", 1, 1)>>

UsbMenu == <<Choice("usbClockSpeed", 0, 5), Choice("usbMode", 1, 1)>>

UsbPowerSaveMenu ==
  <<Choice("usbSave", 1, 1), Number("usbSaveTimeout", 5, 2, Longest, 1),
    Choice("usbSaveScreenBacklight", 1, 2), Choice("usbSaveClearScreen", 0, 1),
    Choice("usbSaveDownClock", 0, 1)>>

WlanMenu == <<Choice("wlanClockSpeed", 0, 5), Word("wlanPassword", Empty),
              Choice("wlanLedEnabled", 1, 1)>>

WlanIPMenu ==
  [i \in 1 .. Hosts + 2 |->
     CASE i = 1 -> Number("wlanIPIndex", 1, 1, Hosts, 1)
       [] i = Hosts + 2 -> Choice("wlanPortOffset", 0, 9)
       [] OTHER -> Word(Address(i - 1), "192.168.0.1")]

WlanMACMenu ==
  [i \in 1 .. Hosts + 2 |->
     CASE i = 1 -> Choice("wlanEnableWakeOnLan", 0, 1)
       [] i = Hosts + 2 -> Choice("wlanEnableWakeOnLanBroadcasting", 0, 1)
       [] OTHER -> Word(Mac(i - 1), "00:00:00:00:00:00")]

AutoStartMenu == <<Choice("autoMode", 0, 2), Number("autoTimeout", 10, 0, Longest, 1)>>

PcScreenMenu ==
  <<Choice("screenMode", 3, 4), Choice("screenViewport", 0, 14),
    Choice("screenRotation", 0, 3), Choice("quality", 2, 4),
    Choice("screenNoCompression", 0, 1), Choice("updateInterval", 0, 5)>>

\* The lists of devices, control files and presets grow as the host says.
PcDisplayMenu ==
  <<Choice("displayEnable", 1, 1), Choice("displayDeviceIndex", 0, 1),
    Choice("displayAutoselect", 0, 1), Choice("deviceUseSideShow", 0, 1)>>

PcMiscMenu ==
  <<Choice("soundEnabled", 0, 1), Choice("soundSampleRate", 0, 2),
    Choice("controlIndex", 0, 1), Choice("presetIndex", 0, 1)>>

getMenuProperty ==
  [main |-> MainMenu, ingame |-> InGameMenu, general |-> GeneralMenu, wlan_ip |-> WlanIPMenu,
   wlan_mac |-> WlanMACMenu, wlan |-> WlanMenu, usb |-> UsbMenu, usb_power |-> UsbPowerSaveMenu,
   autostart |-> AutoStartMenu, pc_screen |-> PcScreenMenu, pc_display |-> PcDisplayMenu,
   pc_misc |-> PcMiscMenu]

Pages == DOMAIN getMenuProperty

\* The settings' two rings of pages; the main and the in-game menu have one page.
Ring == <<"general", "wlan_ip", "wlan_mac", "wlan", "usb", "usb_power", "autostart">>
PcRing == <<"pc_screen", "pc_display", "pc_misc">>

RingOf(page) ==
  CASE \E i \in DOMAIN Ring : Ring[i] = page -> Ring
    [] \E i \in DOMAIN PcRing : PcRing[i] = page -> PcRing
    [] OTHER -> <<page>>

nextMenuId ==
  [page \in Pages |->
     LET ring == RingOf(page)
         i == CHOOSE i \in DOMAIN ring : ring[i] = page IN ring[(i % Len(ring)) + 1]]
previousMenuId == [page \in Pages |-> CHOOSE p \in Pages : nextMenuId[p] = page]

Entries == UNION {{getMenuProperty[p][i] : i \in DOMAIN getMenuProperty[p]} : p \in Pages}
Options == {e \in Entries : e.kind # "button"}
Settings == {e.name : e \in Options}
Option == [s \in Settings |-> CHOOSE e \in Options : e.name = s]

Limits(e) == IF e.kind = "word" THEN Words ELSE e.min .. e.max
DefaultOf(e) == IF e.kind = "word" THEN e.word ELSE e.default
Defaults(followed) == [s \in followed |-> DefaultOf(Option[s])]

\* What configLoadConfiguration takes an integer for when it is not there, and
\* from where to where it believes one that is.
InFile(default, min, max) == [default |-> default, min |-> min, max |-> max]
FileNumbers ==
  [usbSaveTimeout |-> InFile(5, 2, Longest), usbSave |-> InFile(1, 0, 1),
   usbSaveScreenBacklight |-> InFile(1, 0, 2), usbSaveClearScreen |-> InFile(0, 0, 1),
   usbSaveDownClock |-> InFile(0, 0, 1), usbClockSpeed |-> InFile(0, 0, 5),
   usbMode |-> InFile(1, 0, 1), wlanClockSpeed |-> InFile(0, 0, 5),
   wlanLedEnabled |-> InFile(1, 0, 1), autoMode |-> InFile(0, 0, 2),
   autoTimeout |-> InFile(10, 0, Longest), wlanIPIndex |-> InFile(1, 1, Hosts),
   wlanPortOffset |-> InFile(0, 0, 9), wlanEnableWakeOnLan |-> InFile(0, 0, 1),
   wlanEnableWakeOnLanBroadcasting |-> InFile(0, 0, 1), brightness |-> InFile(100, 4, 100),
   setBrightness |-> InFile(0, 0, 1), buttonSwap |-> InFile(0, 0, 2),
   timeFormat |-> InFile(0, 0, 2), verboseBattery |-> InFile(1, 0, 1),
   transparentMenu |-> InFile(1, 0, 1)]
FileStrings == {"wlanPassword"} \cup {Address(i) : i \in 1 .. Hosts} \cup {Mac(i) : i \in 1 .. Hosts}
Saved == DOMAIN FileNumbers \cup FileStrings

\* A string's default in the file.
StringDefault(s) ==
  IF s = "wlanPassword" THEN Empty
  ELSE IF s \in {Address(i) : i \in 1 .. Hosts} THEN "192.168.0.1"
  ELSE "00:00:00:00:00:00"

=============================================================================
