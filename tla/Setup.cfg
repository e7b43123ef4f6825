SPECIFICATION Spec
CONSTANTS
    Families = {"Debian", "Fedora", "Arch"}
    Cameras = {"usb"}
    IrCameras = {"ir"}
    Slots = {1, 2}
    Fingers = {1, 2}
    Captures = 2
    MaxOps = 2
    MaxFaults = 1
CHECK_DEADLOCK FALSE
INVARIANTS ResetKeepsSamples
PROPERTIES SetupInForce 
