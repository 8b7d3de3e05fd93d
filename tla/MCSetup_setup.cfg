SPECIFICATION MCSpec
CONSTANTS
  Details = {1, 2}
  Loads = {l1}
  Puts = {p1, p2}
  MaxRows = 3
  Screens = {"BusinessHours", "QuietHours", "CalendarBookingSettings", "AssistantSettings", "ProfileSettings", "PrivacySettings"}
  Pins = {"p1", "p2"}
  Passwords = {"w1"}
  Devices = {"d1", "d2"}
  MaxRequests = 2
  Plans = {"basic", "trial"}
  CardPlans = {"basic"}
  LimitedPlans = {"trial"}
  Modes = {"mode_b"}
SYMMETRY PutsAreAlike
INVARIANTS  StepUpForThis GuidedInOrder 
PROPERTY NoBlindOverwrite
